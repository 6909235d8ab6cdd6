--------------------------- MODULE CheckoutProofs ---------------------------
(***************************************************************************)
(* Theorems about the checkout, for any amounts, numbers of transactions,  *)
(* rentals and mishaps.  One page never charges a rental twice, and takes  *)
(* no more than it approved; that it is one page matters: the run of two   *)
(* pages finds both paying.  Access is earned with any number of pages.    *)
(***************************************************************************)
EXTENDS Checkout, SequenceTheorems, TLAPS

-----------------------------------------------------------------------------
(* The argument needs no more of types than that fields are there: V holds *)
(* whatever values the chains and the relay have answered with so far.     *)

At == Paying \cup Prompting \cup
      {"idle", "inspecting", "mintWait", "reinspecting", "recovering", "payWait",
       "enqueueing", "polling"}

SessionOf(V) ==
  [phase : Phase, durationSeconds : V, account : V, approval : Int, source : Int]
StepOf(V) ==
  [at : At, account : V, price : V, duration : V, hash : Int, approved : BOOLEAN]
PageOf(V) ==
  [session : SessionOf(V), offer : V, snapshot : V, step : StepOf(V), job : V, resume : Int]
TxOf(V) ==
  [kind : {"mint", "approve", "pay"}, from : V, amount : V, duration : V, approved : BOOLEAN,
   lost : BOOLEAN, rental : Nat, nonce : Int,
   status : {"pending", "mined", "reverted", "dropped"}, receipt : V]

Typed(V) ==
  /\ {0, 1, Zero, NoSnapshot, "none"} \subseteq V
  /\ page \in [Tab -> PageOf(V)]
  /\ stored \in {<<>>} \cup {<<s>> : s \in SessionOf(V)}
  /\ broadcast \in Seq(TxOf(V))
  /\ prompts \subseteq TxOf(V)

Shaped == \E V : Typed(V)

-----------------------------------------------------------------------------
(* The inductive invariant: while the current rental has a charge, both    *)
(* the page and the record of the browser hold the hash of a payment, and  *)
(* the page is not on its way to another.                                  *)

Charged == \E h \in DOMAIN broadcast : Charge(h) /\ broadcast[h].rental = started

SourceKept(t) ==
  Charged =>
    /\ page[t].session.source # 0
    /\ stored # <<>> /\ stored[1].source # 0
    /\ page[t].step.at \notin Paying

RentalsBegun ==
  /\ started \in Nat
  /\ \A h \in DOMAIN broadcast : broadcast[h].rental <= started
  /\ \A p \in prompts : p.lost = TRUE /\ p.rental <= started

WaitsForHash(t) == page[t].step.at = "payWait" => page[t].step.hash # 0

ChargeInv(t) ==
  Shaped /\ RentalsBegun /\ NoDuplicateCharge /\ SourceKept(t) /\ WaitsForHash(t)

-----------------------------------------------------------------------------
(* Values may be added to V. *)

LEMMA SeqGrows ==
  ASSUME NEW S, NEW T, S \subseteq T, NEW s \in Seq(S)
  PROVE  s \in Seq(T)
<1>1. Len(s) \in Nat /\ s \in [1 .. Len(s) -> S]
  BY LenProperties
<1>2. s \in [1 .. Len(s) -> T]
  BY <1>1
<1> QED BY <1>1, <1>2, SeqDef

LEMMA SessionGrows ==
  ASSUME NEW V, NEW W, V \subseteq W
  PROVE  SessionOf(V) \subseteq SessionOf(W) /\ StepOf(V) \subseteq StepOf(W)
BY DEF SessionOf, StepOf

LEMMA TypedGrows ==
  ASSUME NEW V, Typed(V), NEW W, V \subseteq W
  PROVE  Typed(W)
<1>1. SessionOf(V) \subseteq SessionOf(W) /\ StepOf(V) \subseteq StepOf(W)
  BY SessionGrows
<1>2. PageOf(V) \subseteq PageOf(W)
  <2> HIDE DEF SessionOf, StepOf
  <2> QED BY <1>1 DEF PageOf
<1>3. TxOf(V) \subseteq TxOf(W)
  BY DEF TxOf
<1>4. broadcast \in Seq(TxOf(W))
  BY <1>3, SeqGrows DEF Typed
<1> QED BY <1>1, <1>2, <1>3, <1>4 DEF Typed

\* What a page is made of.
LEMMA PageTypes ==
  ASSUME NEW t, Tab = {t}, NEW V, Typed(V)
  PROVE  /\ page[t] \in PageOf(V) /\ page \in [Tab -> PageOf(V)]
         /\ page[t].session \in SessionOf(V) /\ page[t].step \in StepOf(V)
         /\ page[t].snapshot \in V /\ page[t].offer \in V
         /\ Idle \in StepOf(V) /\ Idle.at = "idle"
         /\ createRentalSession \in SessionOf(V) /\ createRentalSession.source = 0
<1>1. page[t] \in PageOf(V) /\ page \in [Tab -> PageOf(V)]
  BY DEF Typed
<1>2. /\ page[t].session \in SessionOf(V) /\ page[t].step \in StepOf(V)
      /\ page[t].snapshot \in V /\ page[t].offer \in V
  BY <1>1 DEF PageOf
<1>3. Idle \in StepOf(V) /\ Idle.at = "idle"
  BY DEF Idle, StepOf, At, Typed
<1>4. createRentalSession \in SessionOf(V) /\ createRentalSession.source = 0
  BY DEF createRentalSession, SessionOf, Phase, Typed
<1> QED BY <1>1, <1>2, <1>3, <1>4

-----------------------------------------------------------------------------
(* Steps of the page that broadcast nothing. *)

LEMMA PageMoves ==
  ASSUME NEW t, Tab = {t}, ChargeInv(t), NEW V, Typed(V), NEW new \in PageOf(V),
         page' = [u \in Tab |-> new], UNCHANGED <<broadcast, prompts, started>>,
         stored' = stored \/ stored' = <<new.session>>,
         new.session.source = page[t].session.source \/ new.session.source # 0,
         new.step.at \in Paying => page[t].step.at \in Paying \/ page[t].session.source = 0,
         new.step.at = "payWait" => new.step.hash # 0
  PROVE  ChargeInv(t)'
<1>1. page'[t] = new /\ page' \in [Tab -> PageOf(V)]
  OBVIOUS
<1>2. new.session \in SessionOf(V)
  BY DEF PageOf
<1>3. Shaped'
  <2>1. Typed(V)'
    BY <1>1, <1>2 DEF Typed
  <2> QED BY <2>1 DEF Shaped
<1>4. RentalsBegun' /\ NoDuplicateCharge' /\ (Charged' <=> Charged)
  BY DEF ChargeInv, RentalsBegun, NoDuplicateCharge, Charge, Charged
<1>5. SourceKept(t)'
  <2>1. CASE ~ Charged
    BY <1>4, <2>1 DEF SourceKept
  <2>2. CASE Charged
    <3>1. /\ page[t].session.source # 0 /\ page[t].step.at \notin Paying
          /\ stored # <<>> /\ stored[1].source # 0
      BY <2>2 DEF ChargeInv, SourceKept
    <3>2. new.session.source # 0 /\ new.step.at \notin Paying
      BY <3>1
    <3>3. stored' # <<>> /\ stored'[1].source # 0
      BY <3>1, <3>2
    <3> QED BY <1>1, <3>2, <3>3 DEF SourceKept
  <2> QED BY <2>1, <2>2
<1>6. WaitsForHash(t)'
  BY <1>1 DEF WaitsForHash
<1> QED BY <1>3, <1>4, <1>5, <1>6 DEF ChargeInv

\* The new session also goes to the record of the browser.
LEMMA CommitMoves ==
  ASSUME NEW t, Tab = {t}, ChargeInv(t), NEW V, Typed(V), NEW session \in SessionOf(V),
         NEW snapshot \in V, NEW step \in StepOf(V), Commit(t, session, snapshot, step),
         UNCHANGED <<broadcast, prompts, started>>,
         session.source = page[t].session.source \/ session.source # 0,
         step.at \in Paying => page[t].step.at \in Paying \/ page[t].session.source = 0,
         step.at = "payWait" => step.hash # 0
  PROVE  ChargeInv(t)'
<1> DEFINE new == [page[t] EXCEPT !.session = session, !.snapshot = snapshot, !.step = step]
<1>1. page[t] \in PageOf(V) /\ page \in [Tab -> PageOf(V)]
  BY PageTypes
<1>2. new \in PageOf(V) /\ new.session = session /\ new.step = step
  <2> HIDE DEF SessionOf, StepOf
  <2> QED BY <1>1 DEF PageOf
<1>3. page' = [page EXCEPT ![t] = new] /\ stored' = <<session>>
  BY DEF Commit
<1> HIDE DEF new
<1>4. page' = [u \in Tab |-> new]
  BY <1>1, <1>3
<1> QED BY <1>2, <1>3, <1>4, PageMoves

\* The page waits for something else.
LEMMA AwaitMoves ==
  ASSUME NEW t, Tab = {t}, ChargeInv(t), NEW V, Typed(V), NEW step \in StepOf(V),
         Await(t, step), UNCHANGED <<broadcast, prompts, started>>,
         step.at \in Paying => page[t].step.at \in Paying \/ page[t].session.source = 0,
         step.at = "payWait" => step.hash # 0
  PROVE  ChargeInv(t)'
<1> DEFINE new == [page[t] EXCEPT !.step = step]
<1>1. page[t] \in PageOf(V) /\ page \in [Tab -> PageOf(V)]
  BY PageTypes
<1>2. new \in PageOf(V) /\ new.session = page[t].session /\ new.step = step
  <2> HIDE DEF SessionOf, StepOf
  <2> QED BY <1>1 DEF PageOf
<1>3. page' = [page EXCEPT ![t] = new] /\ stored' = stored
  BY DEF Await
<1> HIDE DEF new
<1>4. page' = [u \in Tab |-> new]
  BY <1>1, <1>3
<1> QED BY <1>2, <1>3, <1>4, PageMoves

LEMMA PausedMoves ==
  ASSUME NEW t, Tab = {t}, ChargeInv(t), Paused(t), UNCHANGED <<broadcast, prompts, started>>
  PROVE  ChargeInv(t)'
<1>1. PICK V : Typed(V)
  BY DEF ChargeInv, Shaped
<1>2. Idle \in StepOf(V) /\ Idle.at = "idle" /\ Await(t, Idle)
  BY <1>1, PageTypes DEF Paused, Await
<1>3. "idle" \notin Paying
  BY DEF Paying
<1> HIDE DEF Idle
<1> QED BY <1>1, <1>2, <1>3, AwaitMoves

-----------------------------------------------------------------------------
(* The buttons. *)

LEMMA CapturedTypes ==
  ASSUME NEW t, Tab = {t}, NEW V, Typed(V), account \in V, NEW at \in At
  PROVE  /\ Captured(t, at) \in StepOf(V)
         /\ Captured(t, at).at = at /\ Captured(t, at).hash = 0
<1>1. Idle \in StepOf(V) /\ page[t].offer \in V /\ page[t].session.durationSeconds \in V
  BY PageTypes DEF SessionOf
<1>2. Idle.hash = 0
  BY DEF Idle
<1> HIDE DEF Idle
<1> QED BY <1>1, <1>2 DEF Captured, StepOf

LEMMA EditSteps ==
  ASSUME NEW t, Tab = {t}, ChargeInv(t),
         \/ \E d \in LegalDuration : ApplyDuration(t, d)
         \/ \E d \in Duration : Review(t, d)
         \/ EditDuration(t) \/ ContinueToPayment(t)
  PROVE  ChargeInv(t)'
<1>1. UNCHANGED <<broadcast, prompts, started>>
  BY DEF ApplyDuration, Review, EditDuration, ContinueToPayment, Local
<1>2. PICK U : Typed(U)
  BY DEF ChargeInv, Shaped
<1>3. CASE \E d \in LegalDuration : ApplyDuration(t, d)
  <2>1. PICK d \in LegalDuration : ApplyDuration(t, d)
    BY <1>3
  <2> DEFINE V == U \cup {d}
             session == [page[t].session EXCEPT !.durationSeconds = d, !.phase = "duration",
                                                !.approval = 0]
  <2>2. Typed(V)
    BY <1>2, TypedGrows
  <2> HIDE DEF V
  <2>3. session \in SessionOf(V) /\ session.source = page[t].session.source
    BY <2>2, PageTypes DEF V, SessionOf, Phase
  <2>4. NoSnapshot \in V /\ Idle \in StepOf(V) /\ Idle.at = "idle"
    BY <2>2, PageTypes DEF Typed
  <2>5. Commit(t, session, NoSnapshot, Idle)
    BY <2>1 DEF ApplyDuration
  <2> HIDE DEF session, Idle
  <2> QED BY <1>1, <2>2, <2>3, <2>4, <2>5, CommitMoves DEF Paying
<1>4. CASE \E d \in Duration : Review(t, d)
  <2>1. PICK d \in Duration : Review(t, d)
    BY <1>4
  <2> DEFINE V == U \cup {d}
             session == [page[t].session EXCEPT !.durationSeconds = d, !.phase = "review"]
  <2>2. Typed(V)
    BY <1>2, TypedGrows
  <2> HIDE DEF V
  <2>3. session \in SessionOf(V) /\ session.source = page[t].session.source
    BY <2>2, PageTypes DEF V, SessionOf, Phase
  <2>4. page[t].snapshot \in V /\ page[t].step \in StepOf(V)
    BY <2>2, PageTypes
  <2>5. Commit(t, session, page[t].snapshot, page[t].step)
    BY <2>1 DEF Review
  <2> HIDE DEF session
  <2> QED BY <1>1, <2>2, <2>3, <2>4, <2>5, CommitMoves DEF ChargeInv, WaitsForHash
<1>5. CASE EditDuration(t)
  <2> DEFINE session == [page[t].session EXCEPT !.phase = "duration"]
  <2>1. session \in SessionOf(U) /\ session.source = page[t].session.source
    BY <1>2, PageTypes DEF SessionOf, Phase
  <2>2. page[t].snapshot \in U /\ page[t].step \in StepOf(U)
    BY <1>2, PageTypes
  <2>3. Commit(t, session, page[t].snapshot, page[t].step)
    BY <1>5 DEF EditDuration
  <2> HIDE DEF session
  <2> QED BY <1>1, <1>2, <2>1, <2>2, <2>3, CommitMoves DEF ChargeInv, WaitsForHash
<1>6. CASE ContinueToPayment(t)
  <2> DEFINE session == [page[t].session EXCEPT !.phase = "payment"]
  <2>1. session \in SessionOf(U) /\ session.source = page[t].session.source
    BY <1>2, PageTypes DEF SessionOf, Phase
  <2>2. page[t].snapshot \in U /\ Idle \in StepOf(U) /\ Idle.at = "idle"
    BY <1>2, PageTypes
  <2>3. Commit(t, session, page[t].snapshot, Idle)
    BY <1>6 DEF ContinueToPayment
  <2> HIDE DEF session, Idle
  <2> QED BY <1>1, <1>2, <2>1, <2>2, <2>3, CommitMoves DEF Paying
<1> QED BY <1>3, <1>4, <1>5, <1>6

\* The guard: without a stored payment there is no charge yet.
LEMMA RequestSteps ==
  ASSUME NEW t, Tab = {t}, ChargeInv(t), Inspect(t) \/ GetTestTokens(t) \/ PayOrResume(t)
  PROVE  ChargeInv(t)'
<1>1. UNCHANGED <<broadcast, prompts, started>>
  BY DEF Inspect, GetTestTokens, PayOrResume, Local
<1>2. PICK U : Typed(U)
  BY DEF ChargeInv, Shaped
<1> DEFINE V == U \cup {account}
<1>3. Typed(V) /\ account \in V
  BY <1>2, TypedGrows
<1> HIDE DEF V
<1>4. ASSUME NEW at \in {"inspecting", "mintPrompt"}, Await(t, Captured(t, at))
      PROVE  ChargeInv(t)'
  <2>1. at \in At /\ at \notin Paying /\ at # "payWait"
    BY DEF At, Prompting, Paying
  <2>2. Captured(t, at) \in StepOf(V) /\ Captured(t, at).at = at
    BY <1>3, <2>1, CapturedTypes
  <2> QED BY <1>1, <1>3, <1>4, <2>1, <2>2, AwaitMoves
<1>5. CASE PayOrResume(t)
  <2> DEFINE session == page[t].session
  <2>1. session.source \in Int /\ session.approval \in Int
    BY <1>3, PageTypes DEF SessionOf
  <2>2. CASE session.source # 0
    <3> DEFINE step == [Captured(t, "recovering") EXCEPT !.hash = session.source]
    <3>1. "recovering" \in At /\ "recovering" \notin Paying
      BY DEF At, Paying
    <3>2. step \in StepOf(V) /\ step.at = "recovering"
      <4>1. Captured(t, "recovering") \in StepOf(V) /\ Captured(t, "recovering").at = "recovering"
        BY <1>3, <3>1, CapturedTypes
      <4> QED BY <2>1, <4>1 DEF StepOf
    <3>3. Await(t, step)
      BY <1>5, <2>2 DEF PayOrResume, CanRecover
    <3> HIDE DEF step
    <3> QED BY <1>1, <1>3, <3>1, <3>2, <3>3, AwaitMoves
  <2>3. CASE session.source = 0
    <3>1. PICK step :
            /\ Await(t, step)
            /\ \/ step = [Captured(t, "approvalWait") EXCEPT !.hash = session.approval]
               \/ step = Captured(t, "checking")
      BY <1>5, <2>3 DEF PayOrResume, CanRecover
    <3>2. step \in StepOf(V) /\ step.at \in {"approvalWait", "checking"}
      <4>1. ASSUME NEW at \in {"approvalWait", "checking"}
            PROVE  Captured(t, at) \in StepOf(V) /\ Captured(t, at).at = at
        BY <1>3, CapturedTypes DEF At, Paying
      <4> QED BY <2>1, <3>1, <4>1 DEF StepOf
    <3> QED BY <1>1, <1>3, <2>3, <3>1, <3>2, AwaitMoves
  <2> QED BY <2>2, <2>3
<1> QED BY <1>4, <1>5 DEF Inspect, GetTestTokens

-----------------------------------------------------------------------------
(* The answers. *)

LEMMA StepTypes ==
  ASSUME NEW t, Tab = {t}, NEW V, Typed(V), NEW at \in At
  PROVE  /\ [page[t].step EXCEPT !.at = at] \in StepOf(V)
         /\ [page[t].step EXCEPT !.at = at].at = at
         /\ [page[t].step EXCEPT !.at = at].hash = page[t].step.hash
         /\ page[t].step.account \in V
BY PageTypes DEF StepOf

\* What a prompt asks for.
LEMMA RequestTypes ==
  ASSUME NEW t, Tab = {t}, ChargeInv(t), NEW V, Typed(V), Request(t).amount \in V
  PROVE  /\ Request(t) \in TxOf(V)
         /\ [Request(t) EXCEPT !.lost = TRUE] \in TxOf(V)
         /\ Request(t).rental = started /\ Request(t).kind = Kind(page[t].step.at)
<1> DEFINE step == page[t].step
           amount == Request(t).amount
<1>1. step.account \in V /\ step.duration \in V /\ step.approved \in BOOLEAN /\ amount \in V
  BY PageTypes DEF StepOf
<1>2. Kind(step.at) \in {"mint", "approve", "pay"}
  BY DEF Kind
<1>3. Request(t) = [kind |-> Kind(step.at), from |-> step.account, amount |-> amount,
                    duration |-> step.duration, approved |-> step.approved, lost |-> FALSE,
                    rental |-> started, nonce |-> 0, status |-> "pending", receipt |-> 0]
  BY DEF Request
<1>4. started \in Nat /\ 0 \in V
  BY DEF ChargeInv, RentalsBegun, Typed
<1> HIDE DEF step, amount
<1>5. Request(t) \in TxOf(V)
  BY <1>1, <1>2, <1>3, <1>4 DEF TxOf
<1>6. [Request(t) EXCEPT !.lost = TRUE] \in TxOf(V)
  BY <1>5 DEF TxOf
<1> QED BY <1>3, <1>5, <1>6 DEF step

LEMMA WaitingSteps ==
  ASSUME NEW t, Tab = {t}, ChargeInv(t),
         ApprovalKnown(t) \/ MintMined(t) \/ Enqueued(t) \/ Fault(t)
  PROVE  ChargeInv(t)'
<1>1. UNCHANGED <<broadcast, prompts, started>>
  BY DEF ApprovalKnown, MintMined, Enqueued, Fault, Local
<1>2. PICK V : Typed(V)
  BY DEF ChargeInv, Shaped
<1>3. \/ Paused(t)
      \/ \E at \in {"checking", "reinspecting", "polling"} :
           /\ Await(t, [page[t].step EXCEPT !.at = at])
           /\ at = "checking" => page[t].step.at = "approvalWait"
  BY DEF ApprovalKnown, MintMined, Enqueued, Fault
<1>4. ASSUME NEW at \in {"checking", "reinspecting", "polling"},
             Await(t, [page[t].step EXCEPT !.at = at]),
             at = "checking" => page[t].step.at = "approvalWait"
      PROVE  ChargeInv(t)'
  <2>1. at \in At /\ (at \in Paying => page[t].step.at \in Paying)
    BY <1>4 DEF At, Paying
  <2>2. /\ [page[t].step EXCEPT !.at = at] \in StepOf(V)
        /\ [page[t].step EXCEPT !.at = at].at = at
    BY <1>2, <2>1, StepTypes
  <2> QED BY <1>1, <1>2, <1>4, <2>1, <2>2, AwaitMoves
<1> QED BY <1>1, <1>3, <1>4, PausedMoves

LEMMA CheckSteps ==
  ASSUME NEW t, Tab = {t}, ChargeInv(t), Check(t) \/ ApprovalMined(t)
  PROVE  ChargeInv(t)'
<1>1. UNCHANGED <<broadcast, prompts, started>> /\ page[t].step.at \in Paying
  BY DEF Check, ApprovalMined, Local, Paying
<1>2. PICK V : Typed(V)
  BY DEF ChargeInv, Shaped
<1>3. \/ Paused(t)
      \/ \E phase \in {"approving", "payment"}, at \in {"approvePrompt", "payPrompt"},
           approved \in BOOLEAN :
           \E step \in {[page[t].step EXCEPT !.at = at],
                        [page[t].step EXCEPT !.at = at, !.approved = TRUE]} :
             Commit(t, [page[t].session EXCEPT !.phase = phase, !.account = page[t].step.account],
                    page[t].snapshot, step)
  BY DEF Check, ApprovalMined
<1>4. ASSUME NEW phase \in {"approving", "payment"}, NEW at \in {"approvePrompt", "payPrompt"},
             NEW step \in {[page[t].step EXCEPT !.at = at],
                          [page[t].step EXCEPT !.at = at, !.approved = TRUE]},
             Commit(t, [page[t].session EXCEPT !.phase = phase, !.account = page[t].step.account],
                    page[t].snapshot, step)
      PROVE  ChargeInv(t)'
  <2> DEFINE session ==
               [page[t].session EXCEPT !.phase = phase, !.account = page[t].step.account]
  <2>1. page[t].step \in StepOf(V) /\ page[t].session \in SessionOf(V) /\ page[t].snapshot \in V
    BY <1>2, PageTypes
  <2>2. step \in StepOf(V) /\ step.at = at /\ at # "payWait"
    BY <2>1 DEF StepOf, At, Paying
  <2>3. session \in SessionOf(V) /\ session.source = page[t].session.source
    BY <2>1 DEF SessionOf, StepOf, Phase
  <2> HIDE DEF session
  <2> QED BY <1>1, <1>2, <1>4, <2>1, <2>2, <2>3, CommitMoves DEF session
<1> QED BY <1>1, <1>3, <1>4, PausedMoves

LEMMA InspectAnswerStep ==
  ASSUME NEW t, Tab = {t}, ChargeInv(t), InspectAnswer(t)
  PROVE  ChargeInv(t)'
<1>1. UNCHANGED <<broadcast, prompts, started>>
  BY DEF InspectAnswer
<1>2. PICK U : Typed(U)
  BY DEF ChargeInv, Shaped
<1>3. ASSUME NEW gas \in BOOLEAN,
             \/ Commit(t, [page[t].session EXCEPT !.phase = "funds",
                                                 !.account = page[t].step.account],
                       Inspected(page[t].step, gas), Idle)
             \/ /\ page' = [page EXCEPT ![t] = [@ EXCEPT
                               !.snapshot = Inspected(page[t].step, gas), !.step = Idle]]
                /\ UNCHANGED stored
      PROVE  ChargeInv(t)'
  <2> DEFINE snapshot == Inspected(page[t].step, gas)
             V == U \cup {snapshot}
             session == [page[t].session EXCEPT !.phase = "funds",
                                                !.account = page[t].step.account]
             new == [page[t] EXCEPT !.snapshot = snapshot, !.step = Idle]
  <2> HIDE DEF snapshot
  <2>1. Typed(V) /\ snapshot \in V
    BY <1>2, TypedGrows
  <2> HIDE DEF V
  <2>2. /\ page[t].step \in StepOf(V) /\ page[t].session \in SessionOf(V)
        /\ page[t] \in PageOf(V) /\ page \in [Tab -> PageOf(V)]
        /\ Idle \in StepOf(V) /\ Idle.at = "idle"
    BY <2>1, PageTypes
  <2>3. "idle" \notin Paying
    BY DEF Paying
  <2> HIDE DEF Idle
  <2>4. CASE Commit(t, session, snapshot, Idle)
    <3>1. session \in SessionOf(V) /\ session.source = page[t].session.source
      BY <2>2 DEF SessionOf, StepOf, Phase
    <3> HIDE DEF session
    <3> QED BY <1>1, <2>1, <2>2, <2>3, <2>4, <3>1, CommitMoves
  <2>5. CASE page' = [page EXCEPT ![t] = new] /\ UNCHANGED stored
    <3>1. new \in PageOf(V) /\ new.session = page[t].session /\ new.step = Idle
      <4> HIDE DEF SessionOf, StepOf
      <4> QED BY <2>1, <2>2 DEF PageOf
    <3> HIDE DEF new
    <3>2. page' = [u \in Tab |-> new]
      BY <2>2, <2>5
    <3> QED BY <1>1, <2>1, <2>2, <2>3, <2>5, <3>1, <3>2, PageMoves
  <2> QED BY <1>3, <2>4, <2>5 DEF snapshot
<1> QED BY <1>1, <1>3, PausedMoves DEF InspectAnswer

LEMMA PaymentKnownStep ==
  ASSUME NEW t, Tab = {t}, ChargeInv(t), PaymentKnown(t)
  PROVE  ChargeInv(t)'
<1>1. UNCHANGED <<broadcast, prompts, started>>
  BY DEF PaymentKnown, Local
<1>2. PICK U : Typed(U)
  BY DEF ChargeInv, Shaped
<1>3. ASSUME NEW log \in ReceiptPayments(page[t].step.hash),
             Commit(t, [page[t].session EXCEPT !.phase = "relay",
                          !.durationSeconds = log.duration,
                          !.source = IF page[t].step.at = "payWait" THEN page[t].step.hash
                                     ELSE page[t].session.source],
                    page[t].snapshot, [page[t].step EXCEPT !.at = "enqueueing"])
      PROVE  ChargeInv(t)'
  <2> DEFINE V == U \cup {log.duration}
             source == IF page[t].step.at = "payWait" THEN page[t].step.hash
                       ELSE page[t].session.source
             session == [page[t].session EXCEPT !.phase = "relay",
                           !.durationSeconds = log.duration, !.source = source]
             step == [page[t].step EXCEPT !.at = "enqueueing"]
  <2>1. Typed(V) /\ log.duration \in V
    BY <1>2, TypedGrows
  <2> HIDE DEF V
  <2>2. /\ page[t].step \in StepOf(V) /\ page[t].session \in SessionOf(V)
        /\ page[t].snapshot \in V
    BY <2>1, PageTypes
  <2>3. source \in Int /\ (source = page[t].session.source \/ source # 0)
    BY <2>2 DEF SessionOf, StepOf, ChargeInv, WaitsForHash
  <2>4. step \in StepOf(V) /\ step.at = "enqueueing"
    BY <2>2 DEF StepOf, At
  <2>5. "enqueueing" \notin Paying
    BY DEF Paying
  <2>6. Commit(t, session, page[t].snapshot, step)
    BY <1>3
  <2> HIDE DEF step, source
  <2>7. session \in SessionOf(V) /\ session.source = source
    BY <2>1, <2>2, <2>3 DEF SessionOf, Phase
  <2> HIDE DEF session
  <2> QED BY <1>1, <2>1, <2>2, <2>3, <2>4, <2>5, <2>6, <2>7, CommitMoves
<1> QED BY <1>1, <1>3, PausedMoves DEF PaymentKnown

LEMMA PolledStep ==
  ASSUME NEW t, Tab = {t}, ChargeInv(t), Polled(t)
  PROVE  ChargeInv(t)'
<1>1. UNCHANGED <<broadcast, prompts, started>>
  BY DEF Polled, Local
<1>2. PICK U : Typed(U)
  BY DEF ChargeInv, Shaped
<1> DEFINE job == jobs[page[t].step.hash]
           V == U \cup {job}
<1>3. Typed(V) /\ job \in V
  BY <1>2, TypedGrows
<1> HIDE DEF job, V
<1>4. PICK phase \in {"access", "relay"}, step \in {page[t].step, Idle} :
        /\ page' = [page EXCEPT ![t] = [@ EXCEPT
                      !.session = [page[t].session EXCEPT !.phase = phase], !.job = job,
                      !.step = step]]
        /\ stored' = <<[page[t].session EXCEPT !.phase = phase]>>
        /\ page[t].step.at = "polling"
  BY DEF Polled, job
<1> DEFINE session == [page[t].session EXCEPT !.phase = phase]
           new == [page[t] EXCEPT !.session = session, !.job = job, !.step = step]
<1>5. /\ page[t].step \in StepOf(V) /\ page[t].session \in SessionOf(V)
      /\ page[t] \in PageOf(V) /\ page \in [Tab -> PageOf(V)]
      /\ Idle \in StepOf(V) /\ Idle.at = "idle"
  BY <1>3, PageTypes
<1>6. session \in SessionOf(V) /\ session.source = page[t].session.source
  BY <1>5 DEF SessionOf, Phase
<1>7. step.at \notin Paying /\ step.at # "payWait" /\ step \in StepOf(V)
  BY <1>4, <1>5 DEF Paying
<1>8. page' = [page EXCEPT ![t] = new] /\ stored' = <<session>>
  BY <1>4
<1> HIDE DEF session, Idle
<1>9. new \in PageOf(V) /\ new.session = session /\ new.step = step
  <2> HIDE DEF SessionOf, StepOf
  <2> QED BY <1>3, <1>5, <1>6, <1>7 DEF PageOf
<1> HIDE DEF new
<1>10. page' = [u \in Tab |-> new]
  BY <1>5, <1>8
<1> QED BY <1>1, <1>3, <1>6, <1>7, <1>8, <1>9, <1>10, PageMoves

-----------------------------------------------------------------------------
(* The browser. *)

LEMMA RefetchStep ==
  ASSUME NEW t, Tab = {t}, ChargeInv(t), Refetch(t)
  PROVE  ChargeInv(t)'
<1>1. PICK U : Typed(U)
  BY DEF ChargeInv, Shaped
<1>2. PICK offer : page' = [page EXCEPT ![t].offer = offer]
  BY DEF Refetch
<1>3. UNCHANGED <<broadcast, prompts, started, stored>>
  BY DEF Refetch, Local
<1> DEFINE V == U \cup {offer}
           new == [page[t] EXCEPT !.offer = offer]
<1>4. Typed(V) /\ offer \in V
  BY <1>1, TypedGrows
<1> HIDE DEF V
<1>5. page[t] \in PageOf(V) /\ page \in [Tab -> PageOf(V)]
  BY <1>4, PageTypes
<1>6. new \in PageOf(V) /\ new.session = page[t].session /\ new.step = page[t].step
  <2> HIDE DEF SessionOf, StepOf
  <2> QED BY <1>4, <1>5 DEF PageOf
<1> HIDE DEF new
<1>7. page' = [u \in Tab |-> new]
  BY <1>2, <1>5 DEF new
<1> QED BY <1>3, <1>4, <1>6, <1>7, PageMoves DEF ChargeInv, WaitsForHash

LEMMA ResumedTypes ==
  ASSUME NEW V, Typed(V), NEW acct \in V, NEW resume \in Int
  PROVE  Resumed(resume, acct) \in SessionOf(V) /\ Resumed(resume, acct).source = resume
<1>1. createRentalSession \in SessionOf(V)
  BY DEF createRentalSession, SessionOf, Phase, Typed
<1> HIDE DEF createRentalSession
<1> QED BY <1>1 DEF Resumed, SessionOf, Phase

LEMMA ConnectedStep ==
  ASSUME NEW t, Tab = {t}, ChargeInv(t), NEW a, Connected(a), UNCHANGED <<broadcast, prompts, started>>
  PROVE  ChargeInv(t)'
<1>1. PICK U : Typed(U)
  BY DEF ChargeInv, Shaped
<1> DEFINE V == U \cup {a}
           resumed == Resumed(page[t].resume, a)
<1>2. Typed(V) /\ a \in V
  BY <1>1, TypedGrows
<1> HIDE DEF V
<1>3. /\ page[t] \in PageOf(V) /\ page \in [Tab -> PageOf(V)] /\ page[t].resume \in Int
  BY <1>2, PageTypes DEF PageOf
<1>4. resumed \in SessionOf(V) /\ resumed.source = page[t].resume
  BY <1>2, <1>3, ResumedTypes
<1>5. CASE Resumes(page[t].session, page[t].resume)
  <2> DEFINE new == [page[t] EXCEPT !.session = resumed]
  <2>1. page' = [u \in Tab |-> new] /\ stored' = <<resumed>> /\ page[t].resume # 0
    BY <1>5 DEF Connected, Resumes
  <2> HIDE DEF resumed
  <2>2. new \in PageOf(V) /\ new.session = resumed /\ new.step = page[t].step
    <3> HIDE DEF SessionOf, StepOf
    <3> QED BY <1>3, <1>4 DEF PageOf
  <2> HIDE DEF new
  <2> QED BY <1>2, <1>4, <2>1, <2>2, PageMoves DEF ChargeInv, WaitsForHash
<1>6. CASE ~ Resumes(page[t].session, page[t].resume)
  <2>1. page' = [u \in Tab |-> page[t]] /\ stored' = stored
    BY <1>6 DEF Connected
  <2> QED BY <1>2, <1>3, <2>1, PageMoves DEF ChargeInv, WaitsForHash
<1> QED BY <1>5, <1>6

LEMMA OpenStep ==
  ASSUME NEW t, Tab = {t}, ChargeInv(t), NEW resume \in Int, Open(t, resume)
  PROVE  ChargeInv(t)'
<1>1. PICK U : Typed(U)
  BY DEF ChargeInv, Shaped
<1>0. PICK V : V = U \cup {account, Listing, Request(t).amount}
  OBVIOUS
<1> DEFINE found == IF Resumes(parseRentalSession, resume) THEN Resumed(resume, account)
                    ELSE parseRentalSession
           new == Loaded(found, resume)
<1>2. Typed(V) /\ account \in V /\ Listing \in V /\ Request(t).amount \in V
  BY <1>0, <1>1, TypedGrows
<1>3. /\ page[t] \in PageOf(V) /\ page \in [Tab -> PageOf(V)]
      /\ createRentalSession \in SessionOf(V) /\ Idle \in StepOf(V) /\ Idle.at = "idle"
  BY <1>2, PageTypes
<1>4. parseRentalSession \in SessionOf(V)
  <2> HIDE DEF createRentalSession
  <2> QED BY <1>2, <1>3 DEF parseRentalSession, Typed
<1>5. Resumed(resume, account) \in SessionOf(V) /\ Resumed(resume, account).source = resume
  BY <1>2, ResumedTypes
<1>6. found \in SessionOf(V)
  BY <1>4, <1>5
<1>7. new \in PageOf(V) /\ new.session = found /\ new.step = Idle
  <2> HIDE DEF SessionOf, StepOf, found, Idle
  <2>1. NoSnapshot \in V /\ "none" \in V
    BY <1>2 DEF Typed
  <2> QED BY <1>2, <1>3, <1>6, <2>1 DEF Loaded, PageOf
<1>8. /\ page' = [u \in Tab |-> new] /\ UNCHANGED <<broadcast, started>>
      /\ stored' = IF Resumes(parseRentalSession, resume) THEN <<found>> ELSE stored
      /\ prompts' = prompts \cup
           IF page[t].step.at \in Prompting THEN {[Request(t) EXCEPT !.lost = TRUE]} ELSE {}
  BY <1>3 DEF Open
<1>9. [Request(t) EXCEPT !.lost = TRUE] \in TxOf(V)
  BY <1>2, RequestTypes
<1> HIDE DEF new
<1>10. Shaped'
  <2>1. stored' \in {<<>>} \cup {<<s>> : s \in SessionOf(V)}
    BY <1>2, <1>6, <1>8 DEF Typed
  <2>2. prompts' \subseteq TxOf(V)
    BY <1>2, <1>8, <1>9 DEF Typed
  <2>3. Typed(V)'
    BY <1>2, <1>7, <1>8, <2>1, <2>2 DEF Typed
  <2> QED BY <2>3 DEF Shaped
<1>11. RentalsBegun' /\ NoDuplicateCharge' /\ (Charged' <=> Charged)
  <2>1. /\ [Request(t) EXCEPT !.lost = TRUE].lost = TRUE
        /\ [Request(t) EXCEPT !.lost = TRUE].rental = started
    BY DEF Request
  <2>2. NoDuplicateCharge' /\ (Charged' <=> Charged)
    BY <1>8 DEF ChargeInv, NoDuplicateCharge, Charge, Charged
  <2>3. started \in Nat /\ started <= started
    BY DEF ChargeInv, RentalsBegun
  <2>4. RentalsBegun'
    <3> HIDE DEF Request
    <3> QED BY <1>8, <2>1, <2>3 DEF ChargeInv, RentalsBegun
  <2> QED BY <2>2, <2>4
<1>12. SourceKept(t)'
  <2> SUFFICES ASSUME Charged' PROVE /\ page'[t].session.source # 0
                                     /\ stored' # <<>> /\ stored'[1].source # 0
                                     /\ page'[t].step.at \notin Paying
    BY DEF SourceKept
  <2>1. stored # <<>> /\ stored[1].source # 0
    BY <1>11 DEF ChargeInv, SourceKept
  <2>2. parseRentalSession = stored[1]
    BY <2>1 DEF parseRentalSession
  <2>3. found.source # 0
    BY <1>5, <2>1, <2>2 DEF Resumes
  <2>4. "idle" \notin Paying
    BY DEF Paying
  <2> HIDE DEF found, Idle
  <2> QED BY <1>3, <1>7, <1>8, <2>1, <2>3, <2>4
<1>13. WaitsForHash(t)'
  <2> HIDE DEF Idle
  <2> QED BY <1>3, <1>7, <1>8 DEF WaitsForHash
<1> QED BY <1>10, <1>11, <1>12, <1>13 DEF ChargeInv

\* A new rental has no charge yet.
LEMMA StartAnotherStep ==
  ASSUME NEW t, Tab = {t}, ChargeInv(t), StartAnother(t)
  PROVE  ChargeInv(t)'
<1>1. PICK V : Typed(V)
  BY DEF ChargeInv, Shaped
<1> DEFINE new == [page[t] EXCEPT !.session = createRentalSession, !.snapshot = NoSnapshot,
                                  !.job = "none"]
<1>2. /\ page' = [page EXCEPT ![t] = new] /\ stored' = <<>> /\ started' = started + 1
      /\ UNCHANGED <<broadcast, prompts>>
  BY DEF StartAnother, Local
<1>3. page[t] \in PageOf(V) /\ page \in [Tab -> PageOf(V)] /\ createRentalSession \in SessionOf(V)
  BY <1>1, PageTypes
<1>4. new \in PageOf(V) /\ new.step = page[t].step
  <2>1. NoSnapshot \in V /\ "none" \in V
    BY <1>1 DEF Typed
  <2> HIDE DEF SessionOf, StepOf, createRentalSession
  <2> QED BY <1>3, <2>1 DEF PageOf
<1> HIDE DEF new
<1>5. page' = [u \in Tab |-> new]
  BY <1>2, <1>3
<1>6. Shaped'
  <2>1. Typed(V)'
    BY <1>1, <1>2, <1>4, <1>5 DEF Typed
  <2> QED BY <2>1 DEF Shaped
<1>7. /\ started \in Nat
      /\ \A h \in DOMAIN broadcast : broadcast[h] \in TxOf(V) /\ broadcast[h].rental <= started
      /\ \A p \in prompts : p \in TxOf(V) /\ p.lost = TRUE /\ p.rental <= started
  <2>1. \A h \in DOMAIN broadcast : broadcast[h] \in TxOf(V)
    BY <1>1, ElementOfSeq, LenProperties DEF Typed
  <2> QED BY <1>1, <2>1 DEF Typed, ChargeInv, RentalsBegun
<1>8. \A r \in Nat : r <= started => r <= started + 1 /\ r # started + 1
  BY <1>7
<1>9. RentalsBegun' /\ ~ Charged'
  <2>1. \A h \in DOMAIN broadcast : broadcast[h].rental \in Nat
    BY <1>7 DEF TxOf
  <2>2. \A p \in prompts : p.rental \in Nat
    BY <1>7 DEF TxOf
  <2> QED BY <1>2, <1>7, <1>8, <2>1, <2>2 DEF RentalsBegun, Charged
<1>10. NoDuplicateCharge'
  BY <1>2 DEF ChargeInv, NoDuplicateCharge, Charge
<1> QED BY <1>4, <1>5, <1>6, <1>9, <1>10 DEF ChargeInv, SourceKept, WaitsForHash

-----------------------------------------------------------------------------
(* The wallet. *)

LEMMA AppendTypes ==
  ASSUME NEW V, Typed(V), NEW tx \in TxOf(V), broadcast' = Append(broadcast, tx)
  PROVE  /\ broadcast' \in Seq(TxOf(V))
         /\ Len(broadcast) + 1 \in Nat \ {0} /\ Len(broadcast) + 1 \notin DOMAIN broadcast
         /\ DOMAIN broadcast' = DOMAIN broadcast \cup {Len(broadcast) + 1}
         /\ \A h \in DOMAIN broadcast : broadcast'[h] = broadcast[h]
         /\ broadcast'[Len(broadcast) + 1] = tx
<1>1. broadcast \in Seq(TxOf(V))
  BY DEF Typed
<1>2. /\ broadcast' \in Seq(TxOf(V)) /\ Len(broadcast') = Len(broadcast) + 1
      /\ \A h \in 1 .. Len(broadcast) : broadcast'[h] = broadcast[h]
      /\ broadcast'[Len(broadcast) + 1] = tx
  BY <1>1, AppendProperties
<1>3. /\ Len(broadcast) \in Nat /\ DOMAIN broadcast = 1 .. Len(broadcast)
      /\ DOMAIN broadcast' = 1 .. Len(broadcast')
  BY <1>1, <1>2, LenProperties
<1> HIDE DEF Typed
<1> QED BY <1>2, <1>3

\* The wallet adds a nonce.
LEMMA NonceTypes ==
  ASSUME NEW V, Typed(V), NEW request \in TxOf(V), Broadcasts(request)
  PROVE  \E tx \in TxOf(V) :
           /\ broadcast' = Append(broadcast, tx)
           /\ tx.kind = request.kind /\ tx.lost = request.lost /\ tx.rental = request.rental
<1>1. Len(broadcast) + 1 \in Int
  BY LenProperties DEF Typed
<1>2. PICK tx : tx = [request EXCEPT !.nonce = Len(broadcast) + 1]
  OBVIOUS
<1>3. /\ tx \in TxOf(V) /\ tx.kind = request.kind /\ tx.lost = request.lost
      /\ tx.rental = request.rental
  BY <1>1, <1>2 DEF TxOf
<1> QED BY <1>2, <1>3 DEF Broadcasts

\* A transaction nobody listens to charges nothing the page could know of.
LEMMA LostMoves ==
  ASSUME NEW t, Tab = {t}, ChargeInv(t), NEW V, Typed(V), NEW tx \in TxOf(V), tx.lost = TRUE,
         tx.rental <= started, broadcast' = Append(broadcast, tx), started' = started
  PROVE  /\ broadcast' \in Seq(TxOf(V)) /\ NoDuplicateCharge' /\ (Charged' => Charged)
         /\ \A h \in DOMAIN broadcast' : broadcast'[h].rental <= started'
<1>1. PICK n : n = Len(broadcast) + 1
  OBVIOUS
<1>2. /\ broadcast' \in Seq(TxOf(V)) /\ n \notin DOMAIN broadcast /\ broadcast'[n] = tx
      /\ DOMAIN broadcast' = DOMAIN broadcast \cup {n}
      /\ \A h \in DOMAIN broadcast : broadcast'[h] = broadcast[h]
  BY <1>1, AppendTypes
<1>3. \A h \in DOMAIN broadcast' : Charge(h)' => h \in DOMAIN broadcast /\ Charge(h)
  BY <1>2 DEF Charge
<1>4. NoDuplicateCharge' /\ (Charged' => Charged)
  BY <1>2, <1>3 DEF ChargeInv, NoDuplicateCharge, Charged
<1>5. \A h \in DOMAIN broadcast' : broadcast'[h].rental <= started'
  BY <1>2 DEF ChargeInv, RentalsBegun
<1> QED BY <1>2, <1>4, <1>5

\* Steps that leave the browser alone.
LEMMA NetworkMoves ==
  ASSUME NEW t, Tab = {t}, ChargeInv(t), NEW V, Typed(V), UNCHANGED <<page, stored, started>>,
         broadcast' \in Seq(TxOf(V)), prompts' \subseteq prompts,
         NoDuplicateCharge', Charged' => Charged,
         \A h \in DOMAIN broadcast' : broadcast'[h].rental <= started'
  PROVE  ChargeInv(t)'
<1>1. Shaped'
  <2>1. Typed(V)'
    BY DEF Typed
  <2> QED BY <2>1 DEF Shaped
<1>2. RentalsBegun'
  BY DEF ChargeInv, RentalsBegun
<1> QED BY <1>1, <1>2 DEF ChargeInv, SourceKept, WaitsForHash

LEMMA OrphanSignedStep ==
  ASSUME NEW t, Tab = {t}, ChargeInv(t), NEW p \in prompts, OrphanSigned(p)
  PROVE  ChargeInv(t)'
<1>1. PICK V : Typed(V)
  BY DEF ChargeInv, Shaped
<1>2. p \in TxOf(V) /\ p.lost = TRUE /\ p.rental <= started
  BY <1>1 DEF Typed, ChargeInv, RentalsBegun
<1>3. UNCHANGED <<page, stored, started>> /\ prompts' \subseteq prompts
  BY DEF OrphanSigned
<1>4. CASE Broadcasts(p)
  <2>1. PICK tx \in TxOf(V) : /\ broadcast' = Append(broadcast, tx)
                              /\ tx.lost = TRUE /\ tx.rental <= started
    BY <1>1, <1>2, <1>4, NonceTypes
  <2>2. /\ broadcast' \in Seq(TxOf(V)) /\ NoDuplicateCharge' /\ (Charged' => Charged)
        /\ \A h \in DOMAIN broadcast' : broadcast'[h].rental <= started'
    BY <1>1, <1>3, <2>1, LostMoves
  <2> QED BY <1>1, <1>3, <2>2, NetworkMoves
<1>5. CASE UNCHANGED broadcast
  <2>1. /\ broadcast' \in Seq(TxOf(V)) /\ NoDuplicateCharge' /\ (Charged' => Charged)
        /\ \A h \in DOMAIN broadcast' : broadcast'[h].rental <= started'
    BY <1>1, <1>3, <1>5 DEF Typed, ChargeInv, RentalsBegun, NoDuplicateCharge, Charge, Charged
  <2> QED BY <1>1, <1>3, <2>1, NetworkMoves
<1> QED BY <1>4, <1>5 DEF OrphanSigned

\* The page is idle again, whether or not something went out.
LEMMA DeclinedStep ==
  ASSUME NEW t, Tab = {t}, ChargeInv(t), Declined(t)
  PROVE  ChargeInv(t)'
<1>1. Paused(t) /\ UNCHANGED <<prompts, started>>
  BY DEF Declined
<1>2. CASE UNCHANGED broadcast
  BY <1>1, <1>2, PausedMoves
<1>3. CASE Broadcasts([Request(t) EXCEPT !.lost = TRUE])
  <2> DEFINE request == [Request(t) EXCEPT !.lost = TRUE]
             new == [page[t] EXCEPT !.step = Idle]
  <2>1. PICK U : Typed(U)
    BY DEF ChargeInv, Shaped
  <2>2. PICK V : V = U \cup {Request(t).amount}
    OBVIOUS
  <2>3. Typed(V) /\ Request(t).amount \in V
    BY <2>1, <2>2, TypedGrows
  <2>4. request \in TxOf(V) /\ request.lost = TRUE /\ request.rental = started
    <3>1. Request(t) \in TxOf(V) /\ request \in TxOf(V) /\ Request(t).rental = started
      BY <2>3, RequestTypes
    <3> QED BY <3>1 DEF TxOf
  <2>5. started \in Nat /\ started <= started
    BY DEF ChargeInv, RentalsBegun
  <2> HIDE DEF request
  <2>6. PICK tx \in TxOf(V) : /\ broadcast' = Append(broadcast, tx)
                              /\ tx.lost = TRUE /\ tx.rental = started
    BY <1>3, <2>3, <2>4, NonceTypes DEF request
  <2>7. /\ broadcast' \in Seq(TxOf(V)) /\ NoDuplicateCharge' /\ (Charged' => Charged)
        /\ \A h \in DOMAIN broadcast' : broadcast'[h].rental <= started'
    BY <1>1, <2>3, <2>4, <2>5, <2>6, LostMoves
  <2>8. page[t] \in PageOf(V) /\ page \in [Tab -> PageOf(V)] /\ Idle \in StepOf(V) /\ Idle.at = "idle"
    BY <2>3, PageTypes
  <2> HIDE DEF Idle
  <2>9. new \in PageOf(V) /\ new.session = page[t].session /\ new.step = Idle
    <3> HIDE DEF SessionOf, StepOf
    <3> QED BY <2>8 DEF PageOf
  <2>10. page' = [u \in Tab |-> new] /\ stored' = stored
    BY <1>1, <2>8 DEF Paused
  <2> HIDE DEF new
  <2>11. Shaped'
    <3>1. Typed(V)'
      BY <1>1, <2>3, <2>7, <2>9, <2>10 DEF Typed
    <3> QED BY <3>1 DEF Shaped
  <2>12. RentalsBegun'
    BY <1>1, <2>7 DEF ChargeInv, RentalsBegun
  <2>13. SourceKept(t)' /\ WaitsForHash(t)'
    BY <2>7, <2>8, <2>9, <2>10 DEF ChargeInv, SourceKept, WaitsForHash, Paying
  <2> QED BY <2>7, <2>11, <2>12, <2>13 DEF ChargeInv
<1> QED BY <1>2, <1>3 DEF Declined

\* A payment goes out only from a page that was on its way to the first one,
\* and its hash is on the page and in the record before anything is awaited.
LEMMA SignedMoves ==
  ASSUME NEW t, Tab = {t}, ChargeInv(t), NEW V, Typed(V), NEW new \in PageOf(V),
         page' = [u \in Tab |-> new], stored' = stored \/ stored' = <<new.session>>,
         NEW tx \in TxOf(V), tx.rental = started, broadcast' = Append(broadcast, tx),
         UNCHANGED <<prompts, started>>,
         \/ /\ tx.kind # "pay" /\ new.step.at # "payWait"
            /\ new.session.source = page[t].session.source
            /\ new.step.at \in Paying => page[t].step.at \in Paying
         \/ /\ page[t].step.at \in Paying
            /\ new.session.source # 0 /\ stored' = <<new.session>>
            /\ new.step.at = "payWait" /\ new.step.hash # 0
  PROVE  ChargeInv(t)'
<1>1. PICK n : n = Len(broadcast) + 1
  OBVIOUS
<1>2. /\ broadcast' \in Seq(TxOf(V)) /\ n \notin DOMAIN broadcast /\ broadcast'[n] = tx
      /\ DOMAIN broadcast' = DOMAIN broadcast \cup {n}
      /\ \A h \in DOMAIN broadcast : broadcast'[h] = broadcast[h]
  BY <1>1, AppendTypes
<1>3. page'[t] = new /\ page' \in [Tab -> PageOf(V)] /\ new.session \in SessionOf(V)
  BY DEF PageOf
<1>4. Shaped'
  <2>1. Typed(V)'
    BY <1>2, <1>3 DEF Typed
  <2> QED BY <2>1 DEF Shaped
<1>5. RentalsBegun'
  <2>1. started \in Nat /\ started <= started
    BY DEF ChargeInv, RentalsBegun
  <2> QED BY <1>2, <2>1 DEF ChargeInv, RentalsBegun
<1>6. \A h \in DOMAIN broadcast : Charge(h)' <=> Charge(h)
  BY <1>2 DEF Charge
<1>7. CASE tx.kind # "pay" /\ new.step.at # "payWait"
           /\ new.session.source = page[t].session.source
           /\ (new.step.at \in Paying => page[t].step.at \in Paying)
  <2>1. ~ Charge(n)'
    BY <1>2, <1>7 DEF Charge
  <2>2. NoDuplicateCharge' /\ (Charged' => Charged)
    BY <1>2, <1>6, <2>1 DEF ChargeInv, NoDuplicateCharge, Charged
  <2>3. SourceKept(t)'
    <3> SUFFICES ASSUME Charged' PROVE /\ page'[t].session.source # 0
                                       /\ stored' # <<>> /\ stored'[1].source # 0
                                       /\ page'[t].step.at \notin Paying
      BY DEF SourceKept
    <3>1. /\ page[t].session.source # 0 /\ page[t].step.at \notin Paying
          /\ stored # <<>> /\ stored[1].source # 0
      BY <2>2 DEF ChargeInv, SourceKept
    <3>2. stored' # <<>> /\ stored'[1].source # 0
      BY <1>7, <3>1
    <3> QED BY <1>3, <1>7, <3>1, <3>2
  <2> QED BY <1>3, <1>4, <1>5, <1>7, <2>2, <2>3 DEF ChargeInv, WaitsForHash
<1>8. CASE page[t].step.at \in Paying /\ new.session.source # 0 /\ stored' = <<new.session>>
           /\ new.step.at = "payWait" /\ new.step.hash # 0
  <2>1. ~ Charged
    BY <1>8 DEF ChargeInv, SourceKept
  <2>2. NoDuplicateCharge'
    BY <1>2, <1>6, <2>1 DEF ChargeInv, NoDuplicateCharge, Charged
  <2>3. "payWait" \notin Paying
    BY DEF Paying
  <2>4. SourceKept(t)'
    <3>1. stored' # <<>> /\ stored'[1].source # 0
      BY <1>8
    <3> QED BY <1>3, <1>8, <2>3, <3>1 DEF SourceKept
  <2> QED BY <1>3, <1>4, <1>5, <1>8, <2>2, <2>4 DEF ChargeInv, WaitsForHash
<1> QED BY <1>7, <1>8

LEMMA SignStep ==
  ASSUME NEW t, Tab = {t}, ChargeInv(t), Sign(t)
  PROVE  ChargeInv(t)'
<1>1. /\ Broadcasts(Request(t)) /\ page[t].step.at \in Prompting
      /\ UNCHANGED <<prompts, started>>
  BY DEF Sign
<1>2. PICK n : n = Len(broadcast) + 1
  OBVIOUS
<1>3. PICK U : Typed(U)
  BY DEF ChargeInv, Shaped
<1>4. PICK V : V = U \cup {Request(t).amount}
  OBVIOUS
<1>5. Typed(V) /\ Request(t).amount \in V
  BY <1>3, <1>4, TypedGrows
<1>6. PICK tx \in TxOf(V) :
        /\ broadcast' = Append(broadcast, tx)
        /\ tx.rental = started /\ tx.kind = Kind(page[t].step.at)
  <2>1. /\ Request(t) \in TxOf(V) /\ Request(t).rental = started
        /\ Request(t).kind = Kind(page[t].step.at)
    BY <1>5, RequestTypes
  <2> QED BY <1>1, <1>5, <2>1, NonceTypes
<1>7. n \in Int /\ n # 0
  BY <1>2, <1>5, <1>6, AppendTypes
<1>8. /\ page[t] \in PageOf(V) /\ page \in [Tab -> PageOf(V)] /\ page[t].snapshot \in V
      /\ page[t].step \in StepOf(V) /\ page[t].session \in SessionOf(V)
  BY <1>5, PageTypes
<1> DEFINE stepAt(at) == [page[t].step EXCEPT !.at = at, !.hash = n]
<1>9. ASSUME NEW at \in {"mintWait", "approveWait", "payWait"}
      PROVE  stepAt(at) \in StepOf(V) /\ stepAt(at).at = at /\ stepAt(at).hash = n
  BY <1>7, <1>8 DEF StepOf, At, Paying
<1> HIDE DEF stepAt
<1>10. ASSUME NEW session \in SessionOf(V), NEW at \in {"approveWait", "payWait"},
              Commit(t, session, page[t].snapshot, stepAt(at)),
              \/ at = "approveWait" /\ page[t].step.at = "approvePrompt"
                 /\ session.source = page[t].session.source
              \/ at = "payWait" /\ page[t].step.at = "payPrompt" /\ session.source = n
       PROVE  ChargeInv(t)'
  <2> DEFINE new == [page[t] EXCEPT !.session = session, !.snapshot = page[t].snapshot,
                                    !.step = stepAt(at)]
  <2>1. stepAt(at) \in StepOf(V) /\ stepAt(at).at = at /\ stepAt(at).hash = n
    BY <1>9
  <2>2. new \in PageOf(V) /\ new.session = session /\ new.step = stepAt(at)
    <3> HIDE DEF SessionOf, StepOf
    <3> QED BY <1>8, <2>1 DEF PageOf
  <2>3. page' = [page EXCEPT ![t] = new] /\ stored' = <<session>>
    BY <1>10 DEF Commit
  <2> HIDE DEF new
  <2>4. page' = [u \in Tab |-> new]
    BY <1>8, <2>3
  <2>5. at = "approveWait" => tx.kind # "pay"
    BY <1>6, <1>10 DEF Kind
  <2>6. page[t].step.at \in Paying
    BY <1>10 DEF Paying
  <2> QED BY <1>1, <1>5, <1>6, <1>7, <1>10, <2>1, <2>2, <2>3, <2>4, <2>5, <2>6, SignedMoves
<1>11. CASE page[t].step.at = "mintPrompt" /\ Await(t, stepAt("mintWait"))
  <2> DEFINE new == [page[t] EXCEPT !.step = stepAt("mintWait")]
  <2>1. stepAt("mintWait") \in StepOf(V) /\ stepAt("mintWait").at = "mintWait"
    BY <1>9
  <2>2. new \in PageOf(V) /\ new.session = page[t].session /\ new.step = stepAt("mintWait")
    <3> HIDE DEF SessionOf, StepOf
    <3> QED BY <1>8, <2>1 DEF PageOf
  <2>3. page' = [u \in Tab |-> new] /\ stored' = stored
    BY <1>8, <1>11 DEF Await
  <2> HIDE DEF new
  <2>4. tx.kind # "pay" /\ "mintWait" \notin Paying
    BY <1>6, <1>11 DEF Kind, Paying
  <2> QED BY <1>1, <1>5, <1>6, <2>1, <2>2, <2>3, <2>4, SignedMoves
<1>12. CASE page[t].step.at = "approvePrompt"
  <2> DEFINE session == [page[t].session EXCEPT !.phase = "approving",
                           !.account = page[t].step.account, !.approval = n]
  <2>1. session \in SessionOf(V) /\ session.source = page[t].session.source
    BY <1>7, <1>8 DEF SessionOf, StepOf, Phase
  <2>2. Commit(t, session, page[t].snapshot, stepAt("approveWait"))
    BY <1>2, <1>12 DEF Sign, stepAt
  <2> HIDE DEF session
  <2> QED BY <1>10, <1>12, <2>1, <2>2
<1>13. CASE page[t].step.at = "payPrompt"
  <2> DEFINE session == [page[t].session EXCEPT !.phase = "confirming",
                           !.account = page[t].step.account, !.source = n]
  <2>1. session \in SessionOf(V) /\ session.source = n
    BY <1>7, <1>8 DEF SessionOf, StepOf, Phase
  <2>2. Commit(t, session, page[t].snapshot, stepAt("payWait"))
    BY <1>2, <1>13 DEF Sign, stepAt
  <2> HIDE DEF session
  <2> QED BY <1>10, <1>13, <2>1, <2>2
<1> QED BY <1>2, <1>11, <1>12, <1>13 DEF Sign, stepAt

-----------------------------------------------------------------------------
(* The chain. *)

LEMMA Changed ==
  ASSUME NEW V, Typed(V), NEW h \in DOMAIN broadcast, NEW tx \in TxOf(V)
  PROVE  /\ [broadcast EXCEPT ![h] = tx] \in Seq(TxOf(V))
         /\ DOMAIN [broadcast EXCEPT ![h] = tx] = DOMAIN broadcast
         /\ \A g \in DOMAIN broadcast :
              [broadcast EXCEPT ![h] = tx][g] = IF g = h THEN tx ELSE broadcast[g]
<1>1. broadcast \in Seq(TxOf(V)) /\ DOMAIN broadcast = 1 .. Len(broadcast)
  BY LenProperties DEF Typed
<1>2. [broadcast EXCEPT ![h] = tx] \in Seq(TxOf(V))
  BY <1>1, ExceptSeq
<1> QED BY <1>1, <1>2

LEMMA ReplacedStep ==
  ASSUME NEW t, Tab = {t}, ChargeInv(t), NEW h \in DOMAIN broadcast, Replaced(h)
  PROVE  ChargeInv(t)'
<1>1. PICK V : Typed(V)
  BY DEF ChargeInv, Shaped
<1>2. UNCHANGED <<page, stored, prompts, started>>
  BY DEF Replaced
<1>3. \A g \in DOMAIN broadcast : broadcast[g] \in TxOf(V) /\ broadcast[g].rental <= started
  BY <1>1, ElementOfSeq, LenProperties DEF Typed, ChargeInv, RentalsBegun
<1>4. PICK tx : tx = [broadcast[h] EXCEPT !.status = "dropped"]
  OBVIOUS
<1>5. /\ tx \in TxOf(V) /\ tx.rental = broadcast[h].rental /\ tx.kind = broadcast[h].kind
      /\ tx.status = "dropped"
  BY <1>3, <1>4 DEF TxOf
<1>6. PICK dropped : dropped = [broadcast EXCEPT ![h] = tx]
  OBVIOUS
<1>7. /\ dropped \in Seq(TxOf(V)) /\ DOMAIN dropped = DOMAIN broadcast
      /\ dropped[h] = tx /\ \A g \in DOMAIN broadcast : g # h => dropped[g] = broadcast[g]
  <2>1. tx \in TxOf(V) /\ h \in DOMAIN broadcast
    BY <1>5
  <2> QED BY <1>1, <1>6, <2>1, Changed
<1>8. broadcast' = dropped \/ broadcast' = Append(dropped, broadcast[h])
  BY <1>3, <1>4, <1>6 DEF Replaced
<1>9. CASE broadcast' = dropped
  <2>1. \A g \in DOMAIN broadcast' : Charge(g)' => Charge(g) /\ broadcast'[g] = broadcast[g]
    BY <1>5, <1>7, <1>9 DEF Charge
  <2>2. NoDuplicateCharge' /\ (Charged' => Charged)
    BY <1>2, <1>7, <1>9, <2>1 DEF ChargeInv, NoDuplicateCharge, Charged
  <2>3. \A g \in DOMAIN broadcast' : broadcast'[g].rental <= started'
    BY <1>2, <1>3, <1>5, <1>7, <1>9
  <2> QED BY <1>1, <1>2, <1>7, <1>9, <2>2, <2>3, NetworkMoves
<1>10. CASE broadcast' = Append(dropped, broadcast[h])
  <2>1. PICK n : n = Len(dropped) + 1
    OBVIOUS
  <2>2. /\ broadcast' \in Seq(TxOf(V)) /\ Len(broadcast') = Len(dropped) + 1
        /\ \A g \in 1 .. Len(dropped) : broadcast'[g] = dropped[g]
        /\ broadcast'[n] = broadcast[h]
    BY <1>3, <1>7, <1>10, <2>1, AppendProperties
  <2>3. /\ Len(dropped) \in Nat /\ DOMAIN broadcast = 1 .. Len(dropped)
        /\ DOMAIN broadcast' = 1 .. Len(broadcast')
    BY <1>7, <2>2, LenProperties
  <2>4. n \notin DOMAIN broadcast /\ DOMAIN broadcast' = DOMAIN broadcast \cup {n}
    BY <2>1, <2>2, <2>3
  <2>5. /\ Charge(n)' <=> Charge(h)
        /\ ~ Charge(h)'
        /\ \A g \in DOMAIN broadcast : g # h => (Charge(g)' <=> Charge(g))
        /\ \A g \in DOMAIN broadcast : g # h => broadcast'[g] = broadcast[g]
    BY <1>5, <1>7, <2>2, <2>3 DEF Charge
  <2>6. NoDuplicateCharge' /\ (Charged' => Charged)
    BY <1>2, <2>2, <2>4, <2>5 DEF ChargeInv, NoDuplicateCharge, Charged
  <2>7. \A g \in DOMAIN broadcast' : broadcast'[g].rental <= started'
    BY <1>2, <1>3, <1>5, <1>7, <2>2, <2>3, <2>4
  <2> QED BY <1>1, <1>2, <2>2, <2>6, <2>7, NetworkMoves
<1> QED BY <1>8, <1>9, <1>10

LEMMA MineStep ==
  ASSUME NEW t, Tab = {t}, ChargeInv(t), NEW h \in DOMAIN broadcast, MineTransaction(h)
  PROVE  ChargeInv(t)'
<1>1. PICK U : Typed(U)
  BY DEF ChargeInv, Shaped
<1>2. UNCHANGED <<page, stored, prompts, started>> /\ broadcast[h].status = "pending"
  BY DEF MineTransaction, Oldest, Status
<1>3. PICK status, receipt : status \in {"mined", "reverted"} /\ Settled(h, status, receipt)
  BY DEF MineTransaction
<1>4. PICK V : V = U \cup {receipt}
  OBVIOUS
<1>5. Typed(V) /\ receipt \in V
  BY <1>1, <1>4, TypedGrows
<1>6. \A g \in DOMAIN broadcast : broadcast[g] \in TxOf(V) /\ broadcast[g].rental <= started
  BY <1>5, ElementOfSeq, LenProperties DEF Typed, ChargeInv, RentalsBegun
<1>7. PICK tx : tx = [broadcast[h] EXCEPT !.status = status, !.receipt = receipt]
  OBVIOUS
<1>8. /\ tx \in TxOf(V) /\ tx.rental = broadcast[h].rental /\ tx.kind = broadcast[h].kind
      /\ tx.lost = broadcast[h].lost
  BY <1>3, <1>5, <1>6, <1>7 DEF TxOf
<1>9. broadcast' = [broadcast EXCEPT ![h] = tx]
  BY <1>3, <1>7 DEF Settled
<1>10. /\ broadcast' \in Seq(TxOf(V)) /\ DOMAIN broadcast' = DOMAIN broadcast
       /\ broadcast'[h] = tx /\ \A g \in DOMAIN broadcast : g # h => broadcast'[g] = broadcast[g]
  BY <1>5, <1>8, <1>9, Changed
<1>11. \A g \in DOMAIN broadcast' :
         /\ Charge(g)' => Charge(g)
         /\ broadcast'[g].rental = broadcast[g].rental
  BY <1>2, <1>8, <1>10 DEF Charge
<1>12. NoDuplicateCharge' /\ (Charged' => Charged)
  BY <1>2, <1>10, <1>11 DEF ChargeInv, NoDuplicateCharge, Charged
<1>13. \A g \in DOMAIN broadcast' : broadcast'[g].rental <= started'
  BY <1>2, <1>6, <1>10, <1>11
<1> QED BY <1>2, <1>5, <1>10, <1>12, <1>13, NetworkMoves

\* The relay, the machine's owner, and nothing.
LEMMA ElsewhereStep ==
  ASSUME NEW t, Tab = {t}, ChargeInv(t), UNCHANGED <<page, stored, broadcast, prompts, started>>
  PROVE  ChargeInv(t)'
BY DEF ChargeInv, Shaped, Typed, RentalsBegun, NoDuplicateCharge, SourceKept, WaitsForHash,
       Charged, Charge

-----------------------------------------------------------------------------
LEMMA ChargeInit ==
  ASSUME NEW t, Tab = {t}, CheckoutInit
  PROVE  ChargeInv(t)
<1> DEFINE new == Loaded(createRentalSession, 0)
<1>1. PICK V : V = {0, 1, Zero, NoSnapshot, "none", Listing}
  OBVIOUS
<1>2. createRentalSession \in SessionOf(V)
  BY <1>1 DEF createRentalSession, SessionOf, Phase
<1>3. Idle \in StepOf(V) /\ Idle.at = "idle"
  BY <1>1 DEF Idle, StepOf, At
<1>4. new \in PageOf(V) /\ new.step = Idle
  <2> HIDE DEF SessionOf, StepOf, createRentalSession, Idle
  <2> QED BY <1>1, <1>2, <1>3 DEF Loaded, PageOf
<1>5. /\ page = [u \in Tab |-> new] /\ stored = <<>> /\ broadcast = <<>> /\ prompts = {}
      /\ started = 1
  BY DEF CheckoutInit
<1> HIDE DEF new
<1>6. Shaped
  <2>1. broadcast \in Seq(TxOf(V)) /\ DOMAIN broadcast = {}
    BY <1>5, EmptySeq
  <2>2. Typed(V)
    BY <1>1, <1>4, <1>5, <2>1 DEF Typed
  <2> QED BY <2>2 DEF Shaped
<1>7. DOMAIN broadcast = {}
  BY <1>5
<1>8. page[t].step.at = "idle"
  BY <1>3, <1>4, <1>5
<1> QED BY <1>5, <1>6, <1>7, <1>8 DEF ChargeInv, RentalsBegun, NoDuplicateCharge, SourceKept,
                                      WaitsForHash, Charged

LEMMA ChargeNext ==
  ASSUME NEW t, Tab = {t}, ChargeInv(t), [Next]_vars
  PROVE  ChargeInv(t)'
<1>1. CASE \E u \in Tab : Customer(u)
  BY <1>1, EditSteps, RequestSteps, ConnectedStep DEF Customer, ConnectWallet, Connected
<1>2. CASE \E u \in Tab : Answer(u)
  BY <1>2, InspectAnswerStep, WaitingSteps, CheckSteps, PaymentKnownStep, PolledStep DEF Answer
<1>3. CASE \E u \in Tab : Sign(u) \/ Refetch(u) \/ Declined(u) \/ StartAnother(u)
  BY <1>3, SignStep, RefetchStep, DeclinedStep, StartAnotherStep
<1>4. CASE \E u \in Tab : \/ \E d \in LegalDuration : ApplyDuration(u, d)
                          \/ EditDuration(u)
  BY <1>4, EditSteps
<1>5. CASE \E u \in Tab : Fault(u)
  BY <1>5, WaitingSteps
<1>6. CASE \E u \in Tab : \E resume \in {0, page[u].resume} \cup
             {h \in DOMAIN broadcast : broadcast[h].kind = "pay"} : Open(u, resume)
  <2>1. PICK resume \in {0, page[t].resume} \cup {h \in DOMAIN broadcast : broadcast[h].kind = "pay"} :
          Open(t, resume)
    BY <1>6
  <2>2. resume \in Int
    <3>1. PICK V : Typed(V)
      BY DEF ChargeInv, Shaped
    <3>2. page[t].resume \in Int
      BY <3>1, PageTypes DEF PageOf
    <3>3. DOMAIN broadcast \subseteq Int
      BY <3>1, LenProperties DEF Typed
    <3> QED BY <3>2, <3>3
  <2> QED BY <2>1, <2>2, OpenStep
<1>7. CASE \E p \in prompts : OrphanSigned(p)
  BY <1>7, OrphanSignedStep
<1>8. CASE \E h \in DOMAIN broadcast : MineTransaction(h) \/ Replaced(h)
  BY <1>8, MineStep, ReplacedStep
<1>9. CASE \/ \E h \in DOMAIN broadcast : RelayFinishes(h)
           \/ TermsChange \/ UNCHANGED vars
  BY <1>9, ElsewhereStep DEF RelayFinishes, TermsChange, vars, checkoutVars
<1>10. CASE \E a \in OrZero(Renter) : AccountChange(a)
  BY <1>10, ConnectedStep DEF AccountChange, Connected
<1> QED BY <1>1, <1>2, <1>3, <1>4, <1>5, <1>6, <1>7, <1>8, <1>9, <1>10 DEF Next

(***************************************************************************)
(* The guard of payOrResume and the order in which payForUsage stores and  *)
(* waits are enough: however often one page is retried, reloaded, resumed  *)
(* or left with a prompt open, and whatever becomes of its transactions,   *)
(* it never has two standing payments of the same rental.                  *)
(***************************************************************************)
THEOREM OnePageChargesOnce ==
  ASSUME NEW t, Tab = {t}
  PROVE  Spec => []NoDuplicateCharge
<1>1. CheckoutInit => ChargeInv(t)
  BY ChargeInit
<1>2. ChargeInv(t) /\ [Next]_vars => ChargeInv(t)'
  BY ChargeNext
<1>3. ChargeInv(t) => NoDuplicateCharge
  BY DEF ChargeInv
<1> QED BY <1>1, <1>2, <1>3, PTL DEF Spec

-----------------------------------------------------------------------------
(* Access is earned, with any number of pages.  A payment is earned when   *)
(* the chain has settled it and its relay job is complete, and it stays so *)
(* whatever happens later.  The invariant says which hashes the page, its  *)
(* link and the record of the browser may hold: until a page pays anew,    *)
(* the link it was opened by is the payment it shows, or one it showed     *)
(* when it was earned.                                                     *)

Earned(h) ==
  /\ h \in Hash \cap DOMAIN broadcast
  /\ jobs[h] = "completed" /\ ReceiptPayments(h) # {}

\* The first n hashes are known.
SessionOK(s, n) ==
  /\ s.phase = "access" => Earned(s.source)
  /\ s.source <= n /\ s.approval <= n

Following == {"recovering", "payWait", "enqueueing", "polling"}

Consistent(session, snapshot, step, job, resume, n) ==
  /\ SessionOK(session, n) /\ step.hash <= n /\ resume <= n
  /\ session.phase = "access" => step.at = "idle"
  /\ job = "completed" => Earned(session.source)
  /\ resume # 0 => session.source = resume \/ Earned(resume)
  /\ step.at \in Paying \cup {"payWait"} =>
       job # "completed" /\ (resume # 0 => Earned(resume))
  /\ step.at \in Following =>
       step.hash # 0 /\ (step.hash = session.source \/ Earned(session.source))
  /\ step.at # "idle" => step.account \in Renter
  /\ 2 * snapshot.amount \in Amount

PageOK(p, n) == p \in Page /\ Consistent(p.session, p.snapshot, p.step, p.job, p.resume, n)

StoredOK(record, n) ==
  record = <<>> \/ \E s \in Session : SessionOK(s, n) /\ record = <<s>>

Signed == Len(broadcast)

ChainsOK ==
  /\ machineOffers \in [OrZero(Machine) -> Offer]
  /\ allowance \in [Account -> [Spender -> Amount]]
  /\ \E S : transactions \in Seq(S)
  /\ \A i \in DOMAIN transactions : \A l \in RegistryLogs(transactions[i]) :
       l.duration \in LegalDuration

SignedOK ==
  /\ broadcast \in Seq(Broadcast) /\ Len(broadcast) <= MaxBroadcast
  /\ \A h \in DOMAIN broadcast :
       /\ broadcast[h].status = "pending" => broadcast[h].receipt = 0
       /\ broadcast[h].receipt <= Len(transactions)
  /\ prompts \subseteq Broadcast
  /\ \A p \in prompts : p.lost = TRUE /\ p.status = "pending" /\ p.receipt = 0

JobsOK ==
  /\ jobs \in [Hash -> JobPhase]
  /\ \A h \in Hash : jobs[h] = "completed" => Earned(h)

CountersOK ==
  /\ account \in OrZero(Renter)
  /\ started \in 1 .. MaxRentals /\ mishaps \in 0 .. MaxMishaps

WorldOK == ChainsOK /\ SignedOK /\ JobsOK /\ CountersOK

EarnInv ==
  /\ WorldOK
  /\ page \in [Tab -> Page] /\ \A t \in Tab : PageOK(page[t], Signed)
  /\ StoredOK(stored, Signed)

\* The pages and the record after a step that leaves n hashes known, judged
\* by what is earned before it.
PagesKept(n) ==
  /\ page' \in [Tab -> Page] /\ \A t \in Tab : PageOK(page'[t], n)
  /\ StoredOK(stored', n)

EarnedKept == \A h : Earned(h) => Earned(h)'

-----------------------------------------------------------------------------
LEMMA EarnedTypes ==
  ASSUME EarnInv, NEW h, Earned(h)
  PROVE  h \in Hash /\ h # 0 /\ h \in DOMAIN broadcast
BY CheckoutAssumption DEF Earned, Hash

LEMMA StepsKeep ==
  ASSUME PagesKept(Signed'), EarnedKept, WorldOK'
  PROVE  EarnInv'
<1>1. \A p, n : PageOK(p, n) => PageOK(p, n)'
  BY DEF EarnedKept, PageOK, Consistent, SessionOK
<1>2. \A r, n : StoredOK(r, n) => StoredOK(r, n)'
  BY DEF EarnedKept, StoredOK, SessionOK
<1> QED BY <1>1, <1>2 DEF PagesKept, EarnInv

-----------------------------------------------------------------------------
(* Pages. *)

LEMMA PageParts ==
  ASSUME NEW p \in Page
  PROVE  /\ p.session \in Session /\ p.snapshot \in Snapshot /\ p.step \in Step
         /\ p.offer \in Price /\ p.job \in JobPhase /\ p.resume \in 0 .. MaxBroadcast
<1> HIDE DEF Session, Snapshot, Step
<1> QED BY DEF Page

\* What setSession, setSnapshot, setJob and the step make of a page.
Becomes(p, session, snapshot, step, job) ==
  [p EXCEPT !.session = session, !.snapshot = snapshot, !.step = step, !.job = job]

LEMMA PageBecomes ==
  ASSUME NEW p \in Page, NEW session \in Session, NEW snapshot \in Snapshot, NEW step \in Step,
         NEW job \in JobPhase, NEW n, Consistent(session, snapshot, step, job, p.resume, n)
  PROVE  PageOK(Becomes(p, session, snapshot, step, job), n)
<1> HIDE DEF Session, Snapshot, Step, JobPhase, Consistent
<1> QED BY DEF Page, Becomes, PageOK

LEMMA PartsBecome ==
  ASSUME NEW p \in Page, NEW session, NEW snapshot, NEW step
  PROVE  /\ [p EXCEPT !.session = session, !.snapshot = snapshot, !.step = step]
              = Becomes(p, session, snapshot, step, p.job)
         /\ [p EXCEPT !.step = step] = Becomes(p, p.session, p.snapshot, step, p.job)
         /\ [p EXCEPT !.session = session] = Becomes(p, session, p.snapshot, p.step, p.job)
         /\ [p EXCEPT !.snapshot = snapshot, !.step = step]
              = Becomes(p, p.session, snapshot, step, p.job)
<1> HIDE DEF Session, Snapshot, Step, JobPhase
<1> QED BY DEF Page, Becomes

LEMMA SignedNat ==
  ASSUME EarnInv
  PROVE  Signed \in Nat /\ Signed <= Signed /\ Signed <= MaxBroadcast
BY LenProperties DEF EarnInv, WorldOK, SignedOK, Signed

\* More hashes may become known.
LEMMA KnowsMore ==
  ASSUME EarnInv, NEW n \in Nat, Signed <= n
  PROVE  /\ \A t \in Tab : PageOK(page[t], n)
         /\ StoredOK(stored, n)
<1>1. Signed \in Nat /\ MaxBroadcast \in Nat
  BY SignedNat, CheckoutAssumption
<1>2. \A s \in Session : SessionOK(s, Signed) => SessionOK(s, n)
  BY <1>1 DEF Session, SessionOK
<1>3. ASSUME NEW t \in Tab PROVE PageOK(page[t], n)
  <2>1. PageOK(page[t], Signed)
    BY DEF EarnInv
  <2>2. /\ page[t].session \in Session /\ page[t].step.hash \in Nat
        /\ page[t].resume \in Nat
    <3>1. page[t].session \in Session /\ page[t].step \in Step
          /\ page[t].resume \in 0 .. MaxBroadcast
      BY <2>1, PageParts DEF PageOK
    <3> QED BY <1>1, <3>1 DEF Step
  <2> QED BY <1>1, <1>2, <2>1, <2>2 DEF PageOK, Consistent, SessionOK
<1> QED BY <1>2, <1>3 DEF EarnInv, StoredOK

LEMMA OnePageMoves ==
  ASSUME EarnInv, NEW t \in Tab, NEW n \in Nat, Signed <= n,
         NEW q, PageOK(q, n), page' = [page EXCEPT ![t] = q], StoredOK(stored', n)
  PROVE  PagesKept(n)
<1>1. q \in Page
  BY DEF PageOK
<1>2. page' \in [Tab -> Page] /\ \A u \in Tab : page'[u] = IF u = t THEN q ELSE page[u]
  BY <1>1 DEF EarnInv
<1> QED BY <1>2, KnowsMore DEF PagesKept

LEMMA PageSets ==
  ASSUME EarnInv, NEW t \in Tab, NEW n \in Nat, Signed <= n, NEW session \in Session, NEW snapshot \in Snapshot,
         NEW step \in Step, NEW job \in JobPhase,
         page' = [page EXCEPT ![t] = Becomes(page[t], session, snapshot, step, job)],
         stored' = stored \/ stored' = <<>> \/ stored' = <<session>>,
         Consistent(session, snapshot, step, job, page[t].resume, n)
  PROVE  PagesKept(n)
<1>1. page[t] \in Page
  BY DEF EarnInv
<1>2. PageOK(Becomes(page[t], session, snapshot, step, job), n)
  BY <1>1, PageBecomes
<1>3. StoredOK(stored', n)
  BY KnowsMore DEF Consistent, SessionOK, StoredOK
<1> QED BY <1>2, <1>3, OnePageMoves

LEMMA CommitSets ==
  ASSUME EarnInv, NEW t \in Tab, NEW session \in Session, NEW snapshot \in Snapshot,
         NEW step \in Step, Commit(t, session, snapshot, step),
         Consistent(session, snapshot, step, page[t].job, page[t].resume, Signed)
  PROVE  PagesKept(Signed)
<1>1. page[t] \in Page /\ page[t].job \in JobPhase
  BY PageParts DEF EarnInv
<1>2. /\ page' = [page EXCEPT ![t] = Becomes(page[t], session, snapshot, step, page[t].job)]
      /\ stored' = <<session>>
  <2>1. [page[t] EXCEPT !.session = session, !.snapshot = snapshot, !.step = step]
          = Becomes(page[t], session, snapshot, step, page[t].job)
    BY <1>1 DEF Becomes, Page
  <2> QED BY <2>1 DEF Commit
<1> QED BY <1>1, <1>2, SignedNat, PageSets

LEMMA AwaitSets ==
  ASSUME EarnInv, NEW t \in Tab, NEW step \in Step, Await(t, step),
         Consistent(page[t].session, page[t].snapshot, step, page[t].job, page[t].resume, Signed)
  PROVE  PagesKept(Signed)
<1>1. /\ page[t] \in Page /\ page[t].job \in JobPhase
      /\ page[t].session \in Session /\ page[t].snapshot \in Snapshot
  BY PageParts DEF EarnInv
<1>2. /\ page' = [page EXCEPT ![t] =
                    Becomes(page[t], page[t].session, page[t].snapshot, step, page[t].job)]
      /\ stored' = stored
  <2>1. [page[t] EXCEPT !.step = step]
          = Becomes(page[t], page[t].session, page[t].snapshot, step, page[t].job)
    BY <1>1, PartsBecome
  <2> QED BY <2>1 DEF Await
<1> QED BY <1>1, <1>2, SignedNat, PageSets

LEMMA PagesStay == ASSUME EarnInv, UNCHANGED <<page, stored>> PROVE PagesKept(Signed)
BY DEF EarnInv, PagesKept

LEMMA PageFacts ==
  ASSUME EarnInv, NEW t \in Tab
  PROVE  /\ page[t] \in Page
         /\ page[t].session \in Session /\ page[t].snapshot \in Snapshot
         /\ page[t].step \in Step /\ page[t].job \in JobPhase /\ page[t].offer \in Price
         /\ page[t].resume \in 0 .. MaxBroadcast
         /\ Consistent(page[t].session, page[t].snapshot, page[t].step, page[t].job,
                       page[t].resume, Signed)
         /\ Signed \in Nat /\ Signed <= Signed
BY PageParts, SignedNat DEF EarnInv, PageOK

\* Steps of pages alone.
LEMMA LocalKeeps ==
  ASSUME EarnInv, PagesKept(Signed), UNCHANGED <<Chains, broadcast, prompts, jobs>>,
         account' \in OrZero(Renter), started' \in 1 .. MaxRentals, mishaps' \in 0 .. MaxMishaps
  PROVE  EarnInv'
<1>1. EarnedKept
  BY DEF EarnedKept, Earned, ReceiptPayments, Chains, sepoliaVars
<1>2. ChainsOK' /\ SignedOK'
  BY DEF EarnInv, WorldOK, ChainsOK, SignedOK, Chains, sepoliaVars, tokenVars, registryVars
<1>3. JobsOK'
  BY <1>1 DEF EarnInv, WorldOK, JobsOK, EarnedKept
<1>4. Signed' = Signed
  BY DEF Signed
<1> QED BY <1>1, <1>2, <1>3, <1>4, StepsKeep DEF WorldOK, CountersOK

LEMMA Uncounted ==
  ASSUME EarnInv
  PROVE  /\ account \in OrZero(Renter) /\ started \in 1 .. MaxRentals
         /\ mishaps \in 0 .. MaxMishaps
         /\ (Mishap \/ UNCHANGED mishaps) => mishaps' \in 0 .. MaxMishaps
BY CheckoutAssumption DEF EarnInv, WorldOK, CountersOK, Mishap

-----------------------------------------------------------------------------
(* The buttons. *)

LEMMA Bounds ==
  /\ MaxBroadcast \in Nat /\ 0 \in 0 .. MaxBroadcast /\ Hash \subseteq 0 .. MaxBroadcast
  /\ MaxDuration \in Nat /\ 1 \in LegalDuration /\ MaxTransactions \in Nat
  /\ RentedMachine \in OrZero(Machine)
BY CheckoutAssumption, BoundsAreNat, SepoliaAssumption DEF LegalDuration, Hash, OrZero

LEMMA IdleStep ==
  /\ Idle \in Step /\ Idle.at = "idle" /\ Idle.hash = 0 /\ "idle" \notin Paying /\ "idle" \notin Following
  /\ NoSnapshot \in Snapshot /\ 2 * NoSnapshot.amount \in Amount
BY CheckoutAssumption, TokenAssumption, BoundsAreNat
   DEF Idle, Step, NoSnapshot, Snapshot, Paying, Following, OrZero, Price, LegalDuration, Amount

LEMMA EditSets ==
  ASSUME EarnInv, NEW t \in Tab, NEW session \in Session, NEW snapshot, NEW step,
         Commit(t, session, snapshot, step),
         session.source = page[t].session.source, session.phase # "access",
         session.approval \in {0, page[t].session.approval},
         \/ snapshot = NoSnapshot /\ step = Idle
         \/ snapshot = page[t].snapshot /\ step \in {Idle, page[t].step}
  PROVE  PagesKept(Signed)
<1>1. snapshot \in Snapshot /\ step \in Step
  BY IdleStep, PageFacts
<1>2. Consistent(session, snapshot, step, page[t].job, page[t].resume, Signed)
  BY IdleStep, PageFacts DEF Consistent, SessionOK
<1> QED BY <1>1, <1>2, CommitSets

LEMMA EditEarns ==
  ASSUME EarnInv, NEW t \in Tab,
         \/ \E d \in LegalDuration : ApplyDuration(t, d)
         \/ \E d \in Duration : Review(t, d)
         \/ EditDuration(t) \/ ContinueToPayment(t)
  PROVE  EarnInv'
<1>1. /\ UNCHANGED <<Chains, account, broadcast, prompts, jobs, started>>
      /\ Mishap \/ UNCHANGED mishaps
  BY DEF ApplyDuration, Review, EditDuration, ContinueToPayment, Local
<1>2. page[t].session \in Session
  BY PageFacts
<1>3. PagesKept(Signed)
  <2>1. CASE \E d \in LegalDuration : ApplyDuration(t, d)
    <3>1. PICK d \in LegalDuration : ApplyDuration(t, d)
      BY <2>1
    <3>2. PICK session : session = [page[t].session EXCEPT !.durationSeconds = d,
                                                          !.phase = "duration", !.approval = 0]
      OBVIOUS
    <3>3. session \in Session /\ session.source = page[t].session.source
          /\ session.approval \in {0, page[t].session.approval}
          /\ session.phase = "duration"
      BY <1>2, <3>2, Bounds DEF Session, Phase
    <3> QED BY <3>1, <3>2, <3>3, EditSets DEF ApplyDuration
  <2>2. CASE \E d \in Duration : Review(t, d)
    <3>1. PICK d \in Duration : Review(t, d)
      BY <2>2
    <3>2. d \in LegalDuration
      <4>1. validateDuration(d)
        BY <3>1 DEF Review
      <4> QED BY <4>1, Bounds DEF validateDuration, Duration, LegalDuration
    <3>3. PICK session : session = [page[t].session EXCEPT !.durationSeconds = d,
                                                          !.phase = "review"]
      OBVIOUS
    <3>4. session \in Session /\ session.source = page[t].session.source
          /\ session.approval \in {0, page[t].session.approval}
          /\ session.phase = "review"
      BY <1>2, <3>2, <3>3 DEF Session, Phase
    <3> QED BY <3>1, <3>3, <3>4, EditSets DEF Review
  <2>3. ASSUME NEW phase \in {"duration", "payment"}, NEW step \in {Idle, page[t].step},
               Commit(t, [page[t].session EXCEPT !.phase = phase], page[t].snapshot, step)
        PROVE  PagesKept(Signed)
    <3>1. PICK session : session = [page[t].session EXCEPT !.phase = phase]
      OBVIOUS
    <3>2. session \in Session /\ session.source = page[t].session.source
          /\ session.approval \in {0, page[t].session.approval}
          /\ session.phase = phase
      BY <1>2, <3>1 DEF Session, Phase
    <3> QED BY <2>3, <3>1, <3>2, EditSets
  <2> QED BY <2>1, <2>2, <2>3 DEF EditDuration, ContinueToPayment
<1> QED BY <1>1, <1>3, LocalKeeps, Uncounted

LEMMA CapturedStep ==
  ASSUME EarnInv, NEW t \in Tab, account # Zero,
         NEW at \in {"inspecting", "mintPrompt", "recovering", "approvalWait", "checking"}
  PROVE  /\ Captured(t, at) \in Step /\ Captured(t, at).at = at
         /\ Captured(t, at).account = account /\ account \in Renter
         /\ Captured(t, at).hash = 0
<1>1. account \in Renter
  BY Uncounted DEF OrZero
<1>2. page[t].offer \in Price /\ page[t].session.durationSeconds \in LegalDuration
  BY PageFacts DEF Session
<1>3. Idle \in Step /\ Idle.hash = 0
  BY IdleStep
<1> HIDE DEF Idle
<1> QED BY <1>1, <1>2, <1>3 DEF Captured, Step, OrZero, Paying, Prompting

LEMMA AskEarns ==
  ASSUME EarnInv, NEW t \in Tab, Inspect(t) \/ GetTestTokens(t) \/ PayOrResume(t)
  PROVE  EarnInv'
<1>1. UNCHANGED <<Chains, account, broadcast, prompts, jobs, started, mishaps>> /\ account # Zero
  BY DEF Inspect, GetTestTokens, PayOrResume, Local
<1> DEFINE session == page[t].session
<1>2. session \in Session /\ session.phase # "access" /\ 0 \notin Hash
  BY PageFacts DEF Inspect, GetTestTokens, PayOrResume, InspectEnabled, FaucetEnabled, PayEnabled,
                   InPhase, Hash
<1>3. ASSUME NEW step \in Step, Await(t, step), step.account \in Renter,
             step.hash \in {0, session.source, session.approval},
             \/ step.at \in {"inspecting", "mintPrompt"}
             \/ step.at \in {"approvalWait", "checking"} /\ session.source = 0
             \/ step.at = "recovering" /\ step.hash = session.source /\ session.source # 0
      PROVE  PagesKept(Signed)
  <2>1. ~ Earned(0)
    BY EarnedTypes
  <2>2. Consistent(session, page[t].snapshot, step, page[t].job, page[t].resume, Signed)
    BY <1>2, <1>3, <2>1, PageFacts DEF Consistent, SessionOK, Paying, Following
  <2> QED BY <1>3, <2>2, AwaitSets
<1>4. ASSUME NEW at \in {"inspecting", "mintPrompt"}, Await(t, Captured(t, at))
      PROVE  PagesKept(Signed)
  BY <1>1, <1>3, <1>4, CapturedStep
<1>5. ASSUME PayOrResume(t) PROVE PagesKept(Signed)
  <2>1. CASE session.source # 0
    <3>1. PICK step : step = [Captured(t, "recovering") EXCEPT !.hash = session.source]
      OBVIOUS
    <3>2. step \in Step /\ step.at = "recovering" /\ step.account \in Renter
          /\ step.hash = session.source
      BY <1>1, <1>2, <3>1, CapturedStep DEF Step, Session
    <3> QED BY <1>3, <1>5, <2>1, <3>1, <3>2 DEF PayOrResume, CanRecover
  <2>2. CASE session.source = 0
    <3>1. PICK step : /\ Await(t, step)
                      /\ \/ step = [Captured(t, "approvalWait") EXCEPT !.hash = session.approval]
                         \/ step = Captured(t, "checking")
      BY <1>5, <2>2 DEF PayOrResume, CanRecover
    <3>2. step \in Step /\ step.at \in {"approvalWait", "checking"} /\ step.account \in Renter
          /\ step.hash \in {0, session.approval}
      BY <1>1, <1>2, <3>1, CapturedStep DEF Step, Session
    <3> QED BY <1>3, <2>2, <3>1, <3>2
  <2> QED BY <2>1, <2>2
<1>6. PagesKept(Signed)
  BY <1>4, <1>5 DEF Inspect, GetTestTokens
<1> QED BY <1>1, <1>6, LocalKeeps, Uncounted

\* Leaving an earned rental for another.
LEMMA StartAnotherEarns ==
  ASSUME EarnInv, NEW t \in Tab, StartAnother(t)
  PROVE  EarnInv'
<1>1. /\ UNCHANGED <<Chains, account, broadcast, prompts, jobs, mishaps>>
      /\ page[t].session.phase = "access" /\ started' = started + 1 /\ started < MaxRentals
      /\ stored' = <<>>
  BY DEF StartAnother, Local, InPhase
<1>2. /\ createRentalSession \in Session /\ createRentalSession.phase = "duration"
      /\ createRentalSession.source = 0 /\ createRentalSession.approval = 0
  BY Bounds DEF createRentalSession, Session, Phase, OrZero
<1>3. PICK session : session = createRentalSession
  OBVIOUS
<1>4. /\ page[t] \in Page /\ page[t].step \in Step /\ "none" \in JobPhase
      /\ Consistent(page[t].session, page[t].snapshot, page[t].step, page[t].job,
                    page[t].resume, Signed)
  BY PageFacts DEF JobPhase
<1>5. page' = [page EXCEPT ![t] = Becomes(page[t], session, NoSnapshot, page[t].step, "none")]
  <2>1. [page[t] EXCEPT !.session = session, !.snapshot = NoSnapshot, !.job = "none"]
          = Becomes(page[t], session, NoSnapshot, page[t].step, "none")
    BY <1>4 DEF Becomes, Page
  <2>2. page' = [page EXCEPT ![t] = [page[t] EXCEPT !.session = session,
                                       !.snapshot = NoSnapshot, !.job = "none"]]
    BY <1>3 DEF StartAnother
  <2> QED BY <2>1, <2>2
<1>6. Consistent(session, NoSnapshot, page[t].step, "none", page[t].resume, Signed)
  BY <1>1, <1>2, <1>3, <1>4, IdleStep, SignedNat DEF Consistent, SessionOK
<1>7. PagesKept(Signed)
  <2>1. session \in Session /\ NoSnapshot \in Snapshot /\ stored' = <<>>
    BY <1>1, <1>2, <1>3, IdleStep
  <2> HIDE DEF NoSnapshot
  <2> QED BY <1>4, <1>5, <1>6, <2>1, SignedNat, PageSets
<1>8. started + 1 \in 1 .. MaxRentals
  BY <1>1, Uncounted, CheckoutAssumption
<1> QED BY <1>1, <1>7, <1>8, LocalKeeps, Uncounted

-----------------------------------------------------------------------------
(* The answers. *)

LEMMA PausedPages ==
  ASSUME EarnInv, NEW t \in Tab, Paused(t)
  PROVE  PagesKept(Signed)
<1>1. Await(t, Idle)
  BY DEF Paused, Await
<1>2. Consistent(page[t].session, page[t].snapshot, Idle, page[t].job, page[t].resume, Signed)
  BY IdleStep, PageFacts DEF Consistent, SessionOK
<1> QED BY <1>1, <1>2, IdleStep, AwaitSets

LEMMA StepMoves ==
  ASSUME EarnInv, NEW t \in Tab, page[t].step.at # "idle",
         NEW at \in {"checking", "reinspecting", "approvePrompt", "payPrompt", "enqueueing",
                     "polling"}
  PROVE  /\ [page[t].step EXCEPT !.at = at] \in Step
         /\ [page[t].step EXCEPT !.at = at].at = at
         /\ [page[t].step EXCEPT !.at = at].hash = page[t].step.hash
         /\ [page[t].step EXCEPT !.at = at].account = page[t].step.account
         /\ page[t].step.account \in Renter
<1>1. page[t].step \in Step /\ page[t].step.account \in Renter
  BY PageFacts DEF Consistent, SessionOK
<1> QED BY <1>1 DEF Step, Paying, Prompting

LEMMA FaultEarns ==
  ASSUME EarnInv, NEW t \in Tab, Fault(t)
  PROVE  EarnInv'
BY PausedPages, LocalKeeps, Uncounted DEF Fault

LEMMA WaitEarns ==
  ASSUME EarnInv, NEW t \in Tab, ApprovalKnown(t) \/ MintMined(t)
  PROVE  EarnInv'
<1>1. UNCHANGED <<Chains, account, broadcast, prompts, jobs, started, mishaps>>
  BY DEF ApprovalKnown, MintMined, Local
<1>2. ASSUME NEW at \in {"checking", "reinspecting"}, page[t].step.at # "idle",
             Await(t, [page[t].step EXCEPT !.at = at]),
             at = "checking" => page[t].step.at \in Paying
      PROVE  PagesKept(Signed)
  <2>1. PICK step : step = [page[t].step EXCEPT !.at = at]
    OBVIOUS
  <2>2. step \in Step /\ step.at = at /\ step.account \in Renter
        /\ step.hash = page[t].step.hash
    <3>1. page[t].step \in Step /\ page[t].step.account \in Renter
      BY <1>2, PageFacts DEF Consistent, SessionOK
    <3> QED BY <2>1, <3>1 DEF Step, Paying
  <2>3. Consistent(page[t].session, page[t].snapshot, step, page[t].job, page[t].resume, Signed)
    BY <1>2, <2>2, PageFacts DEF Consistent, SessionOK, Paying, Following
  <2> QED BY <1>2, <2>1, <2>2, <2>3, AwaitSets
<1>3. PagesKept(Signed)
  <2>1. CASE Paused(t)
    BY <2>1, PausedPages
  <2>2. CASE ApprovalKnown(t) /\ ~ Paused(t)
    BY <1>2, <2>2 DEF ApprovalKnown, Paying
  <2>3. CASE MintMined(t) /\ ~ Paused(t)
    BY <1>2, <2>3 DEF MintMined
  <2> QED BY <2>1, <2>2, <2>3
<1> QED BY <1>1, <1>3, LocalKeeps, Uncounted

\* The prompts of payForUsage.
LEMMA PromptEarns ==
  ASSUME EarnInv, NEW t \in Tab, Check(t) \/ ApprovalMined(t)
  PROVE  EarnInv'
<1>1. UNCHANGED <<Chains, account, broadcast, prompts, jobs, started, mishaps>>
  BY DEF Check, ApprovalMined, Local
<1>2. page[t].step.at \in Paying /\ page[t].step.at # "idle"
  BY DEF Check, ApprovalMined, Paying
<1>3. ASSUME NEW phase \in {"approving", "payment"}, NEW step \in Step,
             step.at \in {"approvePrompt", "payPrompt"}, step.account \in Renter,
             step.hash = page[t].step.hash,
             Commit(t, [page[t].session EXCEPT !.phase = phase,
                                              !.account = page[t].step.account],
                    page[t].snapshot, step)
      PROVE  PagesKept(Signed)
  <2>1. PICK session : session = [page[t].session EXCEPT !.phase = phase,
                                                        !.account = page[t].step.account]
    OBVIOUS
  <2>2. page[t].step.account \in OrZero(Renter)
    BY PageFacts DEF Step
  <2>3. session \in Session /\ session.source = page[t].session.source
        /\ session.approval \in {0, page[t].session.approval}
        /\ session.phase # "access"
    BY <2>1, <2>2, PageFacts DEF Session, Phase
  <2>4. Consistent(session, page[t].snapshot, step, page[t].job, page[t].resume, Signed)
    BY <1>2, <1>3, <2>3, PageFacts DEF Consistent, SessionOK, Paying, Following
  <2> QED BY <1>3, <2>1, <2>3, <2>4, PageFacts, CommitSets
<1>4. CASE Paused(t)
  BY <1>1, <1>4, PausedPages, LocalKeeps, Uncounted
<1>5. CASE Check(t) /\ ~ Paused(t)
  <2>1. PICK phase \in {"approving", "payment"}, at \in {"approvePrompt", "payPrompt"} :
          Commit(t, [page[t].session EXCEPT !.phase = phase,
                                           !.account = page[t].step.account],
                 page[t].snapshot, [page[t].step EXCEPT !.at = at])
    BY <1>5 DEF Check
  <2>2. PagesKept(Signed)
    BY <1>2, <1>3, <2>1, StepMoves
  <2> QED BY <1>1, <2>2, LocalKeeps, Uncounted
<1>6. CASE ApprovalMined(t) /\ ~ Paused(t)
  <2>1. PICK step : step = [page[t].step EXCEPT !.at = "payPrompt", !.approved = TRUE]
    OBVIOUS
  <2>2. page[t].step \in Step /\ page[t].step.account \in Renter
    BY <1>2, PageFacts DEF Consistent, SessionOK
  <2>3. step \in Step /\ step.at = "payPrompt" /\ step.account \in Renter
        /\ step.hash = page[t].step.hash
    BY <2>1, <2>2 DEF Step, Paying
  <2>4. Commit(t, [page[t].session EXCEPT !.phase = "payment",
                                         !.account = page[t].step.account],
               page[t].snapshot, step)
    BY <1>6, <2>1 DEF ApprovalMined
  <2>5. PagesKept(Signed)
    BY <1>3, <2>3, <2>4
  <2> QED BY <1>1, <2>5, LocalKeeps, Uncounted
<1> QED BY <1>4, <1>5, <1>6

LEMMA InspectEarns ==
  ASSUME EarnInv, NEW t \in Tab, InspectAnswer(t)
  PROVE  EarnInv'
<1>1. UNCHANGED <<Chains, account, broadcast, prompts, jobs, started>>
  BY DEF InspectAnswer
<1>2. Mishap \/ UNCHANGED mishaps
  BY DEF InspectAnswer
<1> DEFINE step == page[t].step
<1>3. /\ step \in Step /\ step.account \in Renter /\ step.at \in {"inspecting", "reinspecting"}
      /\ page[t].session \in Session /\ page[t].job \in JobPhase
      /\ Consistent(page[t].session, page[t].snapshot, step, page[t].job, page[t].resume, Signed)
  BY PageFacts DEF InspectAnswer, Consistent, SessionOK
<1>4. ASSUME NEW gas \in BOOLEAN
      PROVE  Inspected(step, gas) \in Snapshot /\ 2 * Inspected(step, gas).amount \in Amount
  <2>1. step.price \in Price /\ step.duration \in LegalDuration
    BY <1>3 DEF Step
  <2>2. PICK amount : amount = step.price * step.duration
    OBVIOUS
  <2>3. 2 * amount \in Amount
    <3>1. 2 * step.price * step.duration \in Amount
      BY <2>1, CheckoutAssumption
    <3>2. 2 * step.price * step.duration = 2 * (step.price * step.duration)
      BY <2>1 DEF Price, LegalDuration
    <3> QED BY <2>2, <3>1, <3>2
  <2>4. amount \in Amount
    BY <2>1, <2>2, TokenAssumption DEF LegalDuration
  <2>5. Inspected(step, gas) = [known |-> TRUE, amount |-> amount,
            balanceSufficient |-> balanceOf[step.account] >= amount, gasSufficient |-> gas]
    BY <2>2 DEF Inspected, Amounts
  <2>6. (balanceOf[step.account] >= amount) \in BOOLEAN
    OBVIOUS
  <2> QED BY <2>3, <2>4, <2>5, <2>6 DEF Snapshot
<1>5. PagesKept(Signed)
  <2>1. CASE Paused(t)
    BY <2>1, PausedPages
  <2>2. ASSUME NEW gas \in BOOLEAN, step.at = "inspecting",
               Commit(t, [page[t].session EXCEPT !.phase = "funds", !.account = step.account],
                      Inspected(step, gas), Idle)
        PROVE  PagesKept(Signed)
    <3>1. PICK session : session = [page[t].session EXCEPT !.phase = "funds",
                                                          !.account = step.account]
      OBVIOUS
    <3>2. session \in Session /\ session.source = page[t].session.source
          /\ session.approval = page[t].session.approval /\ session.phase = "funds"
      BY <1>3, <3>1 DEF Session, Phase, OrZero
    <3>3. PICK snapshot \in Snapshot : snapshot = Inspected(step, gas)
                                       /\ 2 * snapshot.amount \in Amount
      BY <1>4
    <3>4. Consistent(session, snapshot, Idle, page[t].job, page[t].resume, Signed)
      BY <1>3, <3>2, <3>3, IdleStep, SignedNat DEF Consistent, SessionOK
    <3> QED BY <2>2, <3>1, <3>2, <3>3, <3>4, IdleStep, CommitSets
  <2>3. ASSUME NEW gas \in BOOLEAN, UNCHANGED stored,
               page' = [page EXCEPT ![t] = [@ EXCEPT !.snapshot = Inspected(step, gas),
                                                     !.step = Idle]]
        PROVE  PagesKept(Signed)
    <3>1. PICK snapshot \in Snapshot : snapshot = Inspected(step, gas)
                                       /\ 2 * snapshot.amount \in Amount
      BY <1>4
    <3>2. page[t] \in Page
      BY PageFacts
    <3>3. [page[t] EXCEPT !.snapshot = snapshot, !.step = Idle]
            = Becomes(page[t], page[t].session, snapshot, Idle, page[t].job)
      BY <3>2 DEF Becomes, Page
    <3>4. page' = [page EXCEPT ![t] =
                     Becomes(page[t], page[t].session, snapshot, Idle, page[t].job)]
      BY <2>3, <3>1, <3>3
    <3>5. Consistent(page[t].session, snapshot, Idle, page[t].job, page[t].resume, Signed)
      BY <1>3, <3>1, IdleStep, SignedNat DEF Consistent, SessionOK
    <3> QED BY <1>3, <2>3, <3>4, <3>5, IdleStep, SignedNat, PageSets
  <2> QED BY <2>1, <2>2, <2>3 DEF InspectAnswer
<1> QED BY <1>1, <1>2, <1>5, LocalKeeps, Uncounted

\* A hash that is known is that of a transaction.
LEMMA HashKnown ==
  ASSUME EarnInv, NEW h \in 0 .. MaxBroadcast, h # 0, h <= Signed
  PROVE  h \in Hash /\ h \in DOMAIN broadcast
BY LenProperties, SignedNat, Bounds DEF EarnInv, WorldOK, SignedOK, Signed, Hash

LEMMA TransactionOK ==
  ASSUME EarnInv
  PROVE  /\ broadcast \in Seq(Broadcast) /\ DOMAIN broadcast = 1 .. Signed
         /\ \A h \in DOMAIN broadcast : broadcast[h] \in Broadcast
         /\ DOMAIN transactions = 1 .. Len(transactions) /\ Len(transactions) \in Nat
<1>1. broadcast \in Seq(Broadcast)
  BY DEF EarnInv, WorldOK, SignedOK
<1>2. DOMAIN broadcast = 1 .. Signed /\ \A h \in DOMAIN broadcast : broadcast[h] \in Broadcast
  <2> HIDE DEF Broadcast
  <2> QED BY <1>1, ElementOfSeq, LenProperties DEF Signed
<1>3. DOMAIN transactions = 1 .. Len(transactions) /\ Len(transactions) \in Nat
  BY LenProperties DEF EarnInv, WorldOK, ChainsOK
<1> QED BY <1>1, <1>2, <1>3

\* What a receipt shows.
LEMMA PaymentLogs ==
  ASSUME EarnInv, NEW h \in DOMAIN broadcast, NEW log \in ReceiptPayments(h)
  PROVE  /\ log.duration \in LegalDuration
         /\ broadcast[h].receipt # 0 /\ broadcast[h].receipt \in DOMAIN transactions
<1>1. broadcast[h].receipt \in 0 .. MaxTransactions /\ broadcast[h].receipt <= Len(transactions)
  <2>1. broadcast[h] \in Broadcast
    BY TransactionOK
  <2>2. broadcast[h].receipt \in 0 .. MaxTransactions
    BY <2>1 DEF Broadcast
  <2> QED BY <2>2 DEF EarnInv, WorldOK, SignedOK
<1>2. /\ broadcast[h].receipt # 0
      /\ log \in RegistryLogs(transactions[broadcast[h].receipt])
  BY DEF ReceiptPayments
<1>3. broadcast[h].receipt \in DOMAIN transactions
  BY <1>1, <1>2, TransactionOK, Bounds
<1> QED BY <1>2, <1>3 DEF EarnInv, WorldOK, ChainsOK

\* The payment a receipt shows is the session's from now on.
LEMMA PaymentEarns ==
  ASSUME EarnInv, NEW t \in Tab, PaymentKnown(t)
  PROVE  EarnInv'
<1>1. UNCHANGED <<Chains, account, broadcast, prompts, jobs, started, mishaps>>
  BY DEF PaymentKnown, Local
<1> DEFINE old == page[t].step
<1>2. /\ old \in Step /\ old.account \in Renter /\ old.at \in {"recovering", "payWait"}
      /\ page[t].session \in Session /\ page[t].snapshot \in Snapshot
      /\ Consistent(page[t].session, page[t].snapshot, old, page[t].job, page[t].resume, Signed)
  BY PageFacts DEF PaymentKnown, Consistent, SessionOK
<1>3. ASSUME NEW log \in ReceiptPayments(old.hash),
             Commit(t, [page[t].session EXCEPT !.phase = "relay",
                          !.durationSeconds = log.duration,
                          !.source = IF old.at = "payWait" THEN old.hash ELSE @],
                    page[t].snapshot, [old EXCEPT !.at = "enqueueing"])
      PROVE  PagesKept(Signed)
  <2>1. old.hash \in Hash /\ old.hash \in DOMAIN broadcast
    <3>1. old.hash \in 0 .. MaxBroadcast
      BY <1>2 DEF Step
    <3>2. old.hash # 0 /\ old.hash <= Signed
      BY <1>2 DEF Consistent, Following
    <3> QED BY <3>1, <3>2, HashKnown
  <2>2. log.duration \in LegalDuration
    BY <1>3, <2>1, PaymentLogs
  <2>3. PICK session : session = [page[t].session EXCEPT !.phase = "relay",
                          !.durationSeconds = log.duration,
                          !.source = IF old.at = "payWait" THEN old.hash ELSE @]
    OBVIOUS
  <2>4. /\ session \in Session /\ session.phase = "relay"
        /\ session.approval = page[t].session.approval
        /\ session.source = IF old.at = "payWait" THEN old.hash ELSE page[t].session.source
    BY <1>2, <2>1, <2>2, <2>3, Bounds DEF Session, Phase
  <2>5. PICK step : step = [old EXCEPT !.at = "enqueueing"]
    OBVIOUS
  <2>6. step \in Step /\ step.at = "enqueueing" /\ step.hash = old.hash
        /\ step.account = old.account
    BY <1>2, <2>5 DEF Step
  <2>7. Consistent(session, page[t].snapshot, step, page[t].job, page[t].resume, Signed)
    BY <1>2, <2>1, <2>4, <2>6 DEF Consistent, SessionOK, Following, Paying
  <2> QED BY <1>2, <1>3, <2>3, <2>4, <2>5, <2>6, <2>7, CommitSets
<1>4. PagesKept(Signed)
  BY <1>3, PausedPages DEF PaymentKnown
<1> QED BY <1>1, <1>4, LocalKeeps, Uncounted

-----------------------------------------------------------------------------
(* The relay's jobs. *)

LEMMA JobsMove ==
  ASSUME EarnInv, PagesKept(Signed), UNCHANGED <<Chains, broadcast, prompts, account, started>>,
         mishaps' \in 0 .. MaxMishaps, jobs' \in [Hash -> JobPhase],
         \A h \in Hash :
           /\ jobs[h] = "completed" => jobs'[h] = "completed"
           /\ jobs'[h] = "completed" =>
                \/ jobs[h] = "completed"
                \/ h \in DOMAIN broadcast /\ ReceiptPayments(h) # {}
  PROVE  EarnInv'
<1>1. \A h : ReceiptPayments(h)' = ReceiptPayments(h)
  BY DEF ReceiptPayments, Chains, sepoliaVars
<1>2. EarnedKept
  BY <1>1 DEF EarnedKept, Earned
<1>3. ChainsOK' /\ SignedOK'
  BY DEF EarnInv, WorldOK, ChainsOK, SignedOK, Chains, sepoliaVars, tokenVars, registryVars
<1>4. JobsOK'
  BY <1>1 DEF EarnInv, WorldOK, JobsOK, Earned
<1>5. Signed' = Signed
  BY DEF Signed
<1> QED BY <1>2, <1>3, <1>4, <1>5, StepsKeep, Uncounted DEF WorldOK, CountersOK

LEMMA FollowedHash ==
  ASSUME EarnInv, NEW t \in Tab, page[t].step.at \in Following
  PROVE  page[t].step.hash \in Hash /\ page[t].step.hash \in DOMAIN broadcast
<1>1. page[t].step.hash \in 0 .. MaxBroadcast
  BY PageFacts DEF Step
<1>2. page[t].step.hash # 0 /\ page[t].step.hash <= Signed
  BY PageFacts DEF Consistent
<1> QED BY <1>1, <1>2, HashKnown

LEMMA EnqueuedEarns ==
  ASSUME EarnInv, NEW t \in Tab, Enqueued(t)
  PROVE  EarnInv'
<1> DEFINE hash == page[t].step.hash
<1>1. /\ UNCHANGED <<Chains, account, broadcast, prompts, started, mishaps>>
      /\ jobs' = [jobs EXCEPT ![hash] = Enqueue(@)]
      /\ page[t].step.at = "enqueueing" /\ page[t].step.at \in Following
  BY DEF Enqueued, Following
<1>2. hash \in Hash /\ jobs \in [Hash -> JobPhase]
  BY <1>1, FollowedHash DEF EarnInv, WorldOK, JobsOK
<1>3. /\ jobs' \in [Hash -> JobPhase]
      /\ \A h \in Hash : jobs'[h] = "completed" <=> jobs[h] = "completed"
  BY <1>1, <1>2 DEF Enqueue, JobPhase
<1>4. PagesKept(Signed)
  <2>1. PICK step : step = [page[t].step EXCEPT !.at = "polling"]
    OBVIOUS
  <2>2. /\ step \in Step /\ step.at = "polling" /\ step.hash = hash
        /\ step.account = page[t].step.account /\ step.account \in Renter
    BY <1>1, <2>1, StepMoves
  <2>3. Consistent(page[t].session, page[t].snapshot, step, page[t].job, page[t].resume, Signed)
    BY <1>1, <2>2, PageFacts DEF Consistent, SessionOK, Following, Paying
  <2>4. Await(t, step)
    BY <2>1 DEF Enqueued
  <2> QED BY <2>2, <2>3, <2>4, AwaitSets
<1> QED BY <1>1, <1>3, <1>4, JobsMove, Uncounted

LEMMA PolledEarns ==
  ASSUME EarnInv, NEW t \in Tab, Polled(t)
  PROVE  EarnInv'
<1>1. /\ UNCHANGED <<Chains, account, broadcast, prompts, jobs, started, mishaps>>
      /\ page[t].step.at = "polling" /\ page[t].step.at \in Following
  BY DEF Polled, Local, Following
<1> DEFINE old == page[t].step
<1>2. PICK job : job = jobs[old.hash]
  OBVIOUS
<1>3. /\ old.hash \in Hash /\ job \in JobPhase /\ (job = "completed" => Earned(old.hash))
  BY <1>1, <1>2, FollowedHash DEF EarnInv, WorldOK, JobsOK
<1>4. PICK session : session = [page[t].session EXCEPT !.phase =
                                  IF Completed(job) THEN "access" ELSE "relay"]
  OBVIOUS
<1>5. PICK step : step = IF job = "queued" /\ ~Completed(job) THEN old ELSE Idle
  OBVIOUS
<1>6. /\ page[t] \in Page /\ page[t].session \in Session /\ page[t].snapshot \in Snapshot
      /\ old \in Step
      /\ Consistent(page[t].session, page[t].snapshot, old, page[t].job, page[t].resume, Signed)
  BY PageFacts
<1>7. /\ session \in Session /\ session.source = page[t].session.source
      /\ session.approval = page[t].session.approval
      /\ session.phase = (IF Completed(job) THEN "access" ELSE "relay")
  BY <1>4, <1>6 DEF Session, Phase
<1>8. step \in Step /\ (job = "completed" => step = Idle) /\ step \in {old, Idle}
  BY <1>5, <1>6, IdleStep DEF Completed
<1>9. Consistent(session, page[t].snapshot, step, job, page[t].resume, Signed)
  BY <1>1, <1>3, <1>6, <1>7, <1>8, IdleStep, SignedNat
     DEF Consistent, SessionOK, Completed, Following, Paying
<1>10. page' = [page EXCEPT ![t] = Becomes(page[t], session, page[t].snapshot, step, job)]
  <2>1. [page[t] EXCEPT !.session = session, !.job = job, !.step = step]
          = Becomes(page[t], session, page[t].snapshot, step, job)
    BY <1>6 DEF Becomes, Page
  <2>2. page' = [page EXCEPT ![t] = [page[t] EXCEPT !.session = session, !.job = job,
                                                   !.step = step]]
    BY <1>2, <1>4, <1>5 DEF Polled
  <2> QED BY <2>1, <2>2
<1>11. stored' = <<session>>
  BY <1>2, <1>4 DEF Polled
<1>12. PagesKept(Signed)
  BY <1>3, <1>6, <1>7, <1>8, <1>9, <1>10, <1>11, SignedNat, PageSets
<1> QED BY <1>1, <1>12, LocalKeeps, Uncounted

LEMMA RelayEarns ==
  ASSUME EarnInv, NEW h \in DOMAIN broadcast, RelayFinishes(h)
  PROVE  EarnInv'
<1>1. UNCHANGED <<Chains, page, stored, account, broadcast, prompts, started>>
      /\ jobs[h] = "queued" /\ (Mishap \/ UNCHANGED mishaps)
  BY DEF RelayFinishes
<1>2. jobs \in [Hash -> JobPhase]
  BY DEF EarnInv, WorldOK, JobsOK
<1>3. PICK result \in {"completed", "failed"} :
        /\ jobs' = [jobs EXCEPT ![h] = result]
        /\ result = "completed" => ReceiptPayments(h) # {}
  BY DEF RelayFinishes
<1>4. /\ jobs' \in [Hash -> JobPhase]
      /\ \A g \in Hash : g # h => jobs'[g] = jobs[g]
      /\ h \in Hash => jobs'[h] = result
  BY <1>2, <1>3 DEF JobPhase
<1> QED BY <1>1, <1>3, <1>4, PagesStay, JobsMove, Uncounted

-----------------------------------------------------------------------------
(* The browser. *)

LEMMA ListingPrice == ASSUME EarnInv PROVE Listing \in Price
<1>1. TheOffer \in Offer /\ 0 \in Price
  BY Bounds, BoundsAreNat DEF EarnInv, WorldOK, ChainsOK, TheOffer, Price
<1> QED BY <1>1 DEF Listing, Offer

LEMMA RefetchEarns ==
  ASSUME EarnInv, NEW t \in Tab, Refetch(t)
  PROVE  EarnInv'
<1>1. /\ UNCHANGED <<Chains, account, broadcast, prompts, jobs, started, mishaps, stored>>
      /\ page' = [page EXCEPT ![t] = [page[t] EXCEPT !.offer = Listing]]
  BY DEF Refetch, Local
<1>2. page[t] \in Page /\ PageOK(page[t], Signed)
  BY DEF EarnInv
<1>3. PICK q : q = [page[t] EXCEPT !.offer = Listing]
  OBVIOUS
<1>4. /\ q \in Page /\ q.session = page[t].session /\ q.snapshot = page[t].snapshot
      /\ q.step = page[t].step /\ q.job = page[t].job /\ q.resume = page[t].resume
  BY <1>2, <1>3, ListingPrice DEF Page
<1>5. PageOK(q, Signed)
  BY <1>2, <1>4 DEF PageOK
<1>6. PagesKept(Signed)
  BY <1>1, <1>3, <1>5, SignedNat, KnowsMore, OnePageMoves
<1> QED BY <1>1, <1>6, LocalKeeps, Uncounted

LEMMA ResumedSession ==
  ASSUME NEW resume \in 0 .. MaxBroadcast, NEW a \in OrZero(Renter)
  PROVE  /\ Resumed(resume, a) \in Session /\ Resumed(resume, a).phase = "confirming"
         /\ Resumed(resume, a).source = resume /\ Resumed(resume, a).approval = 0
BY Bounds DEF Resumed, createRentalSession, Session, Phase

\* A session a link replaces is one whose payment is earned.
LEMMA ConnectedEarns ==
  ASSUME EarnInv, NEW a \in OrZero(Renter), Connected(a), Mishap \/ UNCHANGED mishaps
  PROVE  EarnInv'
<1>1. UNCHANGED <<Chains, broadcast, prompts, jobs, started>> /\ account' = a
  BY DEF Connected
<1> DEFINE replaced == {t \in Tab : Resumes(page[t].session, page[t].resume)}
<1>2. ASSUME NEW t \in replaced
      PROVE  /\ PageOK([page[t] EXCEPT !.session = Resumed(page[t].resume, a)], Signed)
             /\ StoredOK(<<Resumed(page[t].resume, a)>>, Signed)
  <2>1. /\ page[t] \in Page /\ page[t].resume \in 0 .. MaxBroadcast
        /\ page[t].snapshot \in Snapshot /\ page[t].step \in Step /\ page[t].job \in JobPhase
        /\ Consistent(page[t].session, page[t].snapshot, page[t].step, page[t].job,
                      page[t].resume, Signed)
    BY PageFacts
  <2>2. PICK session : session = Resumed(page[t].resume, a)
    OBVIOUS
  <2>3. /\ session \in Session /\ session.phase = "confirming"
        /\ session.source = page[t].resume /\ session.approval = 0
    BY <2>1, <2>2, ResumedSession
  <2>4. Earned(page[t].resume)
    BY <2>1 DEF Consistent, Resumes
  <2>5. Consistent(session, page[t].snapshot, page[t].step, page[t].job, page[t].resume, Signed)
    BY <2>1, <2>3, <2>4, SignedNat DEF Consistent, SessionOK
  <2>6. [page[t] EXCEPT !.session = session]
          = Becomes(page[t], session, page[t].snapshot, page[t].step, page[t].job)
    BY <2>1 DEF Becomes, Page
  <2>7. PageOK([page[t] EXCEPT !.session = session], Signed)
    BY <2>1, <2>3, <2>5, <2>6, PageBecomes
  <2>8. SessionOK(session, Signed)
    BY <2>5 DEF Consistent
  <2> QED BY <2>2, <2>3, <2>7, <2>8 DEF StoredOK
<1>3. ASSUME NEW t \in Tab PROVE page'[t] \in Page /\ PageOK(page'[t], Signed)
  <2>1. CASE t \in replaced
    <3>1. page'[t] = [page[t] EXCEPT !.session = Resumed(page[t].resume, a)]
      BY <2>1 DEF Connected
    <3> QED BY <1>2, <2>1, <3>1 DEF PageOK
  <2>2. CASE t \notin replaced
    BY <2>2 DEF Connected, EarnInv
  <2> QED BY <2>1, <2>2
<1>4. page' \in [Tab -> Page]
  <2>1. page' = [t \in Tab |-> page'[t]]
    BY DEF Connected
  <2> QED BY <1>3, <2>1
<1>5. StoredOK(stored', Signed)
  BY <1>2 DEF Connected, EarnInv
<1>6. PagesKept(Signed)
  BY <1>3, <1>4, <1>5 DEF PagesKept
<1> QED BY <1>1, <1>6, LocalKeeps, Uncounted

-----------------------------------------------------------------------------
(* The wallet and the chain. *)

\* Promises about what a step does to receipts and blocks.
Extends ==
  /\ \A h \in DOMAIN broadcast :
       /\ h \in DOMAIN broadcast'
       /\ broadcast[h].receipt # 0 => broadcast'[h].receipt = broadcast[h].receipt
  /\ \A i \in DOMAIN transactions :
       i \in DOMAIN transactions' /\ transactions'[i] = transactions[i]

LEMMA WorldMoves ==
  ASSUME EarnInv, ChainsOK', SignedOK', CountersOK', Extends, UNCHANGED jobs,
         PagesKept(Signed')
  PROVE  EarnInv'
<1>1. ASSUME NEW h, Earned(h) PROVE Earned(h)'
  <2>1. h \in Hash /\ h \in DOMAIN broadcast /\ jobs[h] = "completed" /\ ReceiptPayments(h) # {}
    BY <1>1 DEF Earned
  <2>2. broadcast[h].receipt # 0 /\ broadcast[h].receipt \in DOMAIN transactions
    BY <2>1, PaymentLogs
  <2>3. ReceiptPayments(h)' = ReceiptPayments(h)
    BY <2>1, <2>2 DEF Extends, ReceiptPayments
  <2> QED BY <2>1, <2>3 DEF Earned, Extends
<1>2. EarnedKept
  BY <1>1 DEF EarnedKept
<1>3. JobsOK'
  BY <1>1 DEF EarnInv, WorldOK, JobsOK
<1> QED BY <1>2, <1>3, StepsKeep DEF WorldOK

\* Without a step of any page.
LEMMA WorldMovesAlone ==
  ASSUME EarnInv, ChainsOK', SignedOK', CountersOK', Extends, UNCHANGED <<jobs, page, stored>>,
         Signed <= Signed'
  PROVE  EarnInv'
<1>1. Signed' \in Nat
  BY LenProperties DEF SignedOK, Signed
<1>2. PagesKept(Signed')
  BY <1>1, KnowsMore DEF PagesKept, EarnInv
<1> QED BY <1>2, WorldMoves

LEMMA ChainsStay == ASSUME EarnInv, UNCHANGED Chains PROVE ChainsOK'
BY DEF EarnInv, WorldOK, ChainsOK, Chains, sepoliaVars, tokenVars, registryVars

WaitingInWallet(p) == p \in Broadcast /\ p.lost = TRUE /\ p.status = "pending" /\ p.receipt = 0

LEMMA PromptsWait == ASSUME EarnInv PROVE \A p \in prompts : WaitingInWallet(p)
BY DEF EarnInv, WorldOK, SignedOK, WaitingInWallet

\* A transaction is added, with a nonce of its own.
Numbered(request) == [request EXCEPT !.nonce = Signed + 1]

LEMMA Appended ==
  ASSUME EarnInv, NEW request \in Broadcast, request.receipt = 0, Broadcasts(request),
         UNCHANGED Chains, \A p \in prompts' : WaitingInWallet(p)
  PROVE  /\ SignedOK' /\ Extends /\ Signed' = Signed + 1 /\ Signed' <= MaxBroadcast
         /\ broadcast'[Signed + 1] = Numbered(request)
         /\ \A h \in DOMAIN broadcast : broadcast'[h] = broadcast[h]
         /\ DOMAIN broadcast' = DOMAIN broadcast \cup {Signed + 1}
<1>1. /\ broadcast \in Seq(Broadcast) /\ DOMAIN broadcast = 1 .. Signed /\ Signed \in Nat
      /\ Len(transactions) \in Nat /\ MaxBroadcast \in Nat
  BY TransactionOK, SignedNat, Bounds
<1>2. /\ UNCHANGED transactions /\ Len(broadcast) < MaxBroadcast
      /\ broadcast' = Append(broadcast, Numbered(request))
  BY DEF Chains, sepoliaVars, Broadcasts, Numbered, Signed
<1>0. Numbered(request) \in Broadcast /\ Numbered(request).receipt = 0
  <2>1. Signed + 1 \in 0 .. MaxBroadcast
    BY <1>1, <1>2 DEF Signed
  <2>2. PICK nonce \in 0 .. MaxBroadcast : nonce = Signed + 1
    BY <2>1
  <2>3. Numbered(request) = [request EXCEPT !.nonce = nonce]
    BY <2>2 DEF Numbered
  <2> QED BY <2>3 DEF Broadcast
<1>3. /\ broadcast' \in Seq(Broadcast) /\ Len(broadcast') = Len(broadcast) + 1
      /\ \A h \in 1 .. Len(broadcast) : broadcast'[h] = broadcast[h]
      /\ broadcast'[Len(broadcast) + 1] = Numbered(request)
  <2> HIDE DEF Broadcast
  <2> QED BY <1>0, <1>1, <1>2, AppendProperties
<1>4. Signed' = Signed + 1 /\ Signed' <= MaxBroadcast /\ DOMAIN broadcast' = 1 .. (Signed + 1)
  BY <1>1, <1>2, <1>3, LenProperties DEF Signed
<1>5. Extends
  BY <1>1, <1>2, <1>3, <1>4 DEF Extends, Signed
<1>6. ASSUME NEW h \in DOMAIN broadcast'
      PROVE  /\ broadcast'[h].status = "pending" => broadcast'[h].receipt = 0
             /\ broadcast'[h].receipt <= Len(transactions)
  <2>1. CASE h \in 1 .. Signed
    BY <1>1, <1>3, <2>1 DEF EarnInv, WorldOK, SignedOK, Signed
  <2>2. CASE h = Signed + 1
    BY <1>0, <1>1, <1>3, <2>2 DEF Signed
  <2> QED BY <1>1, <1>4, <2>1, <2>2
<1> QED BY <1>1, <1>2, <1>3, <1>4, <1>5, <1>6 DEF SignedOK, Signed, WaitingInWallet

LEMMA RequestOK ==
  ASSUME EarnInv, NEW t \in Tab, page[t].step.at \in Prompting
  PROVE  /\ Request(t) \in Broadcast /\ Request(t).receipt = 0
         /\ WaitingInWallet([Request(t) EXCEPT !.lost = TRUE])
<1> DEFINE step == page[t].step
<1>1. /\ step \in Step /\ step.account \in Renter /\ page[t].snapshot \in Snapshot
      /\ 2 * page[t].snapshot.amount \in Amount
  BY PageFacts DEF Consistent, Prompting
<1>2. step.price * step.duration \in Amount
  BY <1>1, TokenAssumption DEF Step, LegalDuration
<1>3. PICK amount : amount = Request(t).amount
  OBVIOUS
<1>4. amount \in Amount
  BY <1>1, <1>2, <1>3 DEF Request, ApprovalAmount, Amounts
<1>5. Kind(step.at) \in {"mint", "approve", "pay"}
  BY DEF Kind
<1>6. started \in 1 .. MaxRentals /\ 0 \in 0 .. MaxTransactions /\ 0 \in 0 .. MaxBroadcast
  BY Uncounted, Bounds
<1>7. Request(t) = [kind |-> Kind(step.at), from |-> step.account, amount |-> amount,
                    duration |-> step.duration, approved |-> step.approved, lost |-> FALSE,
                    rental |-> started, nonce |-> 0, status |-> "pending", receipt |-> 0]
  BY <1>3 DEF Request
<1>8. step.duration \in LegalDuration /\ step.approved \in BOOLEAN
  BY <1>1 DEF Step
<1>9. Request(t) \in Broadcast /\ Request(t).receipt = 0 /\ Request(t).status = "pending"
  BY <1>1, <1>4, <1>5, <1>6, <1>7, <1>8 DEF Broadcast
<1>10. PICK p : p = [Request(t) EXCEPT !.lost = TRUE]
  OBVIOUS
<1>11. p \in Broadcast /\ p.lost = TRUE /\ p.status = "pending" /\ p.receipt = 0
  BY <1>9, <1>10 DEF Broadcast
<1> QED BY <1>9, <1>10, <1>11 DEF WaitingInWallet

LEMMA OrphanEarns ==
  ASSUME EarnInv, NEW p \in prompts, OrphanSigned(p)
  PROVE  EarnInv'
<1>1. /\ UNCHANGED <<Chains, page, stored, account, jobs, started, mishaps>>
      /\ prompts' = prompts \ {p}
  BY DEF OrphanSigned
<1>2. ChainsOK' /\ CountersOK'
  BY <1>1, ChainsStay, Uncounted DEF CountersOK
<1>3. WaitingInWallet(p) /\ \A q \in prompts' : WaitingInWallet(q)
  BY <1>1, PromptsWait
<1>4. CASE Broadcasts(p)
  <2>1. SignedOK' /\ Extends /\ Signed' = Signed + 1
    BY <1>1, <1>3, <1>4, Appended DEF WaitingInWallet
  <2>2. Signed <= Signed'
    BY <2>1, SignedNat
  <2> QED BY <1>1, <1>2, <2>1, <2>2, WorldMovesAlone
<1>5. CASE UNCHANGED broadcast
  <2>1. SignedOK' /\ Extends /\ Signed <= Signed'
    BY <1>1, <1>3, <1>5, SignedNat
       DEF EarnInv, WorldOK, SignedOK, Extends, Signed, WaitingInWallet, Chains, sepoliaVars
  <2> QED BY <1>1, <1>2, <2>1, WorldMovesAlone
<1> QED BY <1>4, <1>5 DEF OrphanSigned

LEMMA DeclinedEarns ==
  ASSUME EarnInv, NEW t \in Tab, Declined(t)
  PROVE  EarnInv'
<1>1. /\ UNCHANGED <<Chains, account, prompts, jobs, started>>
      /\ page[t].step.at \in Prompting /\ Paused(t) /\ Mishap
  BY DEF Declined
<1>2. PagesKept(Signed)
  BY <1>1, PausedPages
<1>3. CASE UNCHANGED broadcast
  BY <1>1, <1>2, <1>3, LocalKeeps, Uncounted
<1>4. CASE Broadcasts([Request(t) EXCEPT !.lost = TRUE])
  <2>1. ChainsOK' /\ CountersOK' /\ \A p \in prompts' : WaitingInWallet(p)
    BY <1>1, ChainsStay, Uncounted, PromptsWait DEF CountersOK
  <2>2. SignedOK' /\ Extends /\ Signed' = Signed + 1
    BY <1>1, <1>4, <2>1, RequestOK, Appended DEF WaitingInWallet
  <2>3. PagesKept(Signed')
    <3>1. Signed' \in Nat /\ Signed <= Signed'
      BY <2>2, SignedNat
    <3>2. Consistent(page[t].session, page[t].snapshot, Idle, page[t].job, page[t].resume, Signed')
      BY <3>1, KnowsMore, PageFacts, IdleStep DEF PageOK, Consistent
    <3>3. /\ page' = [page EXCEPT ![t] =
                        Becomes(page[t], page[t].session, page[t].snapshot, Idle, page[t].job)]
          /\ stored' = stored
      <4>1. [page[t] EXCEPT !.step = Idle]
              = Becomes(page[t], page[t].session, page[t].snapshot, Idle, page[t].job)
        BY PageFacts, PartsBecome
      <4> QED BY <1>1, <4>1 DEF Paused
    <3> QED BY <3>1, <3>2, <3>3, PageFacts, IdleStep, PageSets
  <2> QED BY <1>1, <2>1, <2>2, <2>3, WorldMoves
<1> QED BY <1>3, <1>4 DEF Declined

\* A signed transaction's hash is recorded before anything else happens.
LEMMA SignEarns ==
  ASSUME EarnInv, NEW t \in Tab, Sign(t)
  PROVE  EarnInv'
<1>1. /\ UNCHANGED <<Chains, account, prompts, jobs, started, mishaps>>
      /\ page[t].step.at \in Prompting /\ Broadcasts(Request(t))
  BY DEF Sign
<1>2. ChainsOK' /\ CountersOK' /\ \A p \in prompts' : WaitingInWallet(p)
  BY <1>1, ChainsStay, Uncounted, PromptsWait DEF CountersOK
<1>3. SignedOK' /\ Extends /\ Signed' = Signed + 1 /\ Signed' <= MaxBroadcast
  BY <1>1, <1>2, RequestOK, Appended
<1>4. PICK n : n = Signed + 1
  OBVIOUS
<1>5. n \in Nat /\ n \in 0 .. MaxBroadcast /\ Signed <= n /\ n <= n /\ n # 0 /\ Signed' = n
  BY <1>3, <1>4, SignedNat, Bounds
<1> DEFINE old == page[t].step
<1>6. /\ page[t] \in Page /\ page[t].session \in Session /\ page[t].snapshot \in Snapshot
      /\ old \in Step /\ page[t].job \in JobPhase
      /\ Consistent(page[t].session, page[t].snapshot, old, page[t].job, page[t].resume, Signed)
      /\ Consistent(page[t].session, page[t].snapshot, old, page[t].job, page[t].resume, n)
  BY <1>5, KnowsMore, PageFacts DEF PageOK
<1>7. ASSUME NEW at \in {"mintWait", "approveWait", "payWait"}
      PROVE  /\ [old EXCEPT !.at = at, !.hash = n] \in Step
             /\ [old EXCEPT !.at = at, !.hash = n].at = at
             /\ [old EXCEPT !.at = at, !.hash = n].hash = n
             /\ [old EXCEPT !.at = at, !.hash = n].account \in Renter
  <2>1. old.account \in Renter
    BY <1>1, <1>6 DEF Consistent, Prompting
  <2> QED BY <1>5, <1>6, <2>1 DEF Step, Paying
<1>8. ASSUME NEW session \in Session, NEW step \in Step,
             Consistent(session, page[t].snapshot, step, page[t].job, page[t].resume, n),
             \/ Commit(t, session, page[t].snapshot, step)
             \/ Await(t, step) /\ session = page[t].session
      PROVE  EarnInv'
  <2>1. /\ page' = [page EXCEPT ![t] =
                      Becomes(page[t], session, page[t].snapshot, step, page[t].job)]
        /\ stored' = stored \/ stored' = <<session>>
    <3>1. /\ [page[t] EXCEPT !.session = session, !.snapshot = page[t].snapshot, !.step = step]
               = Becomes(page[t], session, page[t].snapshot, step, page[t].job)
          /\ session = page[t].session => [page[t] EXCEPT !.step = step]
               = Becomes(page[t], session, page[t].snapshot, step, page[t].job)
      BY <1>6 DEF Becomes, Page
    <3> QED BY <1>8, <3>1 DEF Commit, Await
  <2>2. PagesKept(n)
    BY <1>5, <1>6, <1>8, <2>1, PageSets
  <2> QED BY <1>1, <1>2, <1>3, <1>5, <2>2, WorldMoves
<1>9. CASE old.at = "mintPrompt"
  <2>1. PICK step : step = [old EXCEPT !.at = "mintWait", !.hash = n]
    OBVIOUS
  <2>2. step \in Step /\ step.at = "mintWait" /\ step.hash = n /\ step.account \in Renter
    BY <1>7, <2>1
  <2>3. Consistent(page[t].session, page[t].snapshot, step, page[t].job, page[t].resume, n)
    BY <1>5, <1>6, <1>9, <2>2 DEF Consistent, SessionOK, Following, Paying
  <2>4. Await(t, step)
    BY <1>4, <1>9, <2>1 DEF Sign, Signed
  <2> QED BY <1>6, <1>8, <2>2, <2>3, <2>4
<1>10. CASE old.at = "approvePrompt"
  <2>1. PICK step : step = [old EXCEPT !.at = "approveWait", !.hash = n]
    OBVIOUS
  <2>2. step \in Step /\ step.at = "approveWait" /\ step.hash = n /\ step.account \in Renter
    BY <1>7, <2>1
  <2>3. PICK session : session = [page[t].session EXCEPT !.phase = "approving",
                                    !.account = old.account, !.approval = n]
    OBVIOUS
  <2>4. /\ session \in Session /\ session.phase = "approving" /\ session.approval = n
        /\ session.source = page[t].session.source
    BY <1>5, <1>6, <2>3 DEF Session, Phase, Step
  <2>5. Consistent(session, page[t].snapshot, step, page[t].job, page[t].resume, n)
    BY <1>5, <1>6, <1>10, <2>2, <2>4 DEF Consistent, SessionOK, Following, Paying
  <2>6. Commit(t, session, page[t].snapshot, step)
    BY <1>4, <1>10, <2>1, <2>3 DEF Sign, Signed
  <2> QED BY <1>8, <2>2, <2>4, <2>5, <2>6
<1>11. CASE old.at = "payPrompt"
  <2>1. PICK step : step = [old EXCEPT !.at = "payWait", !.hash = n]
    OBVIOUS
  <2>2. step \in Step /\ step.at = "payWait" /\ step.hash = n /\ step.account \in Renter
    BY <1>7, <2>1
  <2>3. PICK session : session = [page[t].session EXCEPT !.phase = "confirming",
                                    !.account = old.account, !.source = n]
    OBVIOUS
  <2>4. /\ session \in Session /\ session.phase = "confirming" /\ session.source = n
        /\ session.approval = page[t].session.approval
    BY <1>5, <1>6, <2>3 DEF Session, Phase, Step
  <2>5. Consistent(session, page[t].snapshot, step, page[t].job, page[t].resume, n)
    BY <1>5, <1>6, <1>11, <2>2, <2>4 DEF Consistent, SessionOK, Following, Paying
  <2>6. Commit(t, session, page[t].snapshot, step)
    BY <1>4, <1>11, <2>1, <2>3 DEF Sign, Signed
  <2> QED BY <1>8, <2>2, <2>4, <2>5, <2>6
<1> QED BY <1>1, <1>9, <1>10, <1>11 DEF Prompting

\* The customer cancels or speeds up a transaction that is not mined yet.
LEMMA ReplacedEarns ==
  ASSUME EarnInv, NEW h \in DOMAIN broadcast, Replaced(h)
  PROVE  EarnInv'
<1>1. /\ UNCHANGED <<Chains, page, stored, account, prompts, jobs, started>> /\ Mishap
      /\ broadcast[h].status = "pending" /\ broadcast[h].receipt = 0
  BY DEF Replaced, Status, EarnInv, WorldOK, SignedOK
<1>2. /\ broadcast[h] \in Broadcast /\ DOMAIN broadcast = 1 .. Signed
      /\ broadcast \in Seq(Broadcast) /\ Signed \in Nat /\ Len(transactions) \in Nat
  BY TransactionOK, SignedNat
<1>3. PICK tx : tx = [broadcast[h] EXCEPT !.status = "dropped"]
  OBVIOUS
<1>4. tx \in Broadcast /\ tx.status = "dropped" /\ tx.receipt = 0
  BY <1>1, <1>2, <1>3 DEF Broadcast
<1>5. PICK dropped : dropped = [broadcast EXCEPT ![h] = tx]
  OBVIOUS
<1>6. /\ dropped \in Seq(Broadcast) /\ DOMAIN dropped = 1 .. Signed /\ Len(dropped) = Signed
      /\ dropped[h] = tx /\ \A g \in 1 .. Signed : g # h => dropped[g] = broadcast[g]
  <2> HIDE DEF Broadcast
  <2>1. dropped \in Seq(Broadcast)
    BY <1>2, <1>4, <1>5, ExceptSeq
  <2>2. DOMAIN dropped = DOMAIN broadcast
    BY <1>5
  <2>3. Len(dropped) = Signed
    BY <1>2, <2>1, <2>2, LenProperties
  <2> QED BY <1>2, <1>5, <2>1, <2>2, <2>3
<1>7. \A g \in 1 .. Signed :
        /\ dropped[g].status = "pending" => dropped[g].receipt = 0
        /\ dropped[g].receipt <= Len(transactions)
        /\ dropped[g].receipt = broadcast[g].receipt
  BY <1>1, <1>2, <1>4, <1>6 DEF EarnInv, WorldOK, SignedOK
<1>8. ChainsOK' /\ CountersOK' /\ \A p \in prompts' : WaitingInWallet(p)
  BY <1>1, ChainsStay, Uncounted, PromptsWait DEF CountersOK
<1>9. UNCHANGED transactions
  BY <1>1 DEF Chains, sepoliaVars
<1>10. CASE broadcast' = dropped
  <2>1. Signed' = Signed
    BY <1>6, <1>10 DEF Signed
  <2>2. SignedOK'
    BY <1>6, <1>7, <1>8, <1>9, <1>10, <2>1, SignedNat DEF SignedOK, Signed, WaitingInWallet
  <2>3. Extends
    BY <1>2, <1>6, <1>7, <1>9, <1>10 DEF Extends
  <2> QED BY <1>1, <1>2, <1>8, <2>1, <2>2, <2>3, WorldMovesAlone
<1>11. CASE broadcast' = Append(dropped, broadcast[h]) /\ Len(broadcast) < MaxBroadcast
  <2>1. /\ broadcast' \in Seq(Broadcast) /\ Len(broadcast') = Signed + 1
        /\ \A g \in 1 .. Signed : broadcast'[g] = dropped[g]
        /\ broadcast'[Signed + 1] = broadcast[h]
    <3> HIDE DEF Broadcast
    <3> QED BY <1>2, <1>6, <1>11, AppendProperties
  <2>2. Signed' = Signed + 1 /\ DOMAIN broadcast' = 1 .. (Signed + 1) /\ Signed <= Signed'
        /\ Len(broadcast') <= MaxBroadcast
    BY <1>2, <1>11, <2>1, LenProperties, Bounds DEF Signed
  <2>3. ASSUME NEW g \in DOMAIN broadcast'
        PROVE  /\ broadcast'[g].status = "pending" => broadcast'[g].receipt = 0
               /\ broadcast'[g].receipt <= Len(transactions)
    <3>1. CASE g \in 1 .. Signed
      BY <1>7, <2>1, <3>1
    <3>2. CASE g = Signed + 1
      BY <1>1, <1>2, <2>1, <3>2
    <3> QED BY <1>2, <2>2, <3>1, <3>2
  <2>4. SignedOK'
    BY <1>8, <1>9, <2>1, <2>2, <2>3 DEF SignedOK, WaitingInWallet
  <2>5. Extends
    BY <1>2, <1>7, <1>9, <2>1, <2>2 DEF Extends
  <2> QED BY <1>1, <1>8, <2>2, <2>4, <2>5, WorldMovesAlone
<1> QED BY <1>3, <1>5, <1>10, <1>11 DEF Replaced

\* What mining does to the chain: it may add one block, whose payment, if
\* any, is of the transaction's duration.
LEMMA MinedChain ==
  ASSUME EarnInv, NEW h \in DOMAIN broadcast, MineTransaction(h)
  PROVE  \E status \in {"mined", "reverted"}, receipt \in 0 .. MaxTransactions :
           /\ Settled(h, status, receipt) /\ ChainsOK' /\ receipt <= Len(transactions')
           /\ \A i \in DOMAIN transactions :
                i \in DOMAIN transactions' /\ transactions'[i] = transactions[i]
<1> DEFINE tx == broadcast[h]
<1>1. /\ tx \in Broadcast /\ Registry \in Spender /\ tx.from \in Account
      /\ tx.amount \in Amount /\ tx.duration \in LegalDuration
  BY TransactionOK, TokenAssumption DEF Broadcast, Account
<1>2. /\ machineOffers \in [OrZero(Machine) -> Offer]
      /\ allowance \in [Account -> [Spender -> Amount]]
      /\ Len(transactions) \in Nat /\ DOMAIN transactions = 1 .. Len(transactions)
      /\ \A i \in DOMAIN transactions : \A l \in RegistryLogs(transactions[i]) :
           l.duration \in LegalDuration
  BY TransactionOK DEF EarnInv, WorldOK, ChainsOK
<1>3. PICK S : transactions \in Seq(S)
  BY DEF EarnInv, WorldOK, ChainsOK
<1>4. 0 \in 0 .. MaxTransactions
  BY Bounds
<1>5. CASE tx.kind = "mint"
  <2>1. Settled(h, "mined", 0) /\ UNCHANGED <<registryVars, transactions, allowance>>
    BY <1>5 DEF MineTransaction, Mint
  <2>2. ChainsOK'
    BY <1>2, <1>3, <2>1 DEF ChainsOK, registryVars
  <2> QED BY <1>2, <1>4, <2>1, <2>2
<1>6. CASE tx.kind = "approve"
  <2>1. /\ Settled(h, "mined", 0) /\ UNCHANGED <<registryVars, transactions>>
        /\ allowance' = [allowance EXCEPT ![tx.from][Registry] = tx.amount]
    BY <1>6 DEF MineTransaction, Approve
  <2>2. allowance' \in [Account -> [Spender -> Amount]]
    BY <1>1, <1>2, <2>1
  <2>3. ChainsOK'
    BY <1>2, <1>3, <2>1, <2>2 DEF ChainsOK, registryVars
  <2> QED BY <1>2, <1>4, <2>1, <2>3
<1>7. CASE Settled(h, "reverted", 0) /\ UNCHANGED sepoliaVars
  <2>1. UNCHANGED <<transactions, machineOffers, allowance>>
    BY <1>7 DEF sepoliaVars, registryVars, tokenVars
  <2>2. ChainsOK'
    BY <1>2, <1>3, <2>1 DEF ChainsOK
  <2> QED BY <1>2, <1>4, <1>7, <2>1, <2>2
<1>8. CASE /\ PayForUsage(tx.from, tx.from, RentedMachine, tx.duration, h)
           /\ Settled(h, "mined", Len(transactions) + 1)
  <2> DEFINE amount == machineOffers[RentedMachine].pricePerSecond * tx.duration
  <2>1. PICK log, block :
          /\ block.logs = <<log>> /\ log.duration = tx.duration
          /\ Mine(block)
    BY <1>8 DEF PayForUsage
  <2>2. /\ Len(transactions) < MaxTransactions
        /\ transactions' = Append(transactions, block)
    BY <2>1 DEF Mine
  <2>3. PICK T : T = S \cup {block}
    OBVIOUS
  <2>4. transactions \in Seq(T) /\ block \in T
    BY <1>3, <2>3, SeqGrows
  <2>5. /\ transactions' \in Seq(T) /\ Len(transactions') = Len(transactions) + 1
        /\ \A i \in 1 .. Len(transactions) : transactions'[i] = transactions[i]
        /\ transactions'[Len(transactions) + 1] = block
        /\ DOMAIN transactions' = 1 .. (Len(transactions) + 1)
    BY <2>2, <2>4, AppendProperties, LenProperties
  <2>6. \A l \in RegistryLogs(block) : l.duration \in LegalDuration
    <3>1. DOMAIN block.logs = {1} /\ block.logs[1] = log
      BY <2>1
    <3> QED BY <1>1, <2>1, <3>1 DEF RegistryLogs
  <2>7. ASSUME NEW i \in DOMAIN transactions', NEW l \in RegistryLogs(transactions'[i])
        PROVE  l.duration \in LegalDuration
    BY <1>2, <2>5, <2>6, <2>7
  <2>8. /\ TransferFrom(Registry, tx.from, machineOffers[RentedMachine].beneficiary, amount)
        /\ UNCHANGED machineOffers
    BY <1>8 DEF PayForUsage
  <2>9. amount \in Amount
    <3>1. machineOffers[RentedMachine].pricePerSecond \in Price
      BY <1>2, Bounds DEF Offer
    <3> QED BY <1>1, <3>1, TokenAssumption DEF LegalDuration
  <2>10. allowance' \in [Account -> [Spender -> Amount]]
    BY <1>1, <1>2, <2>8, <2>9, TokenAssumption DEF TransferFrom, Amount
  <2>11. ChainsOK'
    BY <1>2, <2>5, <2>7, <2>8, <2>10 DEF ChainsOK
  <2>12. Len(transactions) + 1 \in 0 .. MaxTransactions
    BY <1>2, <2>2, Bounds
  <2> QED BY <1>2, <1>8, <2>5, <2>11, <2>12
<1> QED BY <1>5, <1>6, <1>7, <1>8 DEF MineTransaction

LEMMA MineEarns ==
  ASSUME EarnInv, NEW h \in DOMAIN broadcast, MineTransaction(h)
  PROVE  EarnInv'
<1>1. /\ UNCHANGED <<page, stored, account, prompts, jobs, started, mishaps>>
      /\ broadcast[h].status = "pending" /\ broadcast[h].receipt = 0
  BY DEF MineTransaction, Oldest, Status, EarnInv, WorldOK, SignedOK
<1>2. /\ broadcast[h] \in Broadcast /\ DOMAIN broadcast = 1 .. Signed
      /\ broadcast \in Seq(Broadcast) /\ Signed \in Nat /\ Len(transactions) \in Nat
      /\ DOMAIN transactions = 1 .. Len(transactions)
      /\ \A g \in DOMAIN broadcast : broadcast[g] \in Broadcast
  BY TransactionOK, SignedNat
<1>3. PICK status \in {"mined", "reverted"}, receipt \in 0 .. MaxTransactions :
        /\ Settled(h, status, receipt) /\ ChainsOK' /\ receipt <= Len(transactions')
        /\ \A i \in DOMAIN transactions :
             i \in DOMAIN transactions' /\ transactions'[i] = transactions[i]
  BY MinedChain
<1>4. PICK tx : tx = [broadcast[h] EXCEPT !.status = status, !.receipt = receipt]
  OBVIOUS
<1>5. tx \in Broadcast /\ tx.status # "pending" /\ tx.receipt = receipt
  BY <1>2, <1>3, <1>4 DEF Broadcast
<1>6. broadcast' = [broadcast EXCEPT ![h] = tx]
  BY <1>3, <1>4 DEF Settled
<1>7. /\ broadcast' \in Seq(Broadcast) /\ DOMAIN broadcast' = 1 .. Signed /\ Signed' = Signed
      /\ broadcast'[h] = tx /\ \A g \in 1 .. Signed : g # h => broadcast'[g] = broadcast[g]
  <2> HIDE DEF Broadcast
  <2>1. broadcast' \in Seq(Broadcast)
    BY <1>2, <1>5, <1>6, ExceptSeq
  <2>2. DOMAIN broadcast' = DOMAIN broadcast
    BY <1>6
  <2>3. Len(broadcast') = Signed
    BY <1>2, <2>1, <2>2, LenProperties
  <2> QED BY <1>2, <1>6, <2>1, <2>2, <2>3 DEF Signed
<1>8. Len(transactions) <= Len(transactions') /\ Len(transactions') \in Nat
  <2>1. Len(transactions') \in Nat /\ DOMAIN transactions' = 1 .. Len(transactions')
    BY <1>3, LenProperties DEF ChainsOK
  <2> QED BY <1>2, <1>3, <2>1
<1>9. ASSUME NEW g \in DOMAIN broadcast'
      PROVE  /\ broadcast'[g].status = "pending" => broadcast'[g].receipt = 0
             /\ broadcast'[g].receipt <= Len(transactions')
  <2>1. CASE g = h
    BY <1>3, <1>5, <1>7, <2>1
  <2>2. CASE g # h
    <3>1. broadcast'[g] = broadcast[g] /\ broadcast[g] \in Broadcast
      BY <1>2, <1>7, <2>2
    <3>2. broadcast[g].receipt \in 0 .. MaxTransactions
      BY <3>1 DEF Broadcast
    <3>3. /\ broadcast[g].status = "pending" => broadcast[g].receipt = 0
          /\ broadcast[g].receipt <= Len(transactions)
      BY <1>2, <1>7 DEF EarnInv, WorldOK, SignedOK
    <3> QED BY <1>2, <1>8, <3>1, <3>2, <3>3
  <2> QED BY <2>1, <2>2
<1>10. SignedOK'
  BY <1>1, <1>7, <1>9, SignedNat, PromptsWait DEF SignedOK, Signed, WaitingInWallet
<1>11. Extends
  BY <1>1, <1>2, <1>3, <1>7 DEF Extends
<1>12. CountersOK' /\ Signed <= Signed'
  BY <1>1, <1>7, Uncounted, SignedNat DEF CountersOK
<1> QED BY <1>1, <1>3, <1>10, <1>11, <1>12, WorldMovesAlone

LEMMA TermsEarn ==
  ASSUME EarnInv, TermsChange
  PROVE  EarnInv'
<1>1. UNCHANGED <<page, stored, account, broadcast, prompts, jobs, started>> /\ Mishap
  BY DEF TermsChange
<1>2. UNCHANGED <<transactions, allowance>> /\ machineOffers' \in [OrZero(Machine) -> Offer]
  <2>1. machineOffers \in [OrZero(Machine) -> Offer] /\ RentedMachine \in OrZero(Machine)
    BY Bounds DEF EarnInv, WorldOK, ChainsOK
  <2>2. CASE UNCHANGED sepoliaVars
    BY <2>1, <2>2 DEF sepoliaVars, registryVars, tokenVars
  <2>3. CASE \E p \in Price, active \in BOOLEAN :
               SetMachineOffer(owner, RentedMachine, TheOffer.beneficiary, p, active)
    <3>1. PICK p \in Price, active \in BOOLEAN :
            SetMachineOffer(owner, RentedMachine, TheOffer.beneficiary, p, active)
      BY <2>3
    <3>2. [beneficiary |-> TheOffer.beneficiary, pricePerSecond |-> p, active |-> active] \in Offer
      BY <2>1 DEF TheOffer, Offer
    <3> QED BY <2>1, <3>1, <3>2 DEF SetMachineOffer, tokenVars
  <2> QED BY <2>2, <2>3 DEF TermsChange
<1>3. ChainsOK' /\ CountersOK'
  BY <1>1, <1>2, Uncounted DEF EarnInv, WorldOK, ChainsOK, CountersOK
<1>4. SignedOK' /\ Extends /\ Signed <= Signed'
  BY <1>1, <1>2, SignedNat DEF EarnInv, WorldOK, SignedOK, Extends, Signed
<1> QED BY <1>1, <1>3, <1>4, WorldMovesAlone

\* A reload, or a link: the link's payment is the one the page now holds.
LEMMA OpenEarns ==
  ASSUME EarnInv, NEW t \in Tab, NEW resume \in 0 .. MaxBroadcast, resume <= Signed,
         Open(t, resume)
  PROVE  EarnInv'
<1>1. UNCHANGED <<Chains, account, broadcast, jobs, started>> /\ Mishap
  BY DEF Open
<1>2. PICK session :
        /\ session \in Session /\ SessionOK(session, Signed)
        /\ resume # 0 => session.source = resume
        /\ page' = [page EXCEPT ![t] = Loaded(session, resume)]
        /\ stored' = stored \/ stored' = <<session>>
  <2>1. parseRentalSession \in Session /\ SessionOK(parseRentalSession, Signed)
    <3>1. CASE stored = <<>>
      BY <3>1, Bounds, SignedNat DEF parseRentalSession, createRentalSession, Session, Phase,
         OrZero, SessionOK
    <3>2. CASE stored # <<>>
      <4>1. PICK s \in Session : SessionOK(s, Signed) /\ stored = <<s>>
        BY <3>2 DEF EarnInv, StoredOK
      <4> QED BY <4>1 DEF parseRentalSession
    <3> QED BY <3>1, <3>2
  <2>2. CASE Resumes(parseRentalSession, resume)
    <3>1. account \in OrZero(Renter)
      BY Uncounted
    <3>2. PICK session : session = Resumed(resume, account)
      OBVIOUS
    <3>3. /\ session \in Session /\ session.phase = "confirming" /\ session.source = resume
          /\ session.approval = 0
      BY <3>1, <3>2, ResumedSession
    <3>4. SessionOK(session, Signed)
      BY <3>3, SignedNat DEF SessionOK
    <3> QED BY <2>2, <3>2, <3>3, <3>4 DEF Open
  <2>3. CASE ~ Resumes(parseRentalSession, resume)
    BY <2>1, <2>3 DEF Open, Resumes
  <2> QED BY <2>2, <2>3
<1>3. PageOK(Loaded(session, resume), Signed)
  <2>1. PICK p : p = Loaded(session, resume)
    OBVIOUS
  <2>2. /\ Idle \in Step /\ NoSnapshot \in Snapshot /\ "none" \in JobPhase
        /\ Listing \in Price
    BY IdleStep, ListingPrice DEF JobPhase
  <2>3. /\ p \in Page /\ p.session = session /\ p.snapshot = NoSnapshot /\ p.step = Idle
        /\ p.job = "none" /\ p.resume = resume
    BY <1>2, <2>1, <2>2 DEF Loaded, Page
  <2>4. Consistent(session, NoSnapshot, Idle, "none", resume, Signed)
    BY <1>2, IdleStep, SignedNat DEF Consistent, SessionOK
  <2> QED BY <2>1, <2>3, <2>4 DEF PageOK
<1>4. PagesKept(Signed)
  <2>1. StoredOK(stored', Signed)
    BY <1>2 DEF StoredOK, EarnInv
  <2> QED BY <1>2, <1>3, <2>1, SignedNat, OnePageMoves
<1>5. \A p \in prompts' : WaitingInWallet(p)
  BY RequestOK, PromptsWait DEF Open
<1>6. SignedOK' /\ Extends /\ Signed' = Signed
  BY <1>1, <1>5, SignedNat
     DEF EarnInv, WorldOK, SignedOK, Extends, Signed, WaitingInWallet, Chains, sepoliaVars
<1>7. ChainsOK' /\ CountersOK'
  BY <1>1, ChainsStay, Uncounted DEF CountersOK
<1> QED BY <1>1, <1>4, <1>6, <1>7, WorldMoves

-----------------------------------------------------------------------------
LEMMA EarnInit == CheckoutInit => EarnInv
<1> SUFFICES ASSUME CheckoutInit PROVE EarnInv
  OBVIOUS
<1>1. /\ transactions = <<>> /\ stored = <<>> /\ account = Zero /\ broadcast = <<>>
      /\ prompts = {} /\ jobs = [h \in Hash |-> "none"] /\ started = 1 /\ mishaps = 0
      /\ page = [t \in Tab |-> Loaded(createRentalSession, 0)]
  BY DEF CheckoutInit
<1>2. /\ transactions \in Seq({}) /\ DOMAIN transactions = {} /\ Len(transactions) = 0
      /\ broadcast \in Seq(Broadcast) /\ DOMAIN broadcast = {} /\ Len(broadcast) = 0
  BY <1>1, EmptySeq
<1>3. machineOffers \in [OrZero(Machine) -> Offer]
  <2>1. PICK op \in Operator, p \in Price :
          machineOffers = [m \in OrZero(Machine) |-> IF m # RentedMachine THEN NoOffer ELSE
             [beneficiary |-> op, pricePerSecond |-> p, active |-> TRUE]]
    BY DEF CheckoutInit, PublishedInit
  <2>2. NoOffer \in Offer
    BY BoundsAreNat DEF NoOffer, Offer, OrZero, Price
  <2>3. [beneficiary |-> op, pricePerSecond |-> p, active |-> TRUE] \in Offer
    BY DEF Offer, OrZero
  <2> QED BY <2>1, <2>2, <2>3
<1>4. allowance \in [Account -> [Spender -> Amount]]
  <2>1. PICK left \in {0, MaxPrice * MaxDuration} :
          allowance = [a \in Account |-> [s \in Spender |->
                        IF a \in Renter /\ s = Registry THEN left ELSE 0]]
    BY DEF CheckoutInit
  <2>2. 0 \in Amount /\ MaxPrice * MaxDuration \in Amount
    BY TokenAssumption, BoundsAreNat DEF Amount, Price
  <2> QED BY <2>1, <2>2
<1>5. ChainsOK
  BY <1>2, <1>3, <1>4 DEF ChainsOK
<1>6. SignedOK /\ JobsOK /\ CountersOK
  BY <1>1, <1>2, CheckoutAssumption DEF SignedOK, JobsOK, CountersOK, JobPhase, OrZero
<1>7. /\ createRentalSession \in Session /\ createRentalSession.phase = "duration"
      /\ createRentalSession.source = 0 /\ createRentalSession.approval = 0
  BY Bounds DEF createRentalSession, Session, Phase, OrZero
<1>8. Listing \in Price
  BY <1>3, Bounds, BoundsAreNat DEF Listing, TheOffer, Offer, Price
<1>9. PageOK(Loaded(createRentalSession, 0), Signed)
  <2>1. PICK session, p : session = createRentalSession /\ p = Loaded(session, 0)
    OBVIOUS
  <2>2. Idle \in Step /\ NoSnapshot \in Snapshot /\ "none" \in JobPhase /\ 0 \in 0 .. MaxBroadcast
    BY IdleStep, Bounds DEF JobPhase
  <2>3. /\ p \in Page /\ p.session = session /\ p.snapshot = NoSnapshot /\ p.step = Idle
        /\ p.job = "none" /\ p.resume = 0
    BY <1>7, <1>8, <2>1, <2>2 DEF Loaded, Page
  <2>4. Consistent(session, NoSnapshot, Idle, "none", 0, Signed)
    BY <1>2, <1>7, <2>1, IdleStep DEF Consistent, SessionOK, Signed
  <2> QED BY <2>1, <2>3, <2>4 DEF PageOK
<1>10. page \in [Tab -> Page] /\ \A t \in Tab : PageOK(page[t], Signed)
  BY <1>1, <1>9 DEF PageOK
<1> QED BY <1>1, <1>5, <1>6, <1>10 DEF EarnInv, WorldOK, StoredOK

LEMMA EarnNext == EarnInv /\ [Next]_vars => EarnInv'
<1> SUFFICES ASSUME EarnInv, [Next]_vars PROVE EarnInv'
  OBVIOUS
<1>1. CASE \E t \in Tab : Customer(t)
  <2>1. PICK t \in Tab : Customer(t)
    BY <1>1
  <2>2. CASE ConnectWallet(t)
    <3>1. PICK a \in Renter : Connected(a)
      BY <2>2 DEF ConnectWallet
    <3> QED BY <2>2, <3>1, ConnectedEarns DEF ConnectWallet, OrZero
  <2> QED BY <2>1, <2>2, EditEarns, AskEarns DEF Customer
<1>2. CASE \E t \in Tab : Answer(t)
  BY <1>2, InspectEarns, WaitEarns, PromptEarns, PaymentEarns, EnqueuedEarns, PolledEarns
     DEF Answer
<1>3. CASE \E t \in Tab :
             \/ Sign(t) \/ Refetch(t) \/ StartAnother(t) \/ Fault(t) \/ Declined(t)
             \/ EditDuration(t) \/ \E d \in LegalDuration : ApplyDuration(t, d)
  BY <1>3, SignEarns, RefetchEarns, StartAnotherEarns, FaultEarns, DeclinedEarns, EditEarns
<1>4. CASE \E t \in Tab : \E resume \in {0, page[t].resume} \cup
             {h \in DOMAIN broadcast : broadcast[h].kind = "pay"} : Open(t, resume)
  <2>1. PICK t \in Tab :
          \E resume \in {0, page[t].resume} \cup
            {h \in DOMAIN broadcast : broadcast[h].kind = "pay"} : Open(t, resume)
    BY <1>4
  <2>2. PICK resume \in {0, page[t].resume} \cup
               {h \in DOMAIN broadcast : broadcast[h].kind = "pay"} : Open(t, resume)
    BY <2>1
  <2>3. resume \in 0 .. MaxBroadcast /\ resume <= Signed
    <3>1. page[t].resume \in 0 .. MaxBroadcast /\ page[t].resume <= Signed
      BY PageFacts DEF Consistent
    <3>2. DOMAIN broadcast = 1 .. Signed /\ Signed \in Nat /\ Signed <= MaxBroadcast
      BY TransactionOK, SignedNat
    <3> QED BY <3>1, <3>2, Bounds
  <2> QED BY <2>2, <2>3, OpenEarns
<1>5. CASE \/ \E p \in prompts : OrphanSigned(p)
           \/ \E h \in DOMAIN broadcast : MineTransaction(h) \/ Replaced(h) \/ RelayFinishes(h)
           \/ TermsChange
  BY <1>5, OrphanEarns, MineEarns, ReplacedEarns, RelayEarns, TermsEarn
<1>6. CASE \E a \in OrZero(Renter) : AccountChange(a)
  BY <1>6, ConnectedEarns DEF AccountChange
<1>7. CASE UNCHANGED vars
  BY <1>7, PagesStay, LocalKeeps, Uncounted DEF vars, checkoutVars, Chains
<1> QED BY <1>1, <1>2, <1>3, <1>4, <1>5, <1>6, <1>7 DEF Next

(***************************************************************************)
(* What the pages, the record of the browser, the wallet's transactions    *)
(* and the relay's jobs may hold in any reachable state.                   *)
(***************************************************************************)
THEOREM CheckoutInvariant == Spec => []EarnInv
BY EarnInit, EarnNext, PTL DEF Spec

(***************************************************************************)
(* Access is shown for settled payments only: whatever pages are open, and *)
(* whatever links, reloads, accounts or replaced transactions they meet, a *)
(* page that reports access holds a payment the chain settled and the      *)
(* relay carried over (RentPage.tsx takes both from the answers it polls). *)
(***************************************************************************)
THEOREM AccessIsPaidFor == Spec => []AccessIsEarned
<1>1. EarnInv => AccessIsEarned
  <2> SUFFICES ASSUME EarnInv, NEW t \in Tab,
                      page[t].session.phase = "access" \/ "unlock" \in Journey(t)
               PROVE  Earned(page[t].session.source)
    BY EarnedTypes DEF AccessIsEarned, Earned
  <2>1. page[t].session.phase = "access" \/ page[t].job = "completed"
    BY DEF Journey, progressFromJob
  <2> QED BY <2>1, PageFacts DEF Consistent, SessionOK
<1> QED BY <1>1, CheckoutInvariant, PTL

\* The type invariant is a part of it.
THEOREM CheckoutTypes == Spec => []CheckoutTypeOK
<1>1. EarnInv => CheckoutTypeOK
  BY DEF EarnInv, WorldOK, SignedOK, JobsOK, CountersOK, StoredOK, CheckoutTypeOK
<1> QED BY <1>1, CheckoutInvariant, PTL

-----------------------------------------------------------------------------
(* The approval caps the charge, with one page.  Unless an approval was    *)
(* signed behind its back, the page that has approved its total and is     *)
(* about to have the payment signed knows that the registry's allowance is *)
(* no more and that no other approval is on its way; and once the payment  *)
(* is signed, an approval can only be mined after it.                      *)

NoLostApproval ==
  \A g \in DOMAIN broadcast : broadcast[g].kind = "approve" => ~broadcast[g].lost

\* A nonce is spent by one transaction, and the newest is the largest.
NoncesOK ==
  /\ \A h \in DOMAIN broadcast : broadcast[h].nonce <= h
  /\ \A g, h \in DOMAIN broadcast :
       /\ broadcast[g].status = "pending" /\ broadcast[h].status = "pending"
       /\ broadcast[g].nonce = broadcast[h].nonce
       => g = h

\* Approvals of an account that may still be mined.
Approvals(a) ==
  {g \in DOMAIN broadcast :
     broadcast[g].kind = "approve" /\ broadcast[g].from = a /\ broadcast[g].status = "pending"}

Allowed(a) == allowance[a][Registry]
Exact(a, amount) == Allowed(a) <= amount /\ Approvals(a) = {}

\* The approval a page waits for is the account's last.
LastApproval(h, a, amount) ==
  /\ h \in DOMAIN broadcast
  /\ broadcast[h].kind = "approve" /\ broadcast[h].from = a /\ broadcast[h].amount = amount
  /\ \A g \in Approvals(a) : broadcast[g].nonce <= broadcast[h].nonce
  /\ broadcast[h].status = "mined" => Exact(a, amount)

StepCapped(s) ==
  /\ s.at \in {"approvalWait", "checking"} => ~s.approved
  /\ s.at = "approveWait" => LastApproval(s.hash, s.account, Amounts(s))
  /\ s.at = "payPrompt" /\ s.approved => Exact(s.account, Amounts(s))

TxCapped(h) ==
  broadcast[h].kind = "pay" /\ broadcast[h].approved /\ ~broadcast[h].lost =>
    /\ broadcast[h].status = "pending" =>
         /\ Allowed(broadcast[h].from) <= broadcast[h].amount
         /\ \A g \in Approvals(broadcast[h].from) : broadcast[h].nonce < broadcast[g].nonce
    /\ broadcast[h].status = "mined" =>
         \A log \in ReceiptPayments(h) : log.amount <= broadcast[h].amount

CapInv(t) ==
  /\ NoncesOK
  /\ NoLostApproval => StepCapped(page[t].step) /\ \A h \in DOMAIN broadcast : TxCapped(h)

-----------------------------------------------------------------------------
\* Steps that leave the transactions and the allowances alone.
LEMMA QuietCaps ==
  ASSUME NEW t, CapInv(t), UNCHANGED <<allowance, broadcast, transactions>>,
         NoLostApproval /\ StepCapped(page[t].step) => StepCapped(page'[t].step)
  PROVE  CapInv(t)'
<1>1. NoncesOK' /\ (NoLostApproval' <=> NoLostApproval)
  BY DEF CapInv, NoncesOK, NoLostApproval
<1>2. \A a : Allowed(a)' = Allowed(a) /\ Approvals(a)' = Approvals(a)
  BY DEF Allowed, Approvals
<1>3. \A a, amount : Exact(a, amount)' <=> Exact(a, amount)
  BY <1>2 DEF Exact
<1>4. \A h, a, amount : LastApproval(h, a, amount)' <=> LastApproval(h, a, amount)
  BY <1>2, <1>3 DEF LastApproval
<1>5. PICK s : s = page'[t].step
  OBVIOUS
<1>6. StepCapped(s) => StepCapped(page[t].step)'
  BY <1>3, <1>4, <1>5 DEF StepCapped, Amounts
<1>7. \A h \in DOMAIN broadcast : TxCapped(h)' <=> TxCapped(h)
  BY <1>2 DEF TxCapped, ReceiptPayments
<1> QED BY <1>1, <1>5, <1>6, <1>7 DEF CapInv

Unwatched(s) == s.at \notin {"approvalWait", "checking", "approveWait", "payPrompt"}

LEMMA UnwatchedSteps == \A s : Unwatched(s) => StepCapped(s)
BY DEF Unwatched, StepCapped

LEMMA StepsSet ==
  ASSUME EarnInv, NEW t \in Tab
  PROVE  /\ \A session, snapshot, step :
              Commit(t, session, snapshot, step) => page'[t].step = step
         /\ \A step : Await(t, step) => page'[t].step = step
         /\ Paused(t) => page'[t].step = Idle
         /\ Idle.at = "idle" /\ Unwatched(Idle) /\ page[t].step \in Step
<1>1. page \in [Tab -> Page] /\ page[t] \in Page /\ page[t].step \in Step /\ Idle.at = "idle"
  BY PageFacts, IdleStep DEF EarnInv
<1> HIDE DEF Idle, Session, Snapshot, Step
<1> QED BY <1>1 DEF Commit, Await, Paused, Unwatched, Page

LEMMA StepLeaves ==
  ASSUME EarnInv, NEW t \in Tab, CapInv(t), UNCHANGED <<Chains, broadcast>>,
         Unwatched(page'[t].step) \/ page'[t].step = page[t].step
  PROVE  CapInv(t)'
<1>1. UNCHANGED <<allowance, broadcast, transactions>>
  BY DEF Chains, sepoliaVars, tokenVars
<1>2. StepCapped(page[t].step) => StepCapped(page'[t].step)
  BY UnwatchedSteps
<1> QED BY <1>1, <1>2, QuietCaps

LEMMA StepPaused ==
  ASSUME EarnInv, NEW t \in Tab, CapInv(t), Paused(t), UNCHANGED <<Chains, broadcast>>
  PROVE  CapInv(t)'
BY StepsSet, StepLeaves

\* The buttons.
LEMMA ButtonsCap ==
  ASSUME EarnInv, NEW t \in Tab, CapInv(t),
         \/ \E d \in LegalDuration : ApplyDuration(t, d)
         \/ \E d \in Duration : Review(t, d)
         \/ EditDuration(t) \/ ContinueToPayment(t) \/ StartAnother(t)
         \/ Inspect(t) \/ GetTestTokens(t) \/ PayOrResume(t)
  PROVE  CapInv(t)'
<1>1. UNCHANGED <<Chains, broadcast>>
  BY DEF ApplyDuration, Review, EditDuration, ContinueToPayment, StartAnother, Inspect,
         GetTestTokens, PayOrResume, Local
<1>2. CASE \/ \E d \in LegalDuration : ApplyDuration(t, d)
           \/ \E d \in Duration : Review(t, d)
           \/ EditDuration(t) \/ ContinueToPayment(t)
  <2>1. page'[t].step \in {Idle, page[t].step}
    BY <1>2, StepsSet DEF ApplyDuration, Review, EditDuration, ContinueToPayment
  <2> QED BY <1>1, <2>1, StepsSet, StepLeaves
<1>3. CASE StartAnother(t)
  <2>1. page'[t].step = page[t].step
    <3>1. page[t] \in Page /\ page \in [Tab -> Page]
      BY PageFacts DEF EarnInv
    <3> HIDE DEF Session, Snapshot, Step, JobPhase
    <3> QED BY <1>3, <3>1 DEF StartAnother, Page
  <2> QED BY <1>1, <2>1, StepLeaves
<1>4. ASSUME NEW at, NEW hash
      PROVE  /\ Captured(t, at).at = at /\ Captured(t, at).approved = FALSE
             /\ [Captured(t, at) EXCEPT !.hash = hash].at = at
             /\ [Captured(t, at) EXCEPT !.hash = hash].approved = FALSE
  BY DEF Captured, Idle
<1>5. CASE Inspect(t) \/ GetTestTokens(t)
  <2>1. PICK at \in {"inspecting", "mintPrompt"} : Await(t, Captured(t, at))
    BY <1>5 DEF Inspect, GetTestTokens
  <2>2. PICK step : step = Captured(t, at)
    OBVIOUS
  <2>3. step.at = at /\ page'[t].step = step
    BY <1>4, <2>1, <2>2, StepsSet
  <2> QED BY <1>1, <2>3, StepLeaves DEF Unwatched
<1>6. CASE PayOrResume(t)
  <2>1. PICK at \in {"recovering", "approvalWait", "checking"} : \E step, hash :
          /\ Await(t, step)
          /\ step = Captured(t, at) \/ step = [Captured(t, at) EXCEPT !.hash = hash]
    <3>1. CASE page[t].session.source # 0
      BY <1>6, <3>1 DEF PayOrResume, CanRecover
    <3>2. CASE page[t].session.source = 0 /\ page[t].session.approval # 0
      BY <1>6, <3>2 DEF PayOrResume, CanRecover
    <3>3. CASE page[t].session.source = 0 /\ page[t].session.approval = 0
      BY <1>6, <3>3 DEF PayOrResume, CanRecover
    <3> QED BY <3>1, <3>2, <3>3
  <2>2. page'[t].step.at = at /\ page'[t].step.approved = FALSE
    <3>1. PICK step, hash :
          /\ Await(t, step)
          /\ step = Captured(t, at) \/ step = [Captured(t, at) EXCEPT !.hash = hash]
      BY <2>1
    <3>2. step.at = at /\ step.approved = FALSE
      BY <3>1 DEF Captured, Idle
    <3> QED BY <3>1, <3>2, StepsSet
  <2>3. StepCapped(page'[t].step)
    BY <2>2 DEF StepCapped
  <2> QED BY <1>1, <2>3, QuietCaps DEF Chains, sepoliaVars, tokenVars
<1> QED BY <1>2, <1>3, <1>5, <1>6

\* The answers.
LEMMA AnswersCap ==
  ASSUME EarnInv, NEW t \in Tab, CapInv(t), Answer(t) \/ Fault(t)
  PROVE  CapInv(t)'
<1> DEFINE old == page[t].step
<1>1. UNCHANGED <<Chains, broadcast>>
  BY DEF Answer, Fault, InspectAnswer, ApprovalKnown, Check, ApprovalMined, MintMined,
         PaymentKnown, Enqueued, Polled, Local
<1>2. CASE Paused(t)
  BY <1>1, <1>2, StepPaused
<1>3. old \in Step
  BY StepsSet
<1>4. ASSUME NEW at
      PROVE  /\ [old EXCEPT !.at = at].at = at /\ [old EXCEPT !.at = at].approved = old.approved
             /\ [old EXCEPT !.at = at, !.approved = TRUE].at = at
             /\ [old EXCEPT !.at = at, !.approved = TRUE].account = old.account
             /\ Amounts([old EXCEPT !.at = at, !.approved = TRUE]) = Amounts(old)
  BY <1>3 DEF Step, Amounts
<1>5. ASSUME NEW step, NEW at \in {"approvePrompt", "reinspecting", "enqueueing", "polling"},
             step = [old EXCEPT !.at = at], page'[t].step = step
      PROVE  CapInv(t)'
  <2>1. Unwatched(step)
    BY <1>4, <1>5 DEF Unwatched
  <2> QED BY <1>1, <1>5, <2>1, StepLeaves
<1>6. CASE InspectAnswer(t)
  <2>1. page'[t].step = Idle
    <3>1. page[t] \in Page /\ page \in [Tab -> Page]
      BY PageFacts DEF EarnInv
    <3>2. CASE \E gas \in BOOLEAN : \E session \in {[page[t].session EXCEPT !.phase = "funds",
                                                       !.account = old.account]} :
                 Commit(t, session, Inspected(old, gas), Idle)
      BY <3>2, StepsSet
    <3>3. CASE Paused(t)
      BY <3>3, StepsSet
    <3>4. ASSUME NEW gas \in BOOLEAN,
                 page' = [page EXCEPT ![t] = [page[t] EXCEPT
                            !.snapshot = Inspected(old, gas), !.step = Idle]]
          PROVE  page'[t].step = Idle
      <4> HIDE DEF Session, Snapshot, Step, JobPhase, Idle
      <4> QED BY <3>1, <3>4 DEF Page
    <3> QED BY <1>6, <3>2, <3>3, <3>4 DEF InspectAnswer
  <2> QED BY <1>1, <2>1, StepsSet, StepLeaves
<1>7. CASE ApprovalKnown(t)
  <2>1. CASE Await(t, [old EXCEPT !.at = "checking"])
    <3>0. PICK step : step = [old EXCEPT !.at = "checking"]
      OBVIOUS
    <3>1. page'[t].step.at = "checking" /\ page'[t].step.approved = old.approved
      <4>1. step.at = "checking" /\ step.approved = old.approved
        BY <1>4, <3>0
      <4> QED BY <2>1, <3>0, <4>1, StepsSet
    <3>2. old.at = "approvalWait"
      BY <1>7 DEF ApprovalKnown
    <3>3. StepCapped(old) => StepCapped(page'[t].step)
      BY <3>1, <3>2 DEF StepCapped
    <3> QED BY <1>1, <3>3, QuietCaps DEF Chains, sepoliaVars, tokenVars
  <2> QED BY <1>2, <1>7, <2>1 DEF ApprovalKnown
<1>8. CASE Check(t)
  <2>1. CASE \E session \in {[page[t].session EXCEPT !.phase = "approving",
                                !.account = old.account]} :
               Commit(t, session, page[t].snapshot, [old EXCEPT !.at = "approvePrompt"])
    BY <1>5, <2>1, StepsSet
  <2>2. CASE \E session \in {[page[t].session EXCEPT !.phase = "payment",
                                !.account = old.account]} :
               Commit(t, session, page[t].snapshot, [old EXCEPT !.at = "payPrompt"])
    <3>0. PICK step : step = [old EXCEPT !.at = "payPrompt"]
      OBVIOUS
    <3>1. page'[t].step.at = "payPrompt" /\ page'[t].step.approved = old.approved
      <4>1. step.at = "payPrompt" /\ step.approved = old.approved
        BY <1>4, <3>0
      <4> QED BY <2>2, <3>0, <4>1, StepsSet
    <3>2. old.at = "checking"
      BY <1>8 DEF Check
    <3>3. StepCapped(old) => StepCapped(page'[t].step)
      BY <3>1, <3>2 DEF StepCapped
    <3> QED BY <1>1, <3>3, QuietCaps DEF Chains, sepoliaVars, tokenVars
  <2> QED BY <1>2, <1>8, <2>1, <2>2 DEF Check
<1>9. CASE ApprovalMined(t)
  <2>1. CASE \E session \in {[page[t].session EXCEPT !.phase = "payment",
                                !.account = old.account]} :
               /\ broadcast[old.hash].status = "mined"
               /\ Commit(t, session, page[t].snapshot,
                         [old EXCEPT !.at = "payPrompt", !.approved = TRUE])
    <3>1. /\ page'[t].step.at = "payPrompt" /\ page'[t].step.account = old.account
          /\ Amounts(page'[t].step) = Amounts(old) /\ broadcast[old.hash].status = "mined"
      <4>1. PICK step : step = [old EXCEPT !.at = "payPrompt", !.approved = TRUE]
        OBVIOUS
      <4>2. step.at = "payPrompt" /\ step.account = old.account /\ Amounts(step) = Amounts(old)
        BY <1>4, <4>1
      <4> QED BY <2>1, <4>1, <4>2, StepsSet
    <3>2. old.at = "approveWait"
      BY <1>9 DEF ApprovalMined
    <3>3. StepCapped(old) => StepCapped(page'[t].step)
      BY <3>1, <3>2 DEF StepCapped, LastApproval
    <3> QED BY <1>1, <3>3, QuietCaps DEF Chains, sepoliaVars, tokenVars
  <2> QED BY <1>2, <1>9, <2>1 DEF ApprovalMined, Status
<1>10. CASE MintMined(t)
  <2>1. CASE Await(t, [old EXCEPT !.at = "reinspecting"])
    BY <1>5, <2>1, StepsSet
  <2> QED BY <1>2, <1>10, <2>1 DEF MintMined
<1>11. CASE PaymentKnown(t)
  <2>1. CASE \E session : Commit(t, session, page[t].snapshot, [old EXCEPT !.at = "enqueueing"])
    BY <1>5, <2>1, StepsSet
  <2> QED BY <1>2, <1>11, <2>1 DEF PaymentKnown
<1>12. CASE Enqueued(t)
  <2>1. Await(t, [old EXCEPT !.at = "polling"])
    BY <1>12 DEF Enqueued
  <2> QED BY <1>5, <2>1, StepsSet
<1>13. CASE Polled(t)
  <2>1. page'[t].step \in {old, Idle}
    <3>1. page[t] \in Page /\ page \in [Tab -> Page]
      BY PageFacts DEF EarnInv
    <3> HIDE DEF Session, Snapshot, Step, JobPhase, Idle
    <3> QED BY <1>13, <3>1 DEF Polled, Page
  <2> QED BY <1>1, <2>1, StepsSet, StepLeaves
<1>14. CASE Fault(t)
  BY <1>2, <1>14 DEF Fault
<1> QED BY <1>6, <1>7, <1>8, <1>9, <1>10, <1>11, <1>12, <1>13, <1>14 DEF Answer

\* The browser, the relay and the machine's owner.
LEMMA OthersCap ==
  ASSUME EarnInv, NEW t \in Tab, CapInv(t),
         \/ Refetch(t) \/ TermsChange \/ \E h : RelayFinishes(h)
         \/ \E a : Connected(a) /\ UNCHANGED <<Chains, broadcast>>
         \/ \E resume : Open(t, resume)
         \/ UNCHANGED vars
  PROVE  CapInv(t)'
<1>1. page[t] \in Page /\ page \in [Tab -> Page]
  BY PageFacts DEF EarnInv
<1>2. CASE Refetch(t)
  <2>1. page'[t].step = page[t].step /\ UNCHANGED <<Chains, broadcast>>
    <3> HIDE DEF Session, Snapshot, Step, JobPhase
    <3> QED BY <1>1, <1>2 DEF Refetch, Local, Page
  <2> QED BY <2>1, StepLeaves
<1>3. CASE TermsChange
  <2>1. UNCHANGED <<page, broadcast, allowance, transactions>>
    BY <1>3 DEF TermsChange, SetMachineOffer, sepoliaVars, tokenVars
  <2> QED BY <2>1, QuietCaps
<1>4. CASE \E h : RelayFinishes(h)
  BY <1>4, StepLeaves DEF RelayFinishes
<1>5. CASE \E a : Connected(a) /\ UNCHANGED <<Chains, broadcast>>
  <2>1. page'[t].step = page[t].step
    <3> HIDE DEF Session, Snapshot, Step, JobPhase
    <3> QED BY <1>1, <1>5 DEF Connected, Page
  <2> QED BY <1>5, <2>1, StepLeaves
<1>6. CASE \E resume : Open(t, resume)
  <2>1. page'[t].step = Idle /\ UNCHANGED <<Chains, broadcast>>
    BY <1>1, <1>6 DEF Open, Loaded
  <2> QED BY <2>1, StepsSet, StepLeaves
<1>7. CASE UNCHANGED vars
  BY <1>7, StepLeaves DEF vars, checkoutVars, Chains
<1> QED BY <1>2, <1>3, <1>4, <1>5, <1>6, <1>7

-----------------------------------------------------------------------------
(* The wallet. *)

\* A new transaction leaves what is known of the others true.
LEMMA AppendCaps ==
  ASSUME EarnInv, NEW t, CapInv(t), NEW request \in Broadcast, request.receipt = 0,
         Broadcasts(request), UNCHANGED Chains, \A p \in prompts' : WaitingInWallet(p)
  PROVE  /\ NoncesOK' /\ (NoLostApproval' => NoLostApproval)
         /\ NoLostApproval' => ~(request.kind = "approve" /\ request.lost)
         /\ NoLostApproval' => \A h \in DOMAIN broadcast : TxCapped(h)'
         /\ \A a : Allowed(a)' = Allowed(a)
         /\ \A a : Approvals(a)' \subseteq Approvals(a) \cup {Signed + 1}
         /\ \A a : ~(request.kind = "approve" /\ request.from = a) => Approvals(a)' = Approvals(a)
         /\ \A g \in DOMAIN broadcast : broadcast[g].nonce \in Int /\ broadcast[g].nonce < Signed + 1
<1> DEFINE n == Signed + 1
<1>1. /\ broadcast'[n] = Numbered(request)
      /\ \A h \in DOMAIN broadcast : broadcast'[h] = broadcast[h]
      /\ DOMAIN broadcast' = DOMAIN broadcast \cup {n}
      /\ DOMAIN broadcast = 1 .. Signed /\ Signed \in Nat
      /\ \A h \in DOMAIN broadcast : broadcast[h] \in Broadcast
  BY Appended, TransactionOK, SignedNat
<1>2. PICK tx : tx = Numbered(request)
  OBVIOUS
<1>3. /\ tx.nonce = n /\ tx.kind = request.kind /\ tx.from = request.from
      /\ tx.lost = request.lost /\ broadcast'[n] = tx
  BY <1>1, <1>2 DEF Numbered, Broadcast
<1>4. \A g \in DOMAIN broadcast : broadcast[g].nonce \in Int /\ broadcast[g].nonce < n
  <2> TAKE g \in DOMAIN broadcast
  <2>1. broadcast[g].nonce \in Int
    <3>1. broadcast[g] \in Broadcast
      BY <1>1
    <3> QED BY <3>1 DEF Broadcast
  <2>2. broadcast[g].nonce <= g /\ g \in 1 .. Signed
    BY <1>1 DEF CapInv, NoncesOK
  <2> QED BY <1>1, <2>1, <2>2
<1> HIDE DEF n
<1>5. n \notin DOMAIN broadcast /\ n <= n
  BY <1>1 DEF n
<1>6. NoncesOK'
  BY <1>1, <1>3, <1>4, <1>5 DEF CapInv, NoncesOK, n
<1>7. /\ NoLostApproval' => NoLostApproval
      /\ NoLostApproval' => ~(request.kind = "approve" /\ request.lost)
  BY <1>1, <1>3 DEF NoLostApproval
<1>8. /\ \A a : Allowed(a)' = Allowed(a)
      /\ \A a : Approvals(a)' \subseteq Approvals(a) \cup {n}
      /\ \A a : ~(request.kind = "approve" /\ request.from = a) => Approvals(a)' = Approvals(a)
  BY <1>1, <1>3, <1>5 DEF Allowed, Approvals, Chains, sepoliaVars, tokenVars
<1>9. ASSUME NoLostApproval', NEW h \in DOMAIN broadcast PROVE TxCapped(h)'
  <2>1. TxCapped(h) /\ broadcast'[h] = broadcast[h]
    BY <1>1, <1>7, <1>9 DEF CapInv
  <2>2. ReceiptPayments(h)' = ReceiptPayments(h)
    BY <2>1 DEF ReceiptPayments, Chains, sepoliaVars
  <2>3. \A g \in Approvals(broadcast[h].from)' :
           \/ g \in Approvals(broadcast[h].from) /\ broadcast'[g] = broadcast[g]
           \/ broadcast'[g].nonce = n
    BY <1>1, <1>3, <1>8 DEF Approvals
  <2> QED BY <1>4, <1>8, <2>1, <2>2, <2>3 DEF TxCapped
<1> QED BY <1>4, <1>6, <1>7, <1>8, <1>9 DEF n

\* One the customer signed behind the page's back.
LEMMA LostCaps ==
  ASSUME EarnInv, NEW t \in Tab, CapInv(t), NEW p, WaitingInWallet(p), Broadcasts(p),
         UNCHANGED Chains, \A q \in prompts' : WaitingInWallet(q),
         Unwatched(page'[t].step) \/ page'[t].step = page[t].step
  PROVE  CapInv(t)'
<1>1. /\ p \in Broadcast /\ p.lost = TRUE /\ p.receipt = 0
  BY DEF WaitingInWallet
<1>2. /\ broadcast'[Signed + 1] = Numbered(p) /\ DOMAIN broadcast' = DOMAIN broadcast \cup {Signed + 1}
      /\ \A h \in DOMAIN broadcast : broadcast'[h] = broadcast[h]
  BY <1>1, Appended
<1>3. Numbered(p).lost = TRUE
  BY <1>1 DEF Numbered, Broadcast
<1>4. /\ NoncesOK' /\ (NoLostApproval' => NoLostApproval)
      /\ NoLostApproval' => \A h \in DOMAIN broadcast : TxCapped(h)'
      /\ NoLostApproval' => \A a : Allowed(a)' = Allowed(a) /\ Approvals(a)' = Approvals(a)
  BY <1>1, AppendCaps
<1>5. ASSUME NoLostApproval' PROVE StepCapped(page[t].step)'
  <2>1. StepCapped(page'[t].step)
    BY <1>4, <1>5, UnwatchedSteps DEF CapInv
  <2>2. /\ \A a, amount : Exact(a, amount)' <=> Exact(a, amount)
        /\ \A a, g : g \in Approvals(a) => g \in DOMAIN broadcast
    BY <1>4, <1>5 DEF Exact, Approvals
  <2>3. \A h, a, amount : LastApproval(h, a, amount) => LastApproval(h, a, amount)'
    BY <1>2, <1>4, <1>5, <2>2 DEF LastApproval
  <2>4. PICK s : s = page'[t].step
    OBVIOUS
  <2> QED BY <2>1, <2>2, <2>3, <2>4 DEF StepCapped, Amounts
<1>6. PICK n : n = Signed + 1
  OBVIOUS
<1>7. TxCapped(n)'
  BY <1>2, <1>3, <1>6 DEF TxCapped
<1> QED BY <1>2, <1>4, <1>5, <1>6, <1>7 DEF CapInv

LEMMA OrphansCap ==
  ASSUME EarnInv, NEW t \in Tab, CapInv(t), NEW p \in prompts, OrphanSigned(p)
  PROVE  CapInv(t)'
<1>1. UNCHANGED <<Chains, page>> /\ prompts' = prompts \ {p}
  BY DEF OrphanSigned
<1>2. WaitingInWallet(p) /\ \A q \in prompts' : WaitingInWallet(q)
  BY <1>1, PromptsWait
<1>3. CASE UNCHANGED broadcast
  BY <1>1, <1>3, StepLeaves
<1>4. CASE Broadcasts(p)
  BY <1>1, <1>2, <1>4, LostCaps DEF WaitingInWallet
<1> QED BY <1>3, <1>4 DEF OrphanSigned

LEMMA DeclinedCap ==
  ASSUME EarnInv, NEW t \in Tab, CapInv(t), Declined(t)
  PROVE  CapInv(t)'
<1>1. UNCHANGED <<Chains, prompts>> /\ Paused(t) /\ page[t].step.at \in Prompting
  BY DEF Declined
<1>2. CASE UNCHANGED broadcast
  BY <1>1, <1>2, StepPaused
<1>3. CASE Broadcasts([Request(t) EXCEPT !.lost = TRUE])
  <2>1. Unwatched(page'[t].step) /\ \A q \in prompts' : WaitingInWallet(q)
    BY <1>1, StepsSet, PromptsWait
  <2> QED BY <1>1, <1>3, <2>1, RequestOK, LostCaps
<1> QED BY <1>2, <1>3 DEF Declined

\* The nonce of the approval a page signs is the largest; a payment is signed
\* when no approval is left that could precede it.
LEMMA SignCaps ==
  ASSUME EarnInv, NEW t \in Tab, CapInv(t), Sign(t)
  PROVE  CapInv(t)'
<1> DEFINE old == page[t].step
<1>1. UNCHANGED <<Chains, prompts>> /\ old.at \in Prompting /\ Broadcasts(Request(t))
  BY DEF Sign
<1>2. /\ Request(t) \in Broadcast /\ Request(t).receipt = 0 /\ \A p \in prompts' : WaitingInWallet(p)
      /\ old \in Step
  BY <1>1, RequestOK, PromptsWait, PageFacts
<1>3. PICK n : n = Signed + 1
  OBVIOUS
<1>4. PICK tx : tx = Numbered(Request(t))
  OBVIOUS
<1>5. /\ broadcast'[n] = tx /\ DOMAIN broadcast' = DOMAIN broadcast \cup {n}
      /\ \A h \in DOMAIN broadcast : broadcast'[h] = broadcast[h]
      /\ n \notin DOMAIN broadcast
  <2>1. /\ broadcast'[Signed + 1] = Numbered(Request(t))
        /\ DOMAIN broadcast' = DOMAIN broadcast \cup {Signed + 1}
        /\ \A h \in DOMAIN broadcast : broadcast'[h] = broadcast[h]
    BY <1>1, <1>2, Appended
  <2>2. Signed + 1 \notin DOMAIN broadcast
    BY TransactionOK, SignedNat
  <2> QED BY <1>3, <1>4, <2>1, <2>2
<1>6. /\ tx.nonce = n /\ tx.kind = Kind(old.at) /\ tx.from = old.account /\ tx.lost = FALSE
      /\ tx.approved = old.approved /\ tx.status = "pending"
      /\ old.at # "mintPrompt" => tx.amount = Amounts(old)
  <2>1. PICK request : request = Request(t)
    OBVIOUS
  <2>2. /\ request \in Broadcast /\ request.kind = Kind(old.at) /\ request.from = old.account
        /\ request.lost = FALSE /\ request.approved = old.approved /\ request.status = "pending"
        /\ old.at # "mintPrompt" => request.amount = Amounts(old)
    BY <1>1, <1>2, <2>1 DEF Request, Prompting, ApprovalAmount
  <2> QED BY <1>3, <1>4, <2>1, <2>2 DEF Numbered, Broadcast
<1>7. /\ NoncesOK' /\ (NoLostApproval' => NoLostApproval)
      /\ NoLostApproval' => \A h \in DOMAIN broadcast : TxCapped(h)'
      /\ \A a : Allowed(a)' = Allowed(a)
      /\ \A a : Approvals(a)' \subseteq Approvals(a) \cup {n}
      /\ tx.kind # "approve" => \A a : Approvals(a)' = Approvals(a)
      /\ \A g \in DOMAIN broadcast : broadcast[g].nonce \in Int /\ broadcast[g].nonce < n
  <2>1. Request(t).kind = Kind(old.at)
    BY DEF Request
  <2> QED BY <1>1, <1>2, <1>3, <1>6, <2>1, AppendCaps
<1>8. ASSUME NEW at
      PROVE  /\ [old EXCEPT !.at = at, !.hash = n].at = at
             /\ [old EXCEPT !.at = at, !.hash = n].hash = n
             /\ [old EXCEPT !.at = at, !.hash = n].account = old.account
             /\ Amounts([old EXCEPT !.at = at, !.hash = n]) = Amounts(old)
  BY <1>2 DEF Step, Amounts
<1>9. PICK at \in {"mintWait", "approveWait", "payWait"} :
        /\ page'[t].step = [old EXCEPT !.at = at, !.hash = n]
        /\ at = "mintWait" <=> old.at = "mintPrompt"
        /\ at = "approveWait" <=> old.at = "approvePrompt"
        /\ at = "payWait" <=> old.at = "payPrompt"
  BY <1>1, <1>3, StepsSet DEF Sign, Signed
<1>10. PICK s : s = page'[t].step
  OBVIOUS
<1>11. /\ s.at = at /\ s.hash = n /\ s.account = old.account /\ Amounts(s) = Amounts(old)
  <2>1. PICK step : step = [old EXCEPT !.at = at, !.hash = n]
    OBVIOUS
  <2>2. step.at = at /\ step.hash = n /\ step.account = old.account /\ Amounts(step) = Amounts(old)
    BY <1>8, <2>1
  <2> QED BY <1>9, <1>10, <2>1, <2>2
<1>12. tx.kind = CASE at = "mintWait" -> "mint" [] at = "approveWait" -> "approve" [] OTHER -> "pay"
  BY <1>1, <1>6, <1>9 DEF Kind, Prompting
<1>13. n \in Int
  BY <1>3, SignedNat
<1>14. ASSUME at = "approveWait" PROVE LastApproval(n, s.account, Amounts(s))'
  <2>1. /\ broadcast'[n].kind = "approve" /\ broadcast'[n].from = s.account
        /\ broadcast'[n].amount = Amounts(old) /\ broadcast'[n].status = "pending"
        /\ broadcast'[n].nonce = n
    BY <1>5, <1>6, <1>9, <1>11, <1>12, <1>14
  <2>2. \A g \in Approvals(s.account)' : broadcast'[g].nonce <= n
    BY <1>5, <1>6, <1>7, <1>13 DEF Approvals
  <2> QED BY <1>5, <1>11, <2>1, <2>2 DEF LastApproval, Amounts
<1>15. StepCapped(page[t].step)'
  BY <1>9, <1>10, <1>11, <1>14 DEF StepCapped, Amounts
<1>16. ASSUME NoLostApproval' PROVE TxCapped(n)'
  <2>1. CASE at # "payWait"
    BY <1>5, <1>12, <2>1 DEF TxCapped
  <2>2. CASE ~ old.approved
    BY <1>5, <1>6, <2>2 DEF TxCapped
  <2>3. CASE at = "payWait" /\ old.approved
    <3>1. PICK a, amount : a = old.account /\ amount = Amounts(old)
      OBVIOUS
    <3>2. Exact(a, amount)
      BY <1>7, <1>9, <1>16, <2>3, <3>1 DEF CapInv, StepCapped
    <3>3. /\ broadcast'[n].from = a /\ broadcast'[n].amount = amount
          /\ broadcast'[n].status = "pending"
      BY <1>5, <1>6, <1>9, <2>3, <3>1
    <3>4. tx.kind # "approve"
      BY <1>12, <2>3
    <3>5. Allowed(a)' <= amount /\ Approvals(a)' = {}
      BY <1>7, <3>2, <3>4 DEF Exact
    <3> QED BY <3>3, <3>5 DEF TxCapped
  <2> QED BY <2>1, <2>2, <2>3
<1> QED BY <1>5, <1>7, <1>15, <1>16 DEF CapInv

LEMMA ReplacedCap ==
  ASSUME EarnInv, NEW t, CapInv(t), NEW h \in DOMAIN broadcast, Replaced(h)
  PROVE  CapInv(t)'
<1>1. UNCHANGED <<Chains, page>> /\ broadcast[h].status = "pending"
  BY DEF Replaced, Status
<1>2. /\ \A g \in DOMAIN broadcast : broadcast[g] \in Broadcast
      /\ DOMAIN broadcast = 1 .. Signed /\ Signed \in Nat /\ broadcast \in Seq(Broadcast)
  BY TransactionOK, SignedNat
<1>3. PICK n, tx : n = Signed + 1 /\ tx = [broadcast[h] EXCEPT !.status = "dropped"]
  OBVIOUS
\* The copy, if there is one, is all the dropped transaction was.
<1>4. /\ DOMAIN broadcast \subseteq DOMAIN broadcast'
      /\ DOMAIN broadcast' \subseteq DOMAIN broadcast \cup {n}
      /\ n \notin DOMAIN broadcast /\ n \in Int
      /\ \A g \in DOMAIN broadcast : g # h => broadcast'[g] = broadcast[g]
      /\ broadcast'[h] = tx
      /\ n \in DOMAIN broadcast' => broadcast'[n] = broadcast[h]
  <2>2. PICK dropped : dropped = [broadcast EXCEPT ![h] = tx]
    OBVIOUS
  <2>3. /\ DOMAIN dropped = DOMAIN broadcast /\ dropped[h] = tx
        /\ \A g \in DOMAIN broadcast : g # h => dropped[g] = broadcast[g]
    BY <2>2
  <2>4. broadcast' \in {dropped, Append(dropped, broadcast[h])}
    BY <1>3, <2>2 DEF Replaced
  <2>5. PICK S : dropped \in Seq(S) /\ broadcast[h] \in S
    <3>1. PICK S : S = Broadcast \cup {tx}
      OBVIOUS
    <3>2. broadcast \in Seq(S) /\ tx \in S /\ broadcast[h] \in S
      BY <1>2, <3>1, SeqGrows
    <3> QED BY <2>2, <3>2, ExceptSeq
  <2>6. Len(dropped) = Signed
    BY <1>2, <2>3, <2>5, LenProperties
  <2>7. CASE broadcast' = Append(dropped, broadcast[h])
    <3>1. /\ Len(broadcast') = Signed + 1 /\ DOMAIN broadcast' = 1 .. (Signed + 1)
          /\ \A g \in 1 .. Signed : broadcast'[g] = dropped[g]
          /\ broadcast'[Signed + 1] = broadcast[h]
      BY <2>5, <2>6, <2>7, AppendProperties, LenProperties
    <3> QED BY <1>2, <1>3, <2>3, <3>1
  <2> QED BY <1>2, <1>3, <2>3, <2>4, <2>7
<1>5. /\ broadcast'[h].status = "dropped" /\ broadcast'[h].kind = broadcast[h].kind
      /\ broadcast'[h].from = broadcast[h].from /\ broadcast'[h].amount = broadcast[h].amount
      /\ broadcast'[h].lost = broadcast[h].lost /\ broadcast'[h].nonce = broadcast[h].nonce
      /\ broadcast'[h].receipt = broadcast[h].receipt
  <2>1. broadcast[h] \in Broadcast
    BY <1>2
  <2> QED BY <1>3, <1>4, <2>1 DEF Broadcast
<1>6. \A g \in DOMAIN broadcast : broadcast[g].nonce \in Int /\ broadcast[g].nonce <= g
  <2> TAKE g \in DOMAIN broadcast
  <2>1. broadcast[g] \in Broadcast
    BY <1>2
  <2>2. broadcast[g].nonce \in Int
    BY <2>1 DEF Broadcast
  <2> QED BY <2>2 DEF CapInv, NoncesOK
<1>7. NoncesOK'
  <2>1. ASSUME NEW g \in DOMAIN broadcast' PROVE broadcast'[g].nonce <= g
    <3>1. CASE g \in DOMAIN broadcast
      BY <1>4, <1>5, <1>6, <3>1
    <3>2. CASE g = n
      <4>1. h \in Int /\ h <= n
        BY <1>2, <1>3
      <4> QED BY <1>4, <1>6, <3>2, <4>1
    <3> QED BY <1>4, <3>1, <3>2
  <2>2. ASSUME NEW f \in DOMAIN broadcast', NEW g \in DOMAIN broadcast',
               broadcast'[f].status = "pending", broadcast'[g].status = "pending",
               broadcast'[f].nonce = broadcast'[g].nonce
        PROVE  f = g
    BY <1>1, <1>4, <1>5, <2>2 DEF CapInv, NoncesOK
  <2> QED BY <2>1, <2>2 DEF NoncesOK
<1>8. /\ NoLostApproval' => NoLostApproval
      /\ \A a : Allowed(a)' = Allowed(a)
  BY <1>1, <1>4, <1>5 DEF NoLostApproval, Allowed, Chains, sepoliaVars, tokenVars
\* An approval that may still be mined is one of before, or the copy of one.
<1>9. \A a : \A g \in Approvals(a)' : \E f \in Approvals(a) : broadcast'[g].nonce = broadcast[f].nonce
  BY <1>1, <1>4, <1>5 DEF Approvals
<1>10. \A a, amount : Exact(a, amount) => Exact(a, amount)'
  BY <1>8, <1>9 DEF Exact
<1>11. \A g, a, amount : LastApproval(g, a, amount) => LastApproval(g, a, amount)'
  BY <1>4, <1>5, <1>9, <1>10 DEF LastApproval
<1>12. StepCapped(page[t].step) => StepCapped(page[t].step)'
  BY <1>1, <1>10, <1>11 DEF StepCapped, Amounts
<1>13. ASSUME NEW g \in DOMAIN broadcast, TxCapped(g), g # h PROVE TxCapped(g)'
  <2>1. ReceiptPayments(g)' = ReceiptPayments(g) /\ broadcast'[g] = broadcast[g]
    BY <1>1, <1>4, <1>13 DEF ReceiptPayments, Chains, sepoliaVars
  <2> QED BY <1>8, <1>9, <1>13, <2>1 DEF TxCapped
<1>14. TxCapped(h)'
  BY <1>5 DEF TxCapped
<1>15. ASSUME n \in DOMAIN broadcast', TxCapped(h) PROVE TxCapped(n)'
  BY <1>1, <1>4, <1>8, <1>9, <1>15 DEF TxCapped
<1> QED BY <1>4, <1>7, <1>8, <1>12, <1>13, <1>14, <1>15 DEF CapInv

-----------------------------------------------------------------------------
(* The chain. *)

\* A payment takes no more than was allowed, and leaves no more allowed.
LEMMA MinedPayments ==
  ASSUME EarnInv, NEW h \in DOMAIN broadcast, MineTransaction(h)
  PROVE  \E status \in {"mined", "reverted"}, receipt \in 0 .. MaxTransactions :
           /\ Settled(h, status, receipt)
           /\ \A a : broadcast[h].from # a \/ broadcast[h].kind # "approve" =>
                (a \in Renter => Allowed(a)' <= Allowed(a))
           /\ \A a : broadcast[h].from = a /\ broadcast[h].kind = "approve" =>
                Allowed(a)' = broadcast[h].amount
           /\ broadcast[h].kind = "pay" /\ status = "mined" =>
                /\ receipt # 0
                /\ \A log \in RegistryLogs(transactions'[receipt]) :
                     log.amount \in Int /\ log.amount <= Allowed(broadcast[h].from)
<1> DEFINE tx == broadcast[h]
<1>1. /\ tx \in Broadcast /\ Registry \in Spender /\ tx.from \in Account
      /\ tx.amount \in Amount /\ tx.duration \in LegalDuration
      /\ Renter \subseteq Account
  BY TransactionOK, TokenAssumption DEF Broadcast, Account
<1>2. /\ machineOffers \in [OrZero(Machine) -> Offer]
      /\ allowance \in [Account -> [Spender -> Amount]]
      /\ Len(transactions) \in Nat
  BY TransactionOK DEF EarnInv, WorldOK, ChainsOK
<1>3. \A a \in Renter : Allowed(a) \in Int
  BY <1>1, <1>2, TokenAssumption DEF Allowed, Amount
<1>4. 0 \in 0 .. MaxTransactions
  BY Bounds
<1>5. CASE UNCHANGED allowance /\ tx.kind # "approve" /\
           \E status \in {"mined", "reverted"} :
             Settled(h, status, 0) /\ ~(tx.kind = "pay" /\ status = "mined")
  BY <1>3, <1>4, <1>5 DEF Allowed
<1>6. CASE tx.kind = "approve"
  <2>1. /\ Settled(h, "mined", 0)
        /\ allowance' = [allowance EXCEPT ![tx.from][Registry] = tx.amount]
    BY <1>6 DEF MineTransaction, Approve
  <2>2. \A a : tx.from = a => Allowed(a)' = tx.amount
    BY <1>1, <1>2, <2>1 DEF Allowed
  <2>3. \A a \in Renter : a # tx.from => Allowed(a)' <= Allowed(a)
    BY <1>1, <1>2, <1>3, <2>1 DEF Allowed
  <2> QED BY <1>4, <1>6, <2>1, <2>2, <2>3
<1>7. CASE /\ tx.kind = "pay"
           /\ PayForUsage(tx.from, tx.from, RentedMachine, tx.duration, h)
           /\ Settled(h, "mined", Len(transactions) + 1)
  <2> DEFINE amount == machineOffers[RentedMachine].pricePerSecond * tx.duration
  <2>1. PICK log, block :
          /\ block.logs = <<log>> /\ log.amount = amount /\ Mine(block)
    BY <1>7 DEF PayForUsage
  <2>2. TransferFrom(Registry, tx.from, machineOffers[RentedMachine].beneficiary, amount)
    BY <1>7 DEF PayForUsage
  <2>3. amount \in Amount
    <3>1. machineOffers[RentedMachine].pricePerSecond \in Price
      BY <1>2, Bounds DEF Offer
    <3> QED BY <1>1, <3>1, TokenAssumption DEF LegalDuration
  <2>4. amount \in Int /\ 0 <= amount /\ amount <= Allowed(tx.from)
    BY <2>2, <2>3, TokenAssumption DEF TransferFrom, Allowed, Amount
  <2> HIDE DEF amount
  <2>5. \A a \in Renter : Allowed(a)' <= Allowed(a)
    BY <1>1, <1>2, <1>3, <2>2, <2>4 DEF TransferFrom, Allowed
  <2>6. /\ Len(transactions) + 1 \in 0 .. MaxTransactions /\ Len(transactions) + 1 # 0
        /\ transactions' = Append(transactions, block)
    BY <1>2, <2>1, Bounds DEF Mine
  <2>7. transactions'[Len(transactions) + 1] = block
    <3>1. PICK S : transactions \in Seq(S)
      BY DEF EarnInv, WorldOK, ChainsOK
    <3>2. PICK T : T = S \cup {block}
      OBVIOUS
    <3>3. transactions \in Seq(T) /\ block \in T
      BY <3>1, <3>2, SeqGrows
    <3> QED BY <2>6, <3>3, AppendProperties
  <2>8. \A l \in RegistryLogs(block) : l.amount = amount
    <3>1. DOMAIN block.logs = {1} /\ block.logs[1] = log
      BY <2>1
    <3> QED BY <2>1, <3>1 DEF RegistryLogs
  <2> QED BY <1>7, <2>4, <2>5, <2>6, <2>7, <2>8
<1> QED BY <1>5, <1>6, <1>7 DEF MineTransaction, Mint, sepoliaVars, tokenVars

\* An account's transactions are mined in order: the approval the page waits
\* for is the last of its account, and none overtakes a payment.
LEMMA MineCaps ==
  ASSUME EarnInv, NEW t \in Tab, CapInv(t), NEW h \in DOMAIN broadcast, MineTransaction(h)
  PROVE  CapInv(t)'
<1>1. UNCHANGED <<page, stored, account, prompts, jobs, started, mishaps>> /\ Oldest(h)
  BY DEF MineTransaction
<1>2. /\ \A g \in DOMAIN broadcast : broadcast[g] \in Broadcast
      /\ DOMAIN transactions = 1 .. Len(transactions) /\ Len(transactions) \in Nat
  BY TransactionOK
<1>3. PICK status \in {"mined", "reverted"}, receipt \in 0 .. MaxTransactions :
        /\ Settled(h, status, receipt)
        /\ \A a : broadcast[h].from # a \/ broadcast[h].kind # "approve" =>
             (a \in Renter => Allowed(a)' <= Allowed(a))
        /\ \A a : broadcast[h].from = a /\ broadcast[h].kind = "approve" =>
             Allowed(a)' = broadcast[h].amount
        /\ broadcast[h].kind = "pay" /\ status = "mined" =>
             /\ receipt # 0
             /\ \A log \in RegistryLogs(transactions'[receipt]) :
                  log.amount \in Int /\ log.amount <= Allowed(broadcast[h].from)
  BY MinedPayments
<1>4. PICK tx : tx = [broadcast[h] EXCEPT !.status = status, !.receipt = receipt]
  OBVIOUS
<1>5. /\ tx.status = status /\ tx.receipt = receipt
      /\ tx.kind = broadcast[h].kind /\ tx.from = broadcast[h].from
      /\ tx.amount = broadcast[h].amount /\ tx.lost = broadcast[h].lost
      /\ tx.approved = broadcast[h].approved /\ tx.nonce = broadcast[h].nonce
  <2>1. broadcast[h] \in Broadcast
    BY <1>2
  <2> QED BY <1>4, <2>1 DEF Broadcast
<1>6. broadcast' = [broadcast EXCEPT ![h] = tx]
  BY <1>3, <1>4 DEF Settled
<1>7. /\ DOMAIN broadcast' = DOMAIN broadcast /\ broadcast'[h] = tx
      /\ \A g \in DOMAIN broadcast : g # h => broadcast'[g] = broadcast[g]
  BY <1>6
<1>8. broadcast[h].status = "pending"
  BY <1>1 DEF Oldest, Status
<1>9. \A g \in DOMAIN broadcast :
        /\ broadcast[g].nonce \in Int /\ broadcast[g].amount \in Int /\ broadcast[g].from \in Renter
        /\ broadcast[g].receipt \in 0 .. MaxTransactions
  <2> TAKE g \in DOMAIN broadcast
  <2>1. broadcast[g] \in Broadcast
    BY <1>2
  <2>2. broadcast[g].amount \in Amount /\ broadcast[g].nonce \in Int /\ broadcast[g].from \in Renter
        /\ broadcast[g].receipt \in 0 .. MaxTransactions
    BY <2>1 DEF Broadcast
  <2> QED BY <2>2, TokenAssumption DEF Amount
<1>10. \A a \in Renter : Allowed(a) \in Int /\ Allowed(a)' \in Int
  <2>1. /\ allowance \in [Account -> [Spender -> Amount]]
        /\ allowance' \in [Account -> [Spender -> Amount]]
    <3>1. ChainsOK'
      BY MinedChain
    <3> QED BY <3>1 DEF EarnInv, WorldOK, ChainsOK
  <2> QED BY <2>1, TokenAssumption DEF Allowed, Amount, Account
\* No older one of the account is left, and h itself is not pending any more.
<1>11. \A g \in DOMAIN broadcast :
         broadcast[g].status = "pending" /\ broadcast[g].from = broadcast[h].from =>
           broadcast[h].nonce <= broadcast[g].nonce
  BY <1>1, <1>9 DEF Oldest, Status
<1>12. \A a : Approvals(a)' = Approvals(a) \ {h}
  BY <1>3, <1>5, <1>7 DEF Approvals
<1>13. NoncesOK' /\ (NoLostApproval' => NoLostApproval)
  BY <1>3, <1>5, <1>7 DEF CapInv, NoncesOK, NoLostApproval
<1>14. ASSUME NEW g \in DOMAIN broadcast, g # h, NoLostApproval, TxCapped(g)
       PROVE  TxCapped(g)'
  <2>1. broadcast'[g] = broadcast[g] /\ broadcast[g].from \in Renter
    BY <1>7, <1>9, <1>14
  <2>2. ReceiptPayments(g)' = ReceiptPayments(g)
    <3>1. broadcast[g].receipt # 0 =>
            transactions'[broadcast[g].receipt] = transactions[broadcast[g].receipt]
      <4>1. broadcast[g].receipt <= Len(transactions)
        BY DEF EarnInv, WorldOK, SignedOK
      <4>2. broadcast[g].receipt # 0 => broadcast[g].receipt \in DOMAIN transactions
        BY <1>2, <1>9, <4>1, Bounds
      <4> QED BY <4>2, MinedChain
    <3> QED BY <2>1, <3>1 DEF ReceiptPayments
  <2>3. ASSUME broadcast[g].kind = "pay", broadcast[g].approved, ~broadcast[g].lost,
               broadcast[g].status = "pending"
        PROVE  Allowed(broadcast[g].from)' <= broadcast[g].amount
    <3>1. /\ Allowed(broadcast[g].from) <= broadcast[g].amount
          /\ \A f \in Approvals(broadcast[g].from) : broadcast[g].nonce < broadcast[f].nonce
      BY <1>14, <2>3 DEF TxCapped
    <3>2. ~(broadcast[h].kind = "approve" /\ broadcast[h].from = broadcast[g].from)
      BY <1>8, <1>9, <1>11, <2>3, <3>1 DEF Approvals
    <3>3. Allowed(broadcast[g].from)' <= Allowed(broadcast[g].from)
      BY <1>3, <2>1, <3>2
    <3> QED BY <1>9, <1>10, <2>1, <3>1, <3>3
  <2>4. ASSUME NEW f \in Approvals(broadcast[g].from)'
        PROVE  f \in Approvals(broadcast[g].from) /\ broadcast'[f] = broadcast[f]
    BY <1>7, <1>12, <2>1 DEF Approvals
  <2> QED BY <1>14, <2>1, <2>2, <2>3, <2>4 DEF TxCapped
<1>15. ASSUME NoLostApproval, TxCapped(h) PROVE TxCapped(h)'
  <2>1. ASSUME tx.kind = "pay", tx.approved, ~tx.lost, status = "mined",
               NEW log \in ReceiptPayments(h)'
        PROVE  log.amount <= tx.amount
    <3>1. Allowed(broadcast[h].from) <= broadcast[h].amount
      BY <1>5, <1>8, <1>15, <2>1 DEF TxCapped
    <3>2. log \in RegistryLogs(transactions'[receipt])
      BY <1>5, <1>7, <2>1 DEF ReceiptPayments
    <3>3. log.amount \in Int /\ log.amount <= Allowed(broadcast[h].from)
      BY <1>3, <1>5, <2>1, <3>2
    <3> QED BY <1>5, <1>9, <1>10, <3>1, <3>3
  <2> QED BY <1>3, <1>5, <1>7, <2>1 DEF TxCapped
<1>16. ASSUME NEW a \in Renter, NEW amount \in Int, Exact(a, amount) PROVE Exact(a, amount)'
  <2>1. ~(broadcast[h].kind = "approve" /\ broadcast[h].from = a)
    BY <1>8, <1>16 DEF Exact, Approvals
  <2>2. Allowed(a)' <= Allowed(a)
    BY <1>3, <2>1
  <2> QED BY <1>10, <1>12, <1>16, <2>2 DEF Exact
<1>17. ASSUME NEW k, NEW a \in Renter, NEW amount \in Int, LastApproval(k, a, amount)
       PROVE  LastApproval(k, a, amount)'
  <2>1. CASE k # h
    <3>1. \A g \in Approvals(a)' : g \in Approvals(a) /\ broadcast'[g] = broadcast[g]
      BY <1>7, <1>12 DEF Approvals
    <3>2. k \in DOMAIN broadcast' /\ broadcast'[k] = broadcast[k]
      BY <1>7, <1>17, <2>1 DEF LastApproval
    <3> QED BY <1>16, <1>17, <3>1, <3>2 DEF LastApproval
  <2>2. CASE k = h
    <3>1. /\ broadcast[h].kind = "approve" /\ broadcast[h].from = a /\ broadcast[h].amount = amount
          /\ \A g \in Approvals(a) : broadcast[g].nonce <= broadcast[h].nonce
      BY <1>17, <2>2 DEF LastApproval
    <3>2. Approvals(a)' = {}
      <4> SUFFICES ASSUME NEW g \in Approvals(a), g # h PROVE FALSE
        BY <1>12
      <4>1. /\ g \in DOMAIN broadcast /\ broadcast[g].status = "pending" /\ broadcast[g].from = a
        BY DEF Approvals
      <4>2. broadcast[g].nonce = broadcast[h].nonce
        BY <1>9, <1>11, <3>1, <4>1
      <4> QED BY <1>8, <4>1, <4>2 DEF CapInv, NoncesOK
    <3>3. Allowed(a)' = amount
      BY <1>3, <3>1
    <3> QED BY <1>5, <1>7, <1>17, <2>2, <3>1, <3>2, <3>3 DEF LastApproval, Exact
  <2> QED BY <2>1, <2>2
<1>18. StepCapped(page[t].step) => StepCapped(page[t].step)'
  <2>1. PICK s : s = page[t].step
    OBVIOUS
  <2>2. s \in Step /\ (s.at # "idle" => s.account \in Renter)
    BY <2>1, PageFacts DEF Consistent
  <2>3. Amounts(s) \in Int
    <3>1. s.price \in Int /\ s.duration \in Int
      BY <2>2, BoundsAreNat DEF Step, Price, LegalDuration
    <3> QED BY <3>1 DEF Amounts
  <2>4. s = page'[t].step
    BY <1>1, <2>1
  <2> QED BY <1>16, <1>17, <2>1, <2>2, <2>3, <2>4 DEF StepCapped, Amounts
<1> QED BY <1>7, <1>13, <1>14, <1>15, <1>18 DEF CapInv

-----------------------------------------------------------------------------
LEMMA CapInit == \A t \in Tab : CheckoutInit => CapInv(t)
<1> SUFFICES ASSUME NEW t \in Tab, CheckoutInit PROVE CapInv(t)
  OBVIOUS
<1>1. DOMAIN broadcast = {} /\ page[t].step.at = "idle"
  <2>1. broadcast = <<>> /\ page = [u \in Tab |-> Loaded(createRentalSession, 0)]
    BY DEF CheckoutInit
  <2> QED BY <2>1 DEF Loaded, Idle
<1> QED BY <1>1, UnwatchedSteps DEF CapInv, NoncesOK, Unwatched

LEMMA CapNext ==
  ASSUME NEW t, Tab = {t}
  PROVE  EarnInv /\ CapInv(t) /\ [Next]_vars => CapInv(t)'
<1> SUFFICES ASSUME EarnInv, CapInv(t), [Next]_vars PROVE CapInv(t)'
  OBVIOUS
<1>1. t \in Tab /\ \A u \in Tab : u = t
  OBVIOUS
<1>2. CASE Customer(t)
  BY <1>1, <1>2, ButtonsCap, OthersCap DEF Customer, ConnectWallet, Connected
<1>3. CASE Answer(t) \/ Fault(t)
  BY <1>1, <1>3, AnswersCap
<1>4. CASE \/ Sign(t) \/ Refetch(t) \/ StartAnother(t) \/ Declined(t) \/ EditDuration(t)
           \/ \E d \in LegalDuration : ApplyDuration(t, d)
           \/ \E resume : Open(t, resume)
  BY <1>1, <1>4, SignCaps, OthersCap, ButtonsCap, DeclinedCap
<1>5. CASE \/ \E p \in prompts : OrphanSigned(p)
           \/ \E h \in DOMAIN broadcast : MineTransaction(h) \/ Replaced(h) \/ RelayFinishes(h)
           \/ TermsChange
  BY <1>1, <1>5, OrphansCap, MineCaps, ReplacedCap, OthersCap
<1>6. CASE \E a \in OrZero(Renter) : AccountChange(a)
  BY <1>1, <1>6, OthersCap DEF AccountChange, Connected
<1>7. CASE UNCHANGED vars
  BY <1>1, <1>7, OthersCap
<1> QED BY <1>1, <1>2, <1>3, <1>4, <1>5, <1>6, <1>7 DEF Next

(***************************************************************************)
(* An exact approval caps the charge, for one page and any amounts, terms, *)
(* mishaps and numbers of transactions: what the registry takes is no more *)
(* than the total the checkout approved just before (contracts.ts approves *)
(* the exact amount, and UsagePaymentRegistry.sol spends the allowance).   *)
(***************************************************************************)
THEOREM ChargeIsCapped ==
  ASSUME NEW t, Tab = {t}
  PROVE  Spec => []ApprovalCapsCharge
<1>1. CapInv(t) => ApprovalCapsCharge
  BY DEF CapInv, NoLostApproval, TxCapped, ApprovalCapsCharge
<1>2. CheckoutInit => CapInv(t)
  BY CapInit
<1>3. EarnInv /\ CapInv(t) /\ [Next]_vars => CapInv(t)'
  BY CapNext
<1> QED BY <1>1, <1>2, <1>3, CheckoutInvariant, PTL DEF Spec

=============================================================================
