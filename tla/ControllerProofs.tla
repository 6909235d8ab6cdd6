-------------------------- MODULE ControllerProofs --------------------------
(***************************************************************************)
(* A theorem about the standalone terminal, for any number of reads,       *)
(* failures and changes of the chain: it is never opened by a late answer. *)
(***************************************************************************)
EXTENDS MachineController, SequenceTheorems, TLAPS

(***************************************************************************)
(* The in-flight guard lets one read be outstanding at a time, so a read   *)
(* that ends has begun after every read that ended before it; no snapshot  *)
(* the view can hold is that of an overruled read.                         *)
(***************************************************************************)
AtMostOneRead ==
  \/ reads = <<>>
  \/ \E calls, s : reads = <<[pending |-> calls, snapshot |-> s, overruled |-> FALSE]>>

ViewOfLatest ==
  \E state, s, has :
    view = [state |-> state, snapshot |-> s, hasSnapshot |-> has, overruled |-> FALSE]

LatestInv == AtMostOneRead /\ ViewOfLatest

LEMMA LastReadEnds ==
  ASSUME NEW read, NEW closed
  PROVE  EndRead(<<read>>, 1, closed) = <<>>
<1>1. Len(<<read>>) = 1
  OBVIOUS
<1>2. 1 .. 0 = {}
  OBVIOUS
<1> QED BY <1>1, <1>2 DEF EndRead

LEMMA OnlyEntry ==
  ASSUME NEW old, NEW new
  PROVE  [<<old>> EXCEPT ![1] = new] = <<new>>
<1>1. old \in {old, new} /\ new \in {old, new} /\ <<old>> \in Seq({old, new})
  OBVIOUS
<1>2. Len(<<old>>) = 1 /\ 1 \in 1 .. Len(<<old>>)
  OBVIOUS
<1>3. /\ [<<old>> EXCEPT ![1] = new] \in Seq({old, new})
      /\ Len([<<old>> EXCEPT ![1] = new]) = 1
      /\ [<<old>> EXCEPT ![1] = new][1] = new
  BY <1>1, <1>2, ExceptSeq
<1>4. <<new>> \in Seq({old, new}) /\ Len(<<new>>) = 1 /\ <<new>>[1] = new
  BY <1>1
<1> QED BY <1>3, <1>4, SeqEqual

\* What an index of an outstanding read says.
LEMMA TheRead ==
  ASSUME AtMostOneRead, NEW i \in 1 .. Len(reads)
  PROVE  /\ i = 1 /\ Len(reads) = 1
         /\ \E calls, s : /\ reads = <<[pending |-> calls, snapshot |-> s, overruled |-> FALSE]>>
                          /\ reads[i] = [pending |-> calls, snapshot |-> s, overruled |-> FALSE]
<1>1. reads # <<>>
  OBVIOUS
<1>2. PICK calls, s : reads = <<[pending |-> calls, snapshot |-> s, overruled |-> FALSE]>>
  BY <1>1 DEF AtMostOneRead
<1>3. Len(reads) = 1 /\ reads[1] = [pending |-> calls, snapshot |-> s, overruled |-> FALSE]
  BY <1>2
<1>4. i = 1
  BY <1>3
<1> QED BY <1>2, <1>3, <1>4

\* Only the state of the view changes.
LEMMA StateOnly ==
  ASSUME ViewOfLatest, NEW state, view' = [view EXCEPT !.state = state]
  PROVE  ViewOfLatest'
<1>1. PICK old, s, has :
        view = [state |-> old, snapshot |-> s, hasSnapshot |-> has, overruled |-> FALSE]
  BY DEF ViewOfLatest
<1>2. view' = [state |-> state, snapshot |-> s, hasSnapshot |-> has, overruled |-> FALSE]
  BY <1>1
<1> QED BY <1>2 DEF ViewOfLatest

LEMMA RefreshStep ==
  ASSUME LatestInv, Refresh
  PROVE  LatestInv'
<1>1. CASE reads = <<>> /\ reads' = Append(reads, BeginRead(DeviceCalls))
  <2>1. reads' = <<[pending |-> DeviceCalls, snapshot |-> NoSnapshot, overruled |-> FALSE]>>
    BY <1>1 DEF BeginRead
  <2>2. ViewOfLatest'
    <3>1. view' = view \/ view' = [view EXCEPT !.state = "unlocking"]
      BY <1>1 DEF Refresh
    <3> QED BY <3>1, StateOnly DEF LatestInv, ViewOfLatest
  <2> QED BY <2>1, <2>2 DEF LatestInv, AtMostOneRead
<1>2. CASE UNCHANGED <<reads, view>>
  BY <1>2 DEF LatestInv, AtMostOneRead, ViewOfLatest
<1> QED BY <1>1, <1>2 DEF Refresh, Idle

LEMMA AnswersStep ==
  ASSUME LatestInv, NEW i \in 1 .. Len(reads), NEW calls,
         Answer(i, calls) \/ ReadCompletes(i, calls) \/ ReadFails(i)
  PROVE  LatestInv'
<1>1. PICK pending, s :
        /\ reads = <<[pending |-> pending, snapshot |-> s, overruled |-> FALSE]>>
        /\ i = 1
  BY TheRead DEF LatestInv
<1>2. CASE Answer(i, calls)
  <2>1. PICK next : next = Answered(s, calls, machineId, beneficiary)
    OBVIOUS
  <2>2. reads' = <<[pending |-> pending \ calls, snapshot |-> next, overruled |-> FALSE]>>
    <3>1. PICK read : /\ read = [pending |-> pending, snapshot |-> s, overruled |-> FALSE]
                      /\ reads = <<read>>
      BY <1>1
    <3>2. AnswerCalls(read, calls, machineId, beneficiary)
            = [read EXCEPT !.pending = pending \ calls, !.snapshot = next]
      BY <2>1, <3>1 DEF AnswerCalls
    <3>3. [read EXCEPT !.pending = pending \ calls, !.snapshot = next]
            = [pending |-> pending \ calls, snapshot |-> next, overruled |-> FALSE]
      <4> DEFINE P == {pending, pending \ calls}
                 R == [pending : P, snapshot : {s, next}, overruled : BOOLEAN]
                 new == [read EXCEPT !.pending = pending \ calls, !.snapshot = next]
      <4>1. pending \in P /\ pending \ calls \in P
        OBVIOUS
      <4> HIDE DEF P
      <4>2. /\ read \in R /\ new \in R
            /\ new.pending = pending \ calls /\ new.snapshot = next
            /\ new.overruled = read.overruled
        BY <3>1, <4>1
      <4>3. read.overruled = FALSE
        BY <3>1
      <4> HIDE DEF new
      <4> QED BY <4>2, <4>3
    <3>4. reads' = [<<read>> EXCEPT ![1] = AnswerCalls(read, calls, machineId, beneficiary)]
      BY <1>1, <1>2, <3>1 DEF Answer
    <3> QED BY <3>2, <3>3, <3>4, OnlyEntry
  <2>3. view' = view
    BY <1>2 DEF Answer
  <2> QED BY <2>2, <2>3 DEF LatestInv, AtMostOneRead, ViewOfLatest
<1>3. CASE ReadCompletes(i, calls)
  <2>1. reads' = <<>>
    BY <1>1, <1>3, LastReadEnds DEF ReadCompletes
  <2>2. PICK state, new :
          view' = [state |-> state, snapshot |-> new, hasSnapshot |-> TRUE,
                   overruled |-> reads[i].overruled]
    BY <1>3 DEF ReadCompletes
  <2>3. reads[i].overruled = FALSE
    BY <1>1
  <2> QED BY <2>1, <2>2, <2>3 DEF LatestInv, AtMostOneRead, ViewOfLatest
<1>4. CASE ReadFails(i)
  <2>1. reads' = <<>>
    BY <1>1, <1>4, LastReadEnds DEF ReadFails
  <2>2. view' = Locked
    BY <1>4 DEF ReadFails, Failed
  <2> QED BY <2>1, <2>2 DEF LatestInv, AtMostOneRead, ViewOfLatest, Locked
<1> QED BY <1>2, <1>3, <1>4

LEMMA LatestNext == LatestInv /\ [Next]_vars => LatestInv'
<1> SUFFICES ASSUME LatestInv, [Next]_vars PROVE LatestInv'
  OBVIOUS
<1>1. CASE Poll \/ Show
  BY <1>1, RefreshStep DEF Poll, Show
<1>2. CASE Tick
  BY <1>2, StateOnly DEF Tick, LatestInv, AtMostOneRead
<1>3. CASE Answers \/ \E i \in 1 .. Len(reads) : ReadFails(i)
  BY <1>3, AnswersStep DEF Answers
<1>4. CASE (ChainNext /\ UNCHANGED deviceVars) \/ Hide \/ DeviceClock \/ UNCHANGED vars
  BY <1>4 DEF LatestInv, AtMostOneRead, ViewOfLatest, deviceVars, vars, Hide, DeviceClock
<1> QED BY <1>1, <1>2, <1>3, <1>4 DEF Next

(***************************************************************************)
(* However the answers of a read are spread over the chain's blocks, and   *)
(* whatever fails, hides or is polled meanwhile, an unlocked view is never *)
(* that of a read which began before one that closed the terminal ended.   *)
(***************************************************************************)
THEOREM LateAnswersAreHarmless == Spec => []LateReadNeverUnlocks
<1>1. Init => LatestInv
  BY DEF Init, LatestInv, AtMostOneRead, ViewOfLatest, Locked
<1>2. LatestInv => LateReadNeverUnlocks
  BY DEF LatestInv, ViewOfLatest, LateReadNeverUnlocks
<1> QED BY <1>1, <1>2, LatestNext, PTL DEF Spec
=============================================================================
