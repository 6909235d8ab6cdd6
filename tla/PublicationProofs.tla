-------------------------- MODULE PublicationProofs --------------------------
(***************************************************************************)
(* What publishing guarantees for any operators, machines, drafts, catalog *)
(* and number of transactions: the replay of the logs is the state, and a  *)
(* stored session says only what the chains confirmed.                     *)
(***************************************************************************)
EXTENDS Publication, FoldProofs

-----------------------------------------------------------------------------
(* The registries and their logs.                                          *)

\* What registerMachine and the mutators leave in a machine that exists.
RegisteredRecord ==
  [owner : Operator, controller : Controller, metadataHash : MetadataHash,
   tariff : Price \ {0}, active : BOOLEAN]

MachineStates == [OrZero(Machine) -> {NoMachine} \cup RegisteredRecord]
OfferStates == [OrZero(Machine) -> Offer]

MachineLog ==
  [name : {"MachineRegistered", "MachineControllerUpdated", "MachineMetadataUpdated",
           "MachineTariffUpdated", "MachineStatusUpdated"},
   machineId : Machine, args : RegisteredRecord]
OfferLog == [machineId : Machine, args : Offer]

RegistriesOK ==
  /\ owner \in Operator
  /\ machines \in MachineStates
  /\ machineOffers \in OfferStates
  /\ machineLogs \in Seq(MachineLog)
  /\ offerLogs \in Seq(OfferLog)
  /\ machineMetadata \subseteq MetadataHash

RegistriesInv == RegistriesOK /\ ReplayMatchesState

(***************************************************************************)
(* A log more is replayed last: the recursion equation of the two replays. *)
(***************************************************************************)
NoMachines == [m \in OrZero(Machine) |-> NoMachine]

MachineReplays(logs) ==
  [i \in 1 .. Len(logs) |-> [v \in MachineStates |-> ReplayMachineLog(v, logs[i])]]

LEMMA MachineLogType ==
  ASSUME NEW v \in MachineStates, NEW log \in MachineLog
  PROVE  ReplayMachineLog(v, log) \in MachineStates
<1> DEFINE m == log.machineId
<1>1. /\ m \in OrZero(Machine) /\ log.args \in RegisteredRecord
      /\ v[m] \in {NoMachine} \cup RegisteredRecord
  BY DEF MachineLog, MachineStates, OrZero
<1>2. CASE log.name # "MachineRegistered" /\ v[m] = NoMachine
  BY <1>2 DEF ReplayMachineLog
<1>3. CASE log.name = "MachineRegistered" \/ v[m] # NoMachine
  <2>1. Overwritten(v[m], log) \in RegisteredRecord
    BY <1>1, <1>3 DEF Overwritten, MachineLog, RegisteredRecord
  <2>2. ReplayMachineLog(v, log) = [v EXCEPT ![m] = Overwritten(v[m], log)]
    BY <1>3 DEF ReplayMachineLog
  <2> HIDE DEF m
  <2> QED
    BY <1>1, <2>1, <2>2 DEF MachineStates
<1> QED
  BY <1>2, <1>3

LEMMA MachineReplaysType ==
  ASSUME NEW logs \in Seq(MachineLog)
  PROVE  /\ NoMachines \in MachineStates
         /\ MachineReplays(logs) \in [1 .. Len(logs) -> [MachineStates -> MachineStates]]
<1>1. \A i \in 1 .. Len(logs) : logs[i] \in MachineLog
  OBVIOUS
<1>2. NoMachines \in MachineStates
  BY DEF NoMachines, MachineStates
<1> QED
  BY <1>1, <1>2, MachineLogType DEF MachineReplays

LEMMA MachineReplay ==
  ASSUME NEW logs \in Seq(MachineLog)
  PROVE  \E g : /\ InOrder(g, 1 .. Len(logs), NoMachines, MachineReplays(logs))
               /\ ReplayMachineLogs(logs) = g[1 .. Len(logs)]
<1> DEFINE n == Len(logs)
           Step(g) == [s \in SUBSET (DOMAIN logs) |->
                         IF s = {} THEN NoMachines
                         ELSE ReplayMachineLog(g[s \ {Max(s)}], logs[Max(s)])]
           iter == CHOOSE g : g = Step(g)
<1>1. n \in Nat /\ DOMAIN logs = 1 .. n
  OBVIOUS
<1>2. /\ NoMachines \in MachineStates
      /\ MachineReplays(logs) \in [1 .. n -> [MachineStates -> MachineStates]]
  BY MachineReplaysType
<1>3. \A s \in SUBSET (1 .. n), v \in MachineStates : s # {} =>
        MachineReplays(logs)[Max(s)][v] = ReplayMachineLog(v, logs[Max(s)])
  BY <1>1, LatestIsIn DEF MachineReplays
<1>4. PICK g : /\ g = [s \in SUBSET (1 .. n) |-> g[s]]
               /\ InOrder(g, 1 .. n, NoMachines, MachineReplays(logs))
               /\ \A s \in SUBSET (1 .. n) : g[s] \in MachineStates
  BY <1>1, <1>2, InOrderExists
<1>5. g = Step(g)
  <2>1. \A s \in SUBSET (1 .. n) : s \ {Max(s)} \in SUBSET (1 .. n)
    OBVIOUS
  <2> QED
    BY <1>1, <1>3, <1>4, <2>1 DEF InOrder
<1>6. iter = Step(iter)
  <2> HIDE DEF Step
  <2> QED
    BY <1>5
<1>7. ReplayMachineLogs(logs) = iter[1 .. n]
  BY <1>1 DEF ReplayMachineLogs, FoldLeft, MapThenFoldSet, NoMachines
<1> HIDE DEF iter
<1>8. InOrder(iter, 1 .. n, NoMachines, MachineReplays(logs))
  <2>1. iter[{}] = NoMachines
    BY <1>6
  <2>2. \A s \in SUBSET (1 .. n) : s # {} /\ iter[s \ {Max(s)}] \in MachineStates =>
          iter[s] = MachineReplays(logs)[Max(s)][iter[s \ {Max(s)}]]
    BY <1>1, <1>3, <1>6
  <2> HIDE DEF n
  <2> QED
    BY <1>1, <1>2, <2>1, <2>2, InOrderTyped
<1> QED
  BY <1>7, <1>8

LEMMA MachineReplayAppend ==
  ASSUME NEW logs \in Seq(MachineLog), NEW log \in MachineLog
  PROVE  ReplayMachineLogs(Append(logs, log)) = ReplayMachineLog(ReplayMachineLogs(logs), log)
<1> DEFINE n == Len(logs)
           longer == Append(logs, log)
<1>1. /\ longer \in Seq(MachineLog) /\ Len(longer) = n + 1 /\ n \in Nat
      /\ longer[n + 1] = log /\ \A i \in 1 .. n : longer[i] = logs[i]
  OBVIOUS
<1>2. PICK g : /\ InOrder(g, 1 .. n, NoMachines, MachineReplays(logs))
               /\ ReplayMachineLogs(logs) = g[1 .. n]
  BY MachineReplay
<1>3. PICK h : /\ InOrder(h, 1 .. (n + 1), NoMachines, MachineReplays(longer))
               /\ ReplayMachineLogs(longer) = h[1 .. (n + 1)]
  BY <1>1, MachineReplay
<1>4. /\ \A i \in 1 .. n : MachineReplays(longer)[i] = MachineReplays(logs)[i]
      /\ MachineReplays(longer)[n + 1] = [v \in MachineStates |-> ReplayMachineLog(v, log)]
  BY <1>1 DEF MachineReplays
<1> HIDE DEF longer, n
<1>5. /\ g[1 .. n] \in MachineStates
      /\ h[1 .. (n + 1)] = MachineReplays(longer)[n + 1][g[1 .. n]]
  <2> DEFINE G == MachineReplays(logs)
             H == MachineReplays(longer)
  <2>1. NoMachines \in MachineStates /\ G \in [1 .. n -> [MachineStates -> MachineStates]]
    BY MachineReplaysType DEF n
  <2>2. \A i \in 1 .. n : H[i] = G[i]
    BY <1>4
  <2>3. InOrder(g, 1 .. n, NoMachines, G) /\ InOrder(h, 1 .. (n + 1), NoMachines, H)
    BY <1>2, <1>3
  <2> HIDE DEF G, H
  <2>4. g[1 .. n] \in MachineStates /\ h[1 .. (n + 1)] = H[n + 1][g[1 .. n]]
    <3>1. n \in Nat
      BY <1>1
    <3>2. Continues(n, MachineStates, NoMachines, G, H, g, h)
      BY <3>1, <2>1, <2>2, <2>3 DEF Continues
    <3> QED
      BY <3>2, InOrderAppend
  <2> QED
    BY <2>4 DEF H
<1> QED
  BY <1>2, <1>3, <1>4, <1>5 DEF longer

NoOffers == [m \in OrZero(Machine) |-> NoOffer]

OfferReplays(logs) ==
  [i \in 1 .. Len(logs) |-> [v \in OfferStates |-> ReplayOfferLog(v, logs[i])]]

LEMMA OfferReplaysType ==
  ASSUME NEW logs \in Seq(OfferLog)
  PROVE  /\ NoOffers \in OfferStates
         /\ OfferReplays(logs) \in [1 .. Len(logs) -> [OfferStates -> OfferStates]]
<1>1. \A i \in 1 .. Len(logs) : logs[i] \in OfferLog
  OBVIOUS
<1>2. NoOffers \in OfferStates
  BY BoundsAreNat DEF NoOffers, OfferStates, NoOffer, Offer, OrZero, Price
<1>3. \A v \in OfferStates, log \in OfferLog : ReplayOfferLog(v, log) \in OfferStates
  BY DEF ReplayOfferLog, OfferStates, OfferLog
<1> QED
  BY <1>1, <1>2, <1>3 DEF OfferReplays

LEMMA OfferReplay ==
  ASSUME NEW logs \in Seq(OfferLog)
  PROVE  \E g : /\ InOrder(g, 1 .. Len(logs), NoOffers, OfferReplays(logs))
               /\ ReplayOfferLogs(logs) = g[1 .. Len(logs)]
<1> DEFINE n == Len(logs)
           Step(g) == [s \in SUBSET (DOMAIN logs) |->
                         IF s = {} THEN NoOffers
                         ELSE ReplayOfferLog(g[s \ {Max(s)}], logs[Max(s)])]
           iter == CHOOSE g : g = Step(g)
<1>1. n \in Nat /\ DOMAIN logs = 1 .. n
  OBVIOUS
<1>2. /\ NoOffers \in OfferStates
      /\ OfferReplays(logs) \in [1 .. n -> [OfferStates -> OfferStates]]
  BY OfferReplaysType
<1>3. \A s \in SUBSET (1 .. n), v \in OfferStates : s # {} =>
        OfferReplays(logs)[Max(s)][v] = ReplayOfferLog(v, logs[Max(s)])
  BY <1>1, LatestIsIn DEF OfferReplays
<1>4. PICK g : /\ g = [s \in SUBSET (1 .. n) |-> g[s]]
               /\ InOrder(g, 1 .. n, NoOffers, OfferReplays(logs))
               /\ \A s \in SUBSET (1 .. n) : g[s] \in OfferStates
  BY <1>1, <1>2, InOrderExists
<1>5. g = Step(g)
  <2>1. \A s \in SUBSET (1 .. n) : s \ {Max(s)} \in SUBSET (1 .. n)
    OBVIOUS
  <2> QED
    BY <1>1, <1>3, <1>4, <2>1 DEF InOrder
<1>6. iter = Step(iter)
  <2> HIDE DEF Step
  <2> QED
    BY <1>5
<1>7. ReplayOfferLogs(logs) = iter[1 .. n]
  BY <1>1 DEF ReplayOfferLogs, FoldLeft, MapThenFoldSet, NoOffers
<1> HIDE DEF iter
<1>8. InOrder(iter, 1 .. n, NoOffers, OfferReplays(logs))
  <2>1. iter[{}] = NoOffers
    BY <1>6
  <2>2. \A s \in SUBSET (1 .. n) : s # {} /\ iter[s \ {Max(s)}] \in OfferStates =>
          iter[s] = OfferReplays(logs)[Max(s)][iter[s \ {Max(s)}]]
    BY <1>1, <1>3, <1>6
  <2> HIDE DEF n
  <2> QED
    BY <1>1, <1>2, <2>1, <2>2, InOrderTyped
<1> QED
  BY <1>7, <1>8

LEMMA OfferReplayAppend ==
  ASSUME NEW logs \in Seq(OfferLog), NEW log \in OfferLog
  PROVE  ReplayOfferLogs(Append(logs, log)) = ReplayOfferLog(ReplayOfferLogs(logs), log)
<1> DEFINE n == Len(logs)
           longer == Append(logs, log)
<1>1. /\ longer \in Seq(OfferLog) /\ Len(longer) = n + 1 /\ n \in Nat
      /\ longer[n + 1] = log /\ \A i \in 1 .. n : longer[i] = logs[i]
  OBVIOUS
<1>2. PICK g : /\ InOrder(g, 1 .. n, NoOffers, OfferReplays(logs))
               /\ ReplayOfferLogs(logs) = g[1 .. n]
  BY OfferReplay
<1>3. PICK h : /\ InOrder(h, 1 .. (n + 1), NoOffers, OfferReplays(longer))
               /\ ReplayOfferLogs(longer) = h[1 .. (n + 1)]
  BY <1>1, OfferReplay
<1>4. /\ \A i \in 1 .. n : OfferReplays(longer)[i] = OfferReplays(logs)[i]
      /\ OfferReplays(longer)[n + 1] = [v \in OfferStates |-> ReplayOfferLog(v, log)]
  BY <1>1 DEF OfferReplays
<1> HIDE DEF longer, n
<1>5. /\ g[1 .. n] \in OfferStates
      /\ h[1 .. (n + 1)] = OfferReplays(longer)[n + 1][g[1 .. n]]
  <2> DEFINE G == OfferReplays(logs)
             H == OfferReplays(longer)
  <2>1. NoOffers \in OfferStates /\ G \in [1 .. n -> [OfferStates -> OfferStates]]
    BY OfferReplaysType DEF n
  <2>2. \A i \in 1 .. n : H[i] = G[i]
    BY <1>4
  <2>3. InOrder(g, 1 .. n, NoOffers, G) /\ InOrder(h, 1 .. (n + 1), NoOffers, H)
    BY <1>2, <1>3
  <2> HIDE DEF G, H
  <2>4. g[1 .. n] \in OfferStates /\ h[1 .. (n + 1)] = H[n + 1][g[1 .. n]]
    <3>1. n \in Nat
      BY <1>1
    <3>2. Continues(n, OfferStates, NoOffers, G, H, g, h)
      BY <3>1, <2>1, <2>2, <2>3 DEF Continues
    <3> QED
      BY <3>2, InOrderAppend
  <2> QED
    BY <2>4 DEF H
<1> QED
  BY <1>2, <1>3, <1>4, <1>5 DEF longer

\* The log a call of an operator leaves, once it is mined.
LoggedCall(caller, call) ==
  /\ call.method = "registerMachine" =>
       [name |-> "MachineRegistered", machineId |-> call.machineId,
        args |-> [owner |-> caller, controller |-> call.controller,
                  metadataHash |-> call.metadataHash, tariff |-> call.tariff,
                  active |-> call.active]] \in ToSet(machineLogs)
  /\ call.method = "setMachineOffer" =>
       [machineId |-> call.machineId,
        args |-> [beneficiary |-> call.beneficiary, pricePerSecond |-> call.tariff,
                  active |-> call.active]] \in ToSet(offerLogs)

LEMMA EmptyReplays ==
  /\ ReplayMachineLogs(<<>>) = NoMachines
  /\ ReplayOfferLogs(<<>>) = NoOffers
<1>1. /\ <<>> \in Seq(MachineLog) /\ <<>> \in Seq(OfferLog)
      /\ 1 .. Len(<<>>) = {} /\ {} \in SUBSET {}
  OBVIOUS
<1>2. ReplayMachineLogs(<<>>) = NoMachines
  <2>1. PICK g : /\ InOrder(g, {}, NoMachines, MachineReplays(<<>>))
                 /\ ReplayMachineLogs(<<>>) = g[{}]
    BY <1>1, MachineReplay
  <2> QED
    BY <1>1, <2>1 DEF InOrder
<1>3. ReplayOfferLogs(<<>>) = NoOffers
  <2>1. PICK g : /\ InOrder(g, {}, NoOffers, OfferReplays(<<>>))
                 /\ ReplayOfferLogs(<<>>) = g[{}]
    BY <1>1, OfferReplay
  <2> QED
    BY <1>1, <2>1 DEF InOrder
<1> QED
  BY <1>2, <1>3

\* Nothing that was logged or stored is forgotten.
Grows ==
  /\ ToSet(machineLogs) \subseteq ToSet(machineLogs')
  /\ ToSet(offerLogs) \subseteq ToSet(offerLogs')
  /\ machineMetadata \subseteq machineMetadata'

LEMMA RegistriesInitially == MarketInit => RegistriesInv
<1> SUFFICES ASSUME MarketInit PROVE RegistriesInv
  OBVIOUS
<1>1. machines = NoMachines /\ machineOffers = NoOffers
  BY DEF MarketInit, MachinesInit, RegistryInit, NoMachines, NoOffers
<1>2. NoMachines \in MachineStates /\ NoOffers \in OfferStates
  <2>1. <<>> \in Seq(MachineLog) /\ <<>> \in Seq(OfferLog)
    OBVIOUS
  <2> QED
    BY <2>1, MachineReplaysType, OfferReplaysType
<1> QED
  BY <1>1, <1>2, EmptyReplays
  DEF MarketInit, RegistryInit, RegistriesInv, RegistriesOK, ReplayMatchesState

(***************************************************************************)
(* Every mutator of MachineRegistry emits the event of its change.         *)
(***************************************************************************)
LEMMA MachineEmits ==
  ASSUME RegistriesInv, NEW caller \in Operator, NEW call \in Call,
         MachineTransaction(caller, call)
  PROVE  \E log \in MachineLog :
           /\ machineLogs' = Append(machineLogs, log)
           /\ machines' = ReplayMachineLog(machines, log)
           /\ call.method = "registerMachine" =>
                log = [name |-> "MachineRegistered", machineId |-> call.machineId,
                       args |-> [owner |-> caller, controller |-> call.controller,
                                 metadataHash |-> call.metadataHash, tariff |-> call.tariff,
                                 active |-> call.active]]
<1> DEFINE m == call.machineId
           Log(name) == [name |-> name, machineId |-> m, args |-> machines'[m]]
<1>1. /\ m \in Machine /\ m \in OrZero(Machine) /\ m # Zero
      /\ call.controller \in Controller /\ call.metadataHash \in MetadataHash
      /\ call.tariff \in Price \ {0} /\ call.active \in BOOLEAN
  BY ZeroIsReserved DEF Call, OrZero
<1>2. machines \in MachineStates /\ machines[m] \in {NoMachine} \cup RegisteredRecord
  BY <1>1 DEF RegistriesInv, RegistriesOK, MachineStates
<1>3. OnlyMachineOwner(caller, m) => machines[m] \in RegisteredRecord /\ machines[m] # NoMachine
  BY <1>2 DEF OnlyMachineOwner, NoMachine
<1> HIDE DEF m
<1>4. CASE /\ RegisterMachine(caller, m, call.controller, call.metadataHash, call.tariff, call.active)
           /\ EmitMachine("MachineRegistered", m) /\ call.method = "registerMachine"
  <2> DEFINE record == [owner |-> caller, controller |-> call.controller,
                        metadataHash |-> call.metadataHash, tariff |-> call.tariff,
                        active |-> call.active]
             log == [name |-> "MachineRegistered", machineId |-> m, args |-> record]
  <2>1. record \in RegisteredRecord
    BY <1>1 DEF RegisteredRecord
  <2>2. machines' = [machines EXCEPT ![m] = record]
    BY <1>4 DEF RegisterMachine
  <2> HIDE DEF record
  <2>3. machines'[m] = record
    BY <1>1, <1>2, <2>2 DEF MachineStates
  <2>4. log \in MachineLog /\ log.name = "MachineRegistered" /\ log.machineId = m /\ log.args = record
    BY <1>1, <2>1 DEF MachineLog
  <2>5. machineLogs' = Append(machineLogs, log)
    BY <1>4, <2>3 DEF EmitMachine
  <2> HIDE DEF log
  <2>6. machines' = ReplayMachineLog(machines, log)
    BY <2>2, <2>4 DEF ReplayMachineLog, Overwritten
  <2> QED
    BY <2>4, <2>5, <2>6 DEF log, record, m
<1>5. CASE /\ UpdateController(caller, m, call.controller)
           /\ EmitMachine("MachineControllerUpdated", m) /\ call.method = "updateController"
  <2> DEFINE record == [machines[m] EXCEPT !.controller = call.controller]
             log == [name |-> "MachineControllerUpdated", machineId |-> m, args |-> record]
  <2>1. machines[m] \in RegisteredRecord /\ machines[m] # NoMachine
    BY <1>3, <1>5 DEF UpdateController
  <2>2. machines' = [machines EXCEPT ![m] = record]
    BY <1>1, <1>2, <1>5 DEF UpdateController, MachineStates
  <2>3. record \in RegisteredRecord /\ record.controller = call.controller
    BY <1>1, <2>1 DEF RegisteredRecord
  <2>4. Overwritten(machines[m], log) = record
    BY <2>3 DEF Overwritten
  <2> HIDE DEF record
  <2>5. machines'[m] = record
    BY <1>1, <1>2, <2>2 DEF MachineStates
  <2>6. log \in MachineLog /\ log.machineId = m
    BY <1>1, <2>3 DEF MachineLog
  <2>7. machineLogs' = Append(machineLogs, log)
    BY <1>5, <2>5 DEF EmitMachine
  <2> HIDE DEF log
  <2>8. machines' = ReplayMachineLog(machines, log)
    BY <2>1, <2>2, <2>4, <2>6 DEF ReplayMachineLog
  <2> QED
    BY <1>5, <2>6, <2>7, <2>8
<1>6. CASE /\ UpdateMetadataHash(caller, m, call.metadataHash)
           /\ EmitMachine("MachineMetadataUpdated", m) /\ call.method = "updateMetadataHash"
  <2> DEFINE record == [machines[m] EXCEPT !.metadataHash = call.metadataHash]
             log == [name |-> "MachineMetadataUpdated", machineId |-> m, args |-> record]
  <2>1. machines[m] \in RegisteredRecord /\ machines[m] # NoMachine
    BY <1>3, <1>6 DEF UpdateMetadataHash
  <2>2. machines' = [machines EXCEPT ![m] = record]
    BY <1>1, <1>2, <1>6 DEF UpdateMetadataHash, MachineStates
  <2>3. record \in RegisteredRecord /\ record.metadataHash = call.metadataHash
    BY <1>1, <2>1 DEF RegisteredRecord
  <2>4. Overwritten(machines[m], log) = record
    BY <2>3 DEF Overwritten
  <2> HIDE DEF record
  <2>5. machines'[m] = record
    BY <1>1, <1>2, <2>2 DEF MachineStates
  <2>6. log \in MachineLog /\ log.machineId = m
    BY <1>1, <2>3 DEF MachineLog
  <2>7. machineLogs' = Append(machineLogs, log)
    BY <1>6, <2>5 DEF EmitMachine
  <2> HIDE DEF log
  <2>8. machines' = ReplayMachineLog(machines, log)
    BY <2>1, <2>2, <2>4, <2>6 DEF ReplayMachineLog
  <2> QED
    BY <1>6, <2>6, <2>7, <2>8
<1>7. CASE /\ UpdateTariff(caller, m, call.tariff)
           /\ EmitMachine("MachineTariffUpdated", m) /\ call.method = "updateTariff"
  <2> DEFINE record == [machines[m] EXCEPT !.tariff = call.tariff]
             log == [name |-> "MachineTariffUpdated", machineId |-> m, args |-> record]
  <2>1. machines[m] \in RegisteredRecord /\ machines[m] # NoMachine
    BY <1>3, <1>7 DEF UpdateTariff
  <2>2. machines' = [machines EXCEPT ![m] = record]
    BY <1>1, <1>2, <1>7 DEF UpdateTariff, MachineStates
  <2>3. record \in RegisteredRecord /\ record.tariff = call.tariff
    BY <1>1, <2>1 DEF RegisteredRecord
  <2>4. Overwritten(machines[m], log) = record
    BY <2>3 DEF Overwritten
  <2> HIDE DEF record
  <2>5. machines'[m] = record
    BY <1>1, <1>2, <2>2 DEF MachineStates
  <2>6. log \in MachineLog /\ log.machineId = m
    BY <1>1, <2>3 DEF MachineLog
  <2>7. machineLogs' = Append(machineLogs, log)
    BY <1>7, <2>5 DEF EmitMachine
  <2> HIDE DEF log
  <2>8. machines' = ReplayMachineLog(machines, log)
    BY <2>1, <2>2, <2>4, <2>6 DEF ReplayMachineLog
  <2> QED
    BY <1>7, <2>6, <2>7, <2>8
<1>8. CASE /\ SetMachineActive(caller, m, call.active)
           /\ EmitMachine("MachineStatusUpdated", m) /\ call.method = "setMachineActive"
  <2> DEFINE record == [machines[m] EXCEPT !.active = call.active]
             log == [name |-> "MachineStatusUpdated", machineId |-> m, args |-> record]
  <2>1. machines[m] \in RegisteredRecord /\ machines[m] # NoMachine
    BY <1>3, <1>8 DEF SetMachineActive
  <2>2. machines' = [machines EXCEPT ![m] = record]
    BY <1>1, <1>2, <1>8 DEF SetMachineActive, MachineStates
  <2>3. record \in RegisteredRecord /\ record.active = call.active
    BY <1>1, <2>1 DEF RegisteredRecord
  <2>4. Overwritten(machines[m], log) = record
    BY <2>3 DEF Overwritten
  <2> HIDE DEF record
  <2>5. machines'[m] = record
    BY <1>1, <1>2, <2>2 DEF MachineStates
  <2>6. log \in MachineLog /\ log.machineId = m
    BY <1>1, <2>3 DEF MachineLog
  <2>7. machineLogs' = Append(machineLogs, log)
    BY <1>8, <2>5 DEF EmitMachine
  <2> HIDE DEF log
  <2>8. machines' = ReplayMachineLog(machines, log)
    BY <2>1, <2>2, <2>4, <2>6 DEF ReplayMachineLog
  <2> QED
    BY <1>8, <2>6, <2>7, <2>8
<1> QED
  BY <1>4, <1>5, <1>6, <1>7, <1>8 DEF MachineTransaction, m

LEMMA MachineStep ==
  ASSUME RegistriesInv, NEW caller \in Operator, NEW call \in Call,
         MachineTransaction(caller, call)
  PROVE  RegistriesInv' /\ Grows /\ LoggedCall(caller, call)'
<1>1. PICK log \in MachineLog :
        /\ machineLogs' = Append(machineLogs, log)
        /\ machines' = ReplayMachineLog(machines, log)
        /\ call.method = "registerMachine" =>
             log = [name |-> "MachineRegistered", machineId |-> call.machineId,
                    args |-> [owner |-> caller, controller |-> call.controller,
                              metadataHash |-> call.metadataHash, tariff |-> call.tariff,
                              active |-> call.active]]
  BY MachineEmits
<1>2. /\ UNCHANGED <<owner, machineOffers, offerLogs, machineMetadata>>
      /\ call.method # "setMachineOffer"
  BY DEF MachineTransaction, EmitMachine, sepoliaVars, registryVars
<1>3. machineLogs \in Seq(MachineLog) /\ machines \in MachineStates /\ ReplayMatchesState
  BY DEF RegistriesInv, RegistriesOK
<1>4. machineLogs' \in Seq(MachineLog) /\ machines' \in MachineStates
  BY <1>1, <1>3, MachineLogType
<1>5. ReplayMatchesState'
  BY <1>1, <1>2, <1>3, MachineReplayAppend DEF ReplayMatchesState
<1>6. ToSet(machineLogs) \subseteq ToSet(machineLogs') /\ log \in ToSet(machineLogs')
  BY <1>1, <1>3 DEF ToSet
<1> QED
  BY <1>1, <1>2, <1>4, <1>5, <1>6 DEF RegistriesInv, RegistriesOK, Grows, LoggedCall

LEMMA OfferStep ==
  ASSUME RegistriesInv, NEW caller \in Operator, NEW call \in Call,
         OfferTransaction(caller, call)
  PROVE  RegistriesInv' /\ Grows /\ LoggedCall(caller, call)'
<1> DEFINE m == call.machineId
           offer == [beneficiary |-> call.beneficiary, pricePerSecond |-> call.tariff,
                     active |-> call.active]
           log == [machineId |-> m, args |-> offer]
<1>1. m \in Machine /\ offer \in Offer
  BY DEF Call, Offer, OrZero
<1>2. machineOffers \in OfferStates /\ offerLogs \in Seq(OfferLog) /\ ReplayMatchesState
  BY DEF RegistriesInv, RegistriesOK
<1>3. machineOffers' = [machineOffers EXCEPT ![m] = offer]
  BY DEF OfferTransaction, SetMachineOffer
<1>4. /\ UNCHANGED <<owner, machines, machineLogs, machineMetadata>>
      /\ call.method = "setMachineOffer"
  BY DEF OfferTransaction, SetMachineOffer
<1> HIDE DEF offer, m
<1>5. machineOffers' \in OfferStates /\ machineOffers'[m] = offer
  BY <1>1, <1>2, <1>3 DEF OfferStates, OrZero
<1>6. log \in OfferLog /\ log.machineId = m /\ log.args = offer
  BY <1>1 DEF OfferLog
<1>7. offerLogs' = Append(offerLogs, log)
  BY <1>5 DEF OfferTransaction, m
<1> HIDE DEF log
<1>8. machineOffers' = ReplayOfferLog(machineOffers, log)
  BY <1>3, <1>6 DEF ReplayOfferLog
<1>9. ReplayMatchesState'
  BY <1>2, <1>4, <1>6, <1>7, <1>8, OfferReplayAppend DEF ReplayMatchesState
<1>10. ToSet(offerLogs) \subseteq ToSet(offerLogs') /\ log \in ToSet(offerLogs')
  BY <1>2, <1>7 DEF ToSet
<1>11. offerLogs' \in Seq(OfferLog)
  BY <1>2, <1>6, <1>7
<1> QED
  BY <1>4, <1>5, <1>9, <1>10, <1>11
  DEF RegistriesInv, RegistriesOK, Grows, LoggedCall, log, offer, m

LEMMA RegistriesUnchanged ==
  ASSUME RegistriesInv, UNCHANGED <<machines, machineOffers, machineLogs, offerLogs>>,
         owner' \in Operator, machineMetadata \subseteq machineMetadata',
         machineMetadata' \subseteq MetadataHash
  PROVE  RegistriesInv' /\ Grows
BY DEF RegistriesInv, RegistriesOK, ReplayMatchesState, Grows

-----------------------------------------------------------------------------
(* The seed command.                                                       *)

SeedOK ==
  \/ seed = Stopped
  \/ seed \in [at : {"reading", "updating", "offering", "verifying"},
               index : 1 .. Len(Catalog), plan : Seq(Call)]

LEMMA EntryCallType ==
  ASSUME SeedOK, seed # Stopped,
         NEW method \in {"registerMachine", "updateController", "updateMetadataHash",
                         "updateTariff", "setMachineActive", "setMachineOffer"}
  PROVE  Entry.machineId \in Machine /\ EntryCall(method, Entry) \in Call
<1> DEFINE Entries == [machineId : Machine, metadataHash : MetadataHash, tariff : Price \ {0}]
<1>1. Entry \in Entries
  <2>1. seed.index \in 1 .. Len(Catalog)
    BY DEF SeedOK
  <2>2. Catalog \in Seq(Entries)
    BY SeedAssumption
  <2> HIDE DEF Entries
  <2> QED
    BY <2>1, <2>2 DEF Entry
<1> QED
  BY <1>1, SeedAssumption DEF EntryCall, Call

LEMMA UpdatesType ==
  ASSUME SeedOK, seed # Stopped, NEW current
  PROVE  Updates(current, Entry) \in Seq(Call)
<1> DEFINE If(differs, method) == IF differs THEN <<EntryCall(method, Entry)>> ELSE <<>>
           a == If(current.controller # Deployer, "updateController")
           b == If(current.metadataHash # Entry.metadataHash, "updateMetadataHash")
           c == If(current.tariff # Entry.tariff, "updateTariff")
           d == If(~current.active, "setMachineActive")
<1>1. <<EntryCall("registerMachine", Entry)>> \in Seq(Call)
  BY EntryCallType
<1>2. a \in Seq(Call) /\ b \in Seq(Call) /\ c \in Seq(Call) /\ d \in Seq(Call)
  BY EntryCallType
<1>3. Updates(current, Entry) = IF current.owner = Zero
                                THEN <<EntryCall("registerMachine", Entry)>>
                                ELSE a \o b \o c \o d
  BY DEF Updates
<1> HIDE DEF a, b, c, d
<1>4. a \o b \o c \o d \in Seq(Call)
  BY <1>2
<1> QED
  BY <1>1, <1>3, <1>4

LEMMA QuietKeeps ==
  ASSUME RegistriesInv, Quiet
  PROVE  RegistriesInv' /\ Grows
BY RegistriesUnchanged DEF Quiet, marketVars, RegistriesInv, RegistriesOK

LEMMA SeedKeeps ==
  ASSUME RegistriesInv, SeedOK, SeedStep \/ SeedAborts
  PROVE  RegistriesInv' /\ Grows /\ SeedOK'
<1>1. CASE SeedStart
  <2>1. Len(Catalog) \in Nat /\ Len(Catalog) >= 1
    BY SeedAssumption
  <2>2. seed' = [at |-> "reading", index |-> 1, plan |-> <<>>]
    BY <1>1 DEF SeedStart, Stopped
  <2>3. <<>> \in Seq(Call)
    OBVIOUS
  <2>4. SeedOK'
    BY <2>1, <2>2, <2>3 DEF SeedOK
  <2> QED
    BY <1>1, <2>4, QuietKeeps DEF SeedStart
<1>2. CASE SeedRead
  <2>1. seed # Stopped
    BY <1>2 DEF SeedRead, Stopped
  <2>2. Updates(machines[Entry.machineId], Entry) \in Seq(Call)
    BY <2>1, UpdatesType
  <2> HIDE DEF Stopped
  <2>3. SeedOK'
    BY <1>2, <2>1, <2>2 DEF SeedRead, SeedOK, Stopped
  <2> QED
    BY <1>2, <2>3, QuietKeeps DEF SeedRead
<1>3. CASE SeedSubmit
  <2>1. /\ seed # Stopped /\ seed.plan \in Seq(Call) /\ seed.plan # <<>>
        /\ seed.at = "updating"
    BY <1>3 DEF SeedSubmit, Stopped, SeedOK
  <2>2. CASE /\ MachineTransaction(Deployer, Head(seed.plan))
             /\ seed' = [seed EXCEPT !.plan = Tail(@)]
    <3>1. RegistriesInv' /\ Grows
      BY <2>1, <2>2, MachineStep, SeedAssumption
    <3>2. Tail(seed.plan) \in Seq(Call)
      BY <2>1
    <3> QED
      BY <2>1, <2>2, <3>1, <3>2 DEF SeedOK
  <2>3. CASE seed' = Stopped /\ Quiet
    BY <2>3, QuietKeeps DEF SeedOK
  <2> QED
    BY <1>3, <2>2, <2>3 DEF SeedSubmit
<1>4. CASE SeedOffer
  <2>1. seed # Stopped
    BY <1>4 DEF SeedOffer, Stopped
  <2>2. SeedOK'
    BY <1>4, <2>1 DEF SeedOffer, SeedOK
  <2> QED
    BY <1>4, <2>2, QuietKeeps DEF SeedOffer
<1>5. CASE SeedSetOffer
  <2>1. seed # Stopped
    BY <1>5 DEF SeedSetOffer, Stopped
  <2>2. CASE /\ OfferTransaction(Deployer, EntryCall("setMachineOffer", Entry))
             /\ seed' = [seed EXCEPT !.at = "verifying"]
    <3>1. RegistriesInv' /\ Grows
      BY <2>1, <2>2, OfferStep, EntryCallType, SeedAssumption
    <3> QED
      BY <2>1, <2>2, <3>1 DEF SeedOK
  <2>3. CASE seed' = Stopped /\ Quiet
    BY <2>3, QuietKeeps DEF SeedOK
  <2> QED
    BY <1>5, <2>2, <2>3 DEF SeedSetOffer
<1>6. CASE SeedVerify
  <2>1. seed # Stopped
    BY <1>6 DEF SeedVerify, Stopped
  <2>2. NextEntry(seed.index) = Stopped \/
        NextEntry(seed.index) \in [at : {"reading"}, index : 1 .. Len(Catalog), plan : Seq(Call)]
    BY <2>1, SeedAssumption DEF NextEntry, SeedOK
  <2>3. SeedOK'
    BY <1>6, <2>2 DEF SeedVerify, SeedOK
  <2> QED
    BY <1>6, <2>3, QuietKeeps DEF SeedVerify
<1>7. CASE SeedAborts
  BY <1>7, QuietKeeps DEF SeedAborts, SeedOK
<1> QED
  BY <1>1, <1>2, <1>3, <1>4, <1>5, <1>6, <1>7 DEF SeedStep

-----------------------------------------------------------------------------
(* The console.                                                            *)

\* The listed machines of a marketplace exist.
MarketOK(market) ==
  market \in Market /\ \A m \in market.listed : market.machine[m] \in RegisteredRecord

\* The call by which a session gets to its phase.
CallTo(s) ==
  CallOf(IF s.phase = "cc3_confirmed" THEN "registerMachine" ELSE "setMachineOffer",
         s.draft, s.account)

\* What is known of a session before the call to its phase, and after it.
Stored(s) == s.metadata = s.draft.metadataHash /\ s.metadata \in machineMetadata

Due(s) ==
  /\ Stored(s)
  /\ s.phase # "metadata_uploaded"
  /\ s.phase = "complete" =>
       LoggedCall(s.account, CallOf("registerMachine", s.draft, s.account))

Confirms(s) ==
  /\ Stored(s)
  /\ s.phase # "metadata_uploaded" =>
       LoggedCall(s.account, CallOf("registerMachine", s.draft, s.account))
  /\ s.phase = "complete" =>
       LoggedCall(s.account, CallOf("setMachineOffer", s.draft, s.account))

SentOK ==
  /\ sent \in Seq(Sent) /\ Len(sent) <= MaxSent
  /\ \A h \in DOMAIN sent : sent[h].status = "mined" => LoggedCall(sent[h].caller, sent[h].call)

StoredOK ==
  /\ onboarding \in [Operator -> Seq(OperatorSession)]
  /\ \A o \in Operator :
       /\ Len(onboarding[o]) <= 1
       /\ \A i \in DOMAIN onboarding[o] : onboarding[o][i].account = o
       /\ \A i \in DOMAIN onboarding[o] : Confirms(onboarding[o][i])

SessionOK ==
  /\ IsMaybe(console.session, OperatorSession)
  /\ \A i \in DOMAIN console.session : Confirms(console.session[i])

\* What a prompt or a receipt that is awaited will save.
StepOK ==
  /\ IsStep(console.step)
  /\ console.step.at = "uploading" =>
       /\ console.step.session.phase = "metadata_uploaded"
       /\ console.step.session.metadata = console.step.session.draft.metadataHash
  /\ console.step.at = "prompt" => \A i \in DOMAIN console.step.session :
       LET s == console.step.session[i] IN
       Due(s) /\ console.step.caller = s.account /\ console.step.call = CallTo(s)
  /\ console.step.at = "waiting" =>
       /\ console.step.hash \in DOMAIN sent
       /\ \A i \in DOMAIN console.step.session :
            LET s  == console.step.session[i]
                tx == sent[console.step.hash]
            IN  Due(s) /\ tx.caller = s.account /\ tx.call = CallTo(s)

ListingsOK ==
  /\ MarketOK(console.market)
  /\ IsMaybe(console.loading, Market)
  /\ \A i \in DOMAIN console.loading : MarketOK(console.loading[i])

IsPage ==
  console = [session |-> console.session, step |-> console.step, market |-> console.market,
             loading |-> console.loading, authority |-> console.authority,
             due |-> console.due, failed |-> console.failed]

\* What the page knows and asks of the registry's owner and the marketplace.
QueriesOK ==
  /\ console.authority \in OrZero(Operator)
  /\ console.due \subseteq Queries /\ console.failed \in BOOLEAN

ConsoleInv ==
  /\ SentOK
  /\ StoredOK
  /\ IsPage
  /\ SessionOK
  /\ StepOK
  /\ ListingsOK
  /\ QueriesOK
  /\ account \in OrZero(Operator)
  /\ mishaps \in 0 .. MaxMishaps

PublicationInv == RegistriesInv /\ SeedOK /\ ConsoleInv

-----------------------------------------------------------------------------
(* What is known stays known while the chains and the relay only add.      *)

LEMMA EmptyMarketOK == MarketOK(EmptyMarket)
<1>1. NoMachine \in MachineRecord /\ NoOffer \in Offer
  BY BoundsAreNat DEF NoMachine, MachineRecord, NoOffer, Offer, OrZero, Price
<1> QED
  BY <1>1 DEF MarketOK, EmptyMarket, Market

LEMMA KnownStays ==
  ASSUME Grows
  PROVE  /\ \A caller, call : LoggedCall(caller, call) => LoggedCall(caller, call)'
         /\ \A s : Stored(s) => Stored(s)'
         /\ \A s : Due(s) => Due(s)'
         /\ \A s : Confirms(s) => Confirms(s)'
<1>1. \A caller, call : LoggedCall(caller, call) => LoggedCall(caller, call)'
  BY DEF Grows, LoggedCall
<1>2. \A s : Stored(s) => Stored(s)'
  BY DEF Grows, Stored
<1> QED
  BY <1>1, <1>2 DEF Due, Confirms

\* The calls and callers of the transactions already sent do not change.
SentStays ==
  \A h \in DOMAIN sent :
    h \in DOMAIN sent' /\ sent'[h].caller = sent[h].caller /\ sent'[h].call = sent[h].call

LEMMA PageStays ==
  ASSUME ConsoleInv, Grows
  PROVE  /\ onboarding' = onboarding => StoredOK'
         /\ console'.session \in {console.session, <<>>} => SessionOK'
         /\ console'.step = console.step /\ SentStays => StepOK'
         /\ sent' = sent => SentOK' /\ SentStays
<1>1. onboarding' = onboarding => StoredOK'
  BY KnownStays DEF ConsoleInv, StoredOK
<1>2. console'.session \in {console.session, <<>>} => SessionOK'
  <2>1. IsMaybe(<<>>, OperatorSession) /\ DOMAIN <<>> = {}
    BY DEF IsMaybe
  <2> QED
    BY <2>1, KnownStays DEF ConsoleInv, SessionOK, IsMaybe
<1>3. console'.step = console.step /\ SentStays => StepOK'
  <2> SUFFICES ASSUME console'.step = console.step, SentStays PROVE StepOK'
    OBVIOUS
  <2>1. IsStep(console.step)'
    BY DEF ConsoleInv, StepOK, IsStep
  <2>2. ASSUME console.step.at = "prompt", NEW i \in DOMAIN console.step.session
        PROVE  Due(console.step.session[i])' /\ console.step.caller = console.step.session[i].account
               /\ console.step.call = CallTo(console.step.session[i])
    BY <2>2, KnownStays DEF ConsoleInv, StepOK
  <2>3. ASSUME console.step.at = "waiting"
        PROVE  /\ console.step.hash \in DOMAIN sent'
               /\ \A i \in DOMAIN console.step.session :
                    /\ Due(console.step.session[i])'
                    /\ sent'[console.step.hash].caller = console.step.session[i].account
                    /\ sent'[console.step.hash].call = CallTo(console.step.session[i])
    BY <2>3, KnownStays DEF ConsoleInv, StepOK, SentStays
  <2> QED
    BY <2>1, <2>2, <2>3 DEF ConsoleInv, StepOK, CallTo
<1>4. sent' = sent => SentOK' /\ SentStays
  BY KnownStays DEF ConsoleInv, SentOK, SentStays
<1> QED
  BY <1>1, <1>2, <1>3, <1>4

\* Steps that neither the console nor the wallet takes part in.
LEMMA ConsoleStays ==
  ASSUME ConsoleInv, Grows, UNCHANGED consoleVars
  PROVE  ConsoleInv'
BY PageStays DEF ConsoleInv, consoleVars, IsPage, ListingsOK, MarketOK, QueriesOK, SentStays

\* Chains and relay untouched, or the relay stores a document.
Offchain ==
  /\ UNCHANGED Chains
  /\ machineMetadata \subseteq machineMetadata' /\ machineMetadata' \subseteq MetadataHash

LEMMA OffchainKeeps ==
  ASSUME RegistriesInv, Offchain
  PROVE  RegistriesInv' /\ Grows
BY RegistriesUnchanged
DEF Offchain, Chains, sepoliaVars, registryVars, RegistriesInv, RegistriesOK

-----------------------------------------------------------------------------
(* The console's steps.                                                    *)

Keeps == RegistriesInv' /\ Grows /\ ConsoleInv'

LEMMA CallOfType ==
  ASSUME NEW draft \in Draft \cup Policy, NEW beneficiary \in Operator,
         NEW method \in {"registerMachine", "updateController", "updateMetadataHash",
                         "updateTariff", "setMachineActive", "setMachineOffer"},
         NEW m \in Machine
  PROVE  /\ CallOf(method, draft, beneficiary) \in Call
         /\ CallOf(method, [draft EXCEPT !.machineId = m], beneficiary) \in Call
         /\ draft.metadataHash \in MetadataHash
<1>1. draft \in [machineId : Machine, controller : Controller, metadataHash : MetadataHash,
                 tariff : Price \ {0}, active : BOOLEAN]
  BY OnboardingAssumption
<1> QED
  BY <1>1 DEF CallOf, Call

\* A handler reaches its next await: only the page's step changes.
LEMMA StepTaken ==
  ASSUME RegistriesInv, ConsoleInv, Offchain, NEW step,
         console' = [console EXCEPT !.step = step], StepOK',
         UNCHANGED <<onboarding, account, sent>>, mishaps' \in 0 .. MaxMishaps
  PROVE  Keeps
<1>1. RegistriesInv' /\ Grows
  BY OffchainKeeps
<1>2. /\ console' = [session |-> console.session, step |-> step, market |-> console.market,
                     loading |-> console.loading, authority |-> console.authority,
                     due |-> console.due, failed |-> console.failed]
  BY DEF ConsoleInv, IsPage
<1>3. IsPage' /\ ListingsOK' /\ QueriesOK' /\ console'.session = console.session
  BY <1>2 DEF ConsoleInv, IsPage, ListingsOK, MarketOK, QueriesOK
<1> QED
  BY <1>1, <1>3, PageStays DEF ConsoleInv, Keeps

\* The next await is a prompt.
LEMMA Prompts ==
  ASSUME RegistriesInv, ConsoleInv, Offchain,
         NEW caller \in Operator, NEW call \in Call, NEW session \in Seq(OperatorSession),
         \A i \in DOMAIN session :
           Due(session[i]) /\ caller = session[i].account /\ call = CallTo(session[i]),
         console' = [console EXCEPT !.step = [at |-> "prompt", caller |-> caller, call |-> call,
                                              session |-> session]],
         UNCHANGED <<onboarding, account, sent>>, mishaps' \in 0 .. MaxMishaps
  PROVE  Keeps
<1> DEFINE step == [at |-> "prompt", caller |-> caller, call |-> call, session |-> session]
<1>1. console'.step = step
  BY DEF ConsoleInv, IsPage
<1>2. IsStep(step)
  BY DEF IsStep
<1>3. \A i \in DOMAIN session : Due(session[i])'
  BY OffchainKeeps, KnownStays
<1>4. StepOK'
  BY <1>1, <1>2, <1>3 DEF StepOK, IsStep, CallTo
<1> HIDE DEF step
<1> QED
  BY <1>4, StepTaken DEF step

\* A prompt whose receipt saves nothing.
LEMMA PromptsNothing ==
  ASSUME RegistriesInv, ConsoleInv, Offchain,
         NEW caller \in Operator, NEW call \in Call,
         console' = [console EXCEPT !.step = [at |-> "prompt", caller |-> caller, call |-> call,
                                              session |-> <<>>]],
         UNCHANGED <<onboarding, account, sent>>, mishaps' \in 0 .. MaxMishaps
  PROVE  Keeps
<1>1. <<>> \in Seq(OperatorSession) /\ DOMAIN <<>> = {}
  OBVIOUS
<1> QED
  BY <1>1, Prompts

LEMMA MachineOfDraft == \A draft \in Draft : draft.machineId \in Machine
BY OnboardingAssumption

\* The wizard's two transactions.
LEMMA SignsKeeps ==
  ASSUME RegistriesInv, ConsoleInv,
         NEW caller \in Operator, NEW call \in Call, NEW session \in OperatorSession,
         Due(session), caller = session.account, call = CallTo(session),
         Signs(caller, call, <<session>>)
  PROVE  Keeps
<1>1. <<session>> \in Seq(OperatorSession) /\ \A i \in DOMAIN <<session>> : <<session>>[i] = session
  OBVIOUS
<1>2. /\ console' = [console EXCEPT !.step = [at |-> "prompt", caller |-> caller, call |-> call,
                                              session |-> <<session>>]]
      /\ Offchain /\ UNCHANGED <<onboarding, account, sent, mishaps>>
  BY DEF Signs, Await, Offchain, RegistriesInv, RegistriesOK
<1>3. mishaps' \in 0 .. MaxMishaps
  BY <1>2 DEF ConsoleInv
<1> QED
  BY <1>1, <1>2, <1>3, Prompts

\* The handler is done.
LEMMA Returns ==
  ASSUME RegistriesInv, ConsoleInv, Offchain, Failed,
         UNCHANGED <<onboarding, account, sent>>, mishaps' \in 0 .. MaxMishaps
  PROVE  Keeps
<1>1. console'.step = Idle
  BY DEF ConsoleInv, IsPage, Failed
<1>2. StepOK'
  BY <1>1 DEF StepOK, IsStep, Idle
<1> QED
  BY <1>2, StepTaken DEF Failed

\* A session whose phase is confirmed is saved.
LEMMA Saves ==
  ASSUME RegistriesInv, ConsoleInv, Offchain, NEW session \in OperatorSession,
         Confirms(session)', SaveSession(session), UNCHANGED <<account, sent, mishaps>>
  PROVE  Keeps
<1>1. RegistriesInv' /\ Grows
  BY OffchainKeeps
<1>2. console' = [session |-> <<session>>, step |-> [at |-> "refreshing"],
                  market |-> console.market, loading |-> <<>>,
                  authority |-> console.authority,
                  due |-> console.due \cup {"marketplace"}, failed |-> console.failed]
  BY DEF ConsoleInv, IsPage, SaveSession, Invalidated
<1>3. IsPage' /\ QueriesOK'
  BY <1>2 DEF ConsoleInv, IsPage, QueriesOK, Queries
<1>4. SessionOK'
  BY <1>2 DEF SessionOK, IsMaybe
<1>5. StepOK'
  BY <1>2 DEF StepOK, IsStep
<1>6. ListingsOK'
  BY <1>2 DEF ConsoleInv, ListingsOK, MarketOK, IsMaybe
<1>7. StoredOK'
  <2>1. onboarding' = [onboarding EXCEPT ![session.account] = <<session>>]
    BY DEF SaveSession
  <2>2. session.account \in Operator /\ <<session>> \in Seq(OperatorSession)
    BY DEF OperatorSession
  <2>3. onboarding \in [Operator -> Seq(OperatorSession)]
    BY DEF ConsoleInv, StoredOK
  <2>4. onboarding' \in [Operator -> Seq(OperatorSession)]
    BY <2>1, <2>2, <2>3
  <2>5. ASSUME NEW o \in Operator
        PROVE  /\ Len(onboarding'[o]) <= 1
               /\ \A i \in DOMAIN onboarding'[o] : onboarding'[o][i].account = o
               /\ (\A i \in DOMAIN onboarding[o] : Confirms(onboarding[o][i]))'
    <3>1. CASE o = session.account
      <4>1. onboarding'[o] = <<session>>
        BY <2>1, <2>3, <3>1
      <4>2. \A i \in DOMAIN onboarding'[o] : onboarding'[o][i] = session
        BY <4>1
      <4> QED
        BY <3>1, <4>1, <4>2
    <3>2. CASE o # session.account
      <4>1. onboarding'[o] = onboarding[o]
        BY <2>1, <2>3, <3>2
      <4>2. \A i \in DOMAIN onboarding[o] : Confirms(onboarding[o][i])'
        BY <1>1, <4>1, KnownStays DEF ConsoleInv, StoredOK
      <4> QED
        BY <4>1, <4>2 DEF ConsoleInv, StoredOK
    <3> QED
      BY <3>1, <3>2
  <2> QED
    BY <2>4, <2>5 DEF StoredOK
<1> QED
  BY <1>1, <1>3, <1>4, <1>5, <1>6, <1>7, PageStays DEF ConsoleInv, Keeps

\* A query is sent, or answered: the session stays, and a handler that awaits
\* the answer may be done.
LEMMA Queried ==
  ASSUME RegistriesInv, ConsoleInv,
         console'.session = console.session,
         console'.step \in {console.step, Refreshed(console.step)},
         UNCHANGED <<Chains, machineMetadata, onboarding, account, sent>>,
         mishaps' \in 0 .. MaxMishaps, IsPage', ListingsOK', QueriesOK'
  PROVE  Keeps
<1>1. RegistriesInv' /\ Grows
  BY OffchainKeeps DEF Offchain, RegistriesInv, RegistriesOK
<1>2. StepOK'
  <2>1. CASE console'.step = console.step
    BY <1>1, <2>1, PageStays
  <2>2. CASE console'.step = Idle
    BY <2>2 DEF StepOK, IsStep, Idle
  <2> QED
    BY <2>1, <2>2 DEF Refreshed
<1> QED
  BY <1>1, <1>2, PageStays DEF ConsoleInv, Keeps

\* The page's queries are answered.
LEMMA Reads ==
  ASSUME RegistriesInv, ConsoleInv, LoadMachines \/ LoadOffers \/ LoadAuthority
  PROVE  Keeps
<1>0. mishaps' \in 0 .. MaxMishaps
  BY DEF LoadMachines, LoadOffers, LoadAuthority, ConsoleInv
<1>1. UNCHANGED <<Chains, machineMetadata, onboarding, account, sent>>
  BY DEF LoadMachines, LoadOffers, LoadAuthority, Page
<1>2. CASE LoadMachines
  <2> DEFINE found == Listed(ReplayMachineLogs(machineLogs))
             loaded == [listed |-> found,
                        machine |-> [m \in Machine |-> IF m \in found THEN machines[m]
                                                       ELSE NoMachine],
                        offer |-> [m \in Machine |-> ReplayOfferLogs(offerLogs)[m]]]
  <2>1. /\ found = {m \in Machine : machines[m] # NoMachine}
        /\ ReplayOfferLogs(offerLogs) = machineOffers
    BY DEF RegistriesInv, ReplayMatchesState, Listed
  <2>2. /\ \A m \in Machine : machines[m] \in {NoMachine} \cup RegisteredRecord
        /\ \A m \in Machine : machineOffers[m] \in Offer
    BY DEF RegistriesInv, RegistriesOK, MachineStates, OfferStates, OrZero
  <2>3. NoMachine \in MachineRecord /\ RegisteredRecord \subseteq MachineRecord
    BY BoundsAreNat DEF NoMachine, MachineRecord, RegisteredRecord, OrZero, Price
  <2>4. loaded \in Market
    BY <2>1, <2>2, <2>3 DEF Market
  <2>5. \A m \in loaded.listed : loaded.machine[m] \in RegisteredRecord
    BY <2>1, <2>2
  <2>6. console' = [console EXCEPT !.due = @ \ {"marketplace"}, !.loading = <<loaded>>]
    BY <1>2 DEF LoadMachines, Page
  <2> HIDE DEF loaded
  <2>7. IsPage'
    BY <2>6 DEF ConsoleInv, IsPage
  <2>8. /\ console'.session = console.session /\ console'.step = console.step
        /\ console'.market = console.market /\ console'.loading = <<loaded>>
        /\ console'.authority = console.authority /\ console'.failed = console.failed
        /\ console'.due = console.due \ {"marketplace"}
    BY <2>6 DEF ConsoleInv, IsPage
  <2>9. ListingsOK' /\ QueriesOK'
    BY <2>4, <2>5, <2>8 DEF ConsoleInv, ListingsOK, MarketOK, IsMaybe, QueriesOK
  <2> QED
    BY <1>0, <1>1, <2>7, <2>8, <2>9, Queried
<1>3. CASE LoadOffers
  <2> DEFINE loaded == console.loading[1]
             joined == [loaded EXCEPT !.offer = CurrentOffers(loaded)]
  <2>1. MarketOK(loaded)
    BY <1>3 DEF LoadOffers, ConsoleInv, ListingsOK, IsMaybe
  <2>2. \A m \in Machine : machineOffers[m] \in Offer /\ loaded.offer[m] \in Offer
    BY <2>1 DEF RegistriesInv, RegistriesOK, OfferStates, OrZero, MarketOK, Market
  <2>3. CurrentOffers(loaded) \in [Machine -> Offer]
    BY <2>2 DEF CurrentOffers
  <2>4. console' = [console EXCEPT !.loading = <<>>, !.failed = FALSE,
                                   !.step = Refreshed(@), !.market = joined]
    BY <1>3 DEF LoadOffers, Page
  <2> HIDE DEF loaded
  <2>5. MarketOK(joined)
    BY <2>1, <2>3 DEF MarketOK, Market
  <2> HIDE DEF joined
  <2>6. IsPage'
    BY <2>4 DEF ConsoleInv, IsPage
  <2>7. /\ console'.session = console.session /\ console'.step = Refreshed(console.step)
        /\ console'.market = joined /\ console'.loading = <<>>
        /\ console'.authority = console.authority /\ console'.due = console.due
        /\ console'.failed = FALSE
    BY <2>4 DEF ConsoleInv, IsPage
  <2>8. console'.failed \in BOOLEAN
    BY <2>7, Zenon
  <2>9. ListingsOK' /\ QueriesOK'
    BY <2>5, <2>7, <2>8 DEF ConsoleInv, ListingsOK, MarketOK, IsMaybe, QueriesOK
  <2> QED
    BY <1>0, <1>1, <2>6, <2>7, <2>9, Queried
<1>4. CASE LoadAuthority
  <2>1. console' = [console EXCEPT !.due = @ \ {"authority"}, !.authority = owner]
    BY <1>4 DEF LoadAuthority, Page
  <2>2. IsPage'
    BY <2>1 DEF ConsoleInv, IsPage
  <2>3. /\ console'.session = console.session /\ console'.step = console.step
        /\ console'.market = console.market /\ console'.loading = console.loading
        /\ console'.authority = owner /\ console'.failed = console.failed
        /\ console'.due = console.due \ {"authority"}
    BY <2>1 DEF ConsoleInv, IsPage
  <2>4. ListingsOK' /\ QueriesOK'
    BY <2>3
    DEF ConsoleInv, ListingsOK, MarketOK, QueriesOK, RegistriesInv, RegistriesOK, OrZero
  <2> QED
    BY <1>0, <1>1, <2>2, <2>3, <2>4, Queried
<1> QED
  BY <1>2, <1>3, <1>4

\* The page's queries fail, or are sent again.
LEMMA Sends ==
  ASSUME RegistriesInv, ConsoleInv, QueryFails \/ Refresh \/ Reconnects
  PROVE  Keeps
<1>0. mishaps' \in 0 .. MaxMishaps
  BY OnboardingAssumption DEF QueryFails, Refresh, Reconnects, Mishap, ConsoleInv
<1>1. UNCHANGED <<Chains, machineMetadata, onboarding, account, sent>>
  BY DEF QueryFails, Refresh, Reconnects, Page
<1>2. ASSUME NEW due \in SUBSET Queries, console' = [console EXCEPT !.due = due]
      PROVE  Keeps
  <2>1. IsPage'
    BY <1>2 DEF ConsoleInv, IsPage
  <2>2. /\ console'.session = console.session /\ console'.step = console.step
        /\ console'.market = console.market /\ console'.loading = console.loading
        /\ console'.authority = console.authority /\ console'.failed = console.failed
        /\ console'.due = due
    BY <1>2 DEF ConsoleInv, IsPage
  <2>3. ListingsOK' /\ QueriesOK'
    BY <2>2 DEF ConsoleInv, ListingsOK, MarketOK, QueriesOK
  <2> QED
    BY <1>0, <1>1, <2>1, <2>2, <2>3, Queried
<1>3. ASSUME console' = [console EXCEPT !.due = @ \ {"marketplace"}, !.loading = <<>>,
                                        !.failed = TRUE, !.step = Refreshed(@)]
      PROVE  Keeps
  <2>1. IsPage'
    BY <1>3 DEF ConsoleInv, IsPage
  <2>2. /\ console'.session = console.session /\ console'.step = Refreshed(console.step)
        /\ console'.market = console.market /\ console'.loading = <<>>
        /\ console'.authority = console.authority /\ console'.failed = TRUE
        /\ console'.due = console.due \ {"marketplace"}
    BY <1>3 DEF ConsoleInv, IsPage
  <2>3. console'.failed \in BOOLEAN
    BY <2>2, Zenon
  <2>4. ListingsOK' /\ QueriesOK'
    BY <2>2, <2>3 DEF ConsoleInv, ListingsOK, MarketOK, IsMaybe, QueriesOK
  <2> QED
    BY <1>0, <1>1, <2>1, <2>2, <2>4, Queried
<1>4. console.due \subseteq Queries
  BY DEF ConsoleInv, QueriesOK
<1>5. CASE QueryFails
  <2>1. console.due \ {"authority"} \in SUBSET Queries
    BY <1>4
  <2> QED
    BY <1>2, <1>3, <1>5, <2>1 DEF QueryFails, Page
<1>6. CASE Refresh
  <2>1. console.due \cup {"marketplace"} \in SUBSET Queries
    BY <1>4 DEF Queries
  <2> QED
    BY <1>2, <1>6, <2>1 DEF Refresh, Page
<1>7. CASE Reconnects
  <2>1. PICK resent \in SUBSET Queries : console' = [console EXCEPT !.due = @ \cup resent]
    BY <1>7 DEF Reconnects, Page
  <2>2. console.due \cup resent \in SUBSET Queries
    BY <1>4
  <2> QED
    BY <1>2, <2>1, <2>2
<1> QED
  BY <1>5, <1>6, <1>7

-----------------------------------------------------------------------------
(* The actions of the page.                                                *)

LEMMA WizardKeeps ==
  ASSUME RegistriesInv, ConsoleInv, Starts \/ GoesOn
  PROVE  Keeps
<1>1. ASSUME NEW draft \in Draft, UploadMetadata(draft) PROVE Keeps
  <2> DEFINE session == [account |-> account, phase |-> "metadata_uploaded", draft |-> draft,
                         metadata |-> draft.metadataHash]
             step == [at |-> "uploading", session |-> session]
  <2>1. session \in OperatorSession
    BY <1>1, CallOfType, OnboardingAssumption
    DEF UploadMetadata, Ready, ConsoleInv, OrZero, OperatorSession
  <2>2. console' = [console EXCEPT !.step = step] /\ Offchain
        /\ UNCHANGED <<onboarding, account, sent, mishaps>>
    BY <1>1 DEF UploadMetadata, Await, Offchain, RegistriesInv, RegistriesOK
  <2>3. console'.step = step /\ mishaps' \in 0 .. MaxMishaps
    BY <2>2 DEF ConsoleInv, IsPage
  <2>4. /\ step.session = session /\ step.at = "uploading"
        /\ session.phase = "metadata_uploaded" /\ session.metadata = session.draft.metadataHash
    OBVIOUS
  <2>5. IsStep(step)
    BY <2>1 DEF IsStep
  <2> HIDE DEF step
  <2>6. StepOK'
    BY <2>3, <2>4, <2>5 DEF StepOK, IsStep
  <2> QED
    BY <2>2, <2>3, <2>6, StepTaken
<1>2. CASE RegisterStep
  <2> DEFINE s == console.session[1]
             call == CallOf("registerMachine", s.draft, s.account)
             advanced == [s EXCEPT !.phase = "cc3_confirmed"]
  <2>1. s \in OperatorSession /\ Confirms(s) /\ s.phase = "metadata_uploaded"
    BY <1>2 DEF RegisterStep, InWizard, ConsoleInv, SessionOK, IsMaybe
  <2>2. call \in Call /\ s.account \in Operator
    BY <2>1, CallOfType, OnboardingAssumption, MachineOfDraft DEF OperatorSession
  <2>3. /\ advanced \in OperatorSession /\ Due(advanced)
        /\ s.account = advanced.account /\ call = CallTo(advanced)
    BY <2>1 DEF OperatorSession, Confirms, Due, Stored, CallTo
  <2>4. /\ Signs(s.account, call, <<advanced>>)
    BY <1>2, <2>1 DEF RegisterStep, Advanced, PhaseAfter
  <2> HIDE DEF s, call, advanced
  <2> QED
    BY <2>2, <2>3, <2>4, SignsKeeps
<1>3. CASE SynchronizeOffer
  <2> DEFINE s == console.session[1]
             call == CallOf("setMachineOffer", s.draft, s.account)
             advanced == [s EXCEPT !.phase = "complete"]
  <2>1. s \in OperatorSession /\ Confirms(s) /\ s.phase = "cc3_confirmed"
    BY <1>3 DEF SynchronizeOffer, InWizard, ConsoleInv, SessionOK, IsMaybe
  <2>2. call \in Call /\ s.account \in Operator
    BY <2>1, CallOfType, OnboardingAssumption, MachineOfDraft DEF OperatorSession
  <2>3. /\ advanced \in OperatorSession /\ Due(advanced)
        /\ s.account = advanced.account /\ call = CallTo(advanced)
    BY <2>1 DEF OperatorSession, Confirms, Due, Stored, CallTo
  <2>4. /\ Signs(s.account, call, <<advanced>>)
    BY <1>3, <2>1 DEF SynchronizeOffer, Advanced, PhaseAfter
  <2> HIDE DEF s, call, advanced
  <2> QED
    BY <2>2, <2>3, <2>4, SignsKeeps
<1> QED
  BY <1>1, <1>2, <1>3 DEF Starts, GoesOn

LEMMA RepairKeeps ==
  ASSUME RegistriesInv, ConsoleInv, Repairs
  PROVE  Keeps
<1>1. PICK m \in Machine : RepairOffer(m)
  BY DEF Repairs
<1> DEFINE cached == console.market.machine[m]
           call == [method |-> "setMachineOffer", machineId |-> m,
                    controller |-> cached.controller, metadataHash |-> cached.metadataHash,
                    tariff |-> cached.tariff, active |-> cached.active,
                    beneficiary |-> cached.owner]
<1>2. cached \in RegisteredRecord
  BY <1>1 DEF RepairOffer, OwnedMachines, ConsoleInv, ListingsOK, MarketOK
<1>3. call \in Call
  BY <1>2 DEF RegisteredRecord, Call
<1>4. account \in Operator
  BY <1>1 DEF RepairOffer, Ready, ConsoleInv, OrZero
<1>5. <<>> \in Seq(OperatorSession) /\ DOMAIN <<>> = {}
  OBVIOUS
<1>6. /\ console' = [console EXCEPT !.step = [at |-> "prompt", caller |-> account,
                                              call |-> call, session |-> <<>>]]
      /\ Offchain /\ UNCHANGED <<onboarding, account, sent, mishaps>>
  BY <1>1 DEF RepairOffer, Signs, Await, Offchain, RegistriesInv, RegistriesOK
<1> HIDE DEF call
<1> QED
  BY <1>3, <1>4, <1>5, <1>6, PromptsNothing DEF ConsoleInv

LEMMA EditKeeps ==
  ASSUME RegistriesInv, ConsoleInv, NEW m \in Machine, NEW policy \in Policy, Edit(m, policy)
  PROVE  Keeps
<1> DEFINE d == [policy EXCEPT !.machineId = m]
<1>1. account \in Operator
  BY DEF Edit, Ready, ConsoleInv, OrZero
<1>2. Offchain /\ UNCHANGED <<onboarding, account, sent>> /\ mishaps' \in 0 .. MaxMishaps
  BY OnboardingAssumption
  DEF Edit, Mishap, Offchain, ConsoleInv, RegistriesInv, RegistriesOK
<1>3. ASSUME NEW method \in {"updateController", "updateTariff", "setMachineActive"},
             console' = [console EXCEPT !.step = [at |-> "prompt", caller |-> account,
                           call |-> CallOf(method, d, account), session |-> <<>>]]
      PROVE  Keeps
  <2>1. CallOf(method, d, account) \in Call
    BY <1>1, CallOfType
  <2> HIDE DEF d
  <2> QED
    BY <1>1, <1>2, <1>3, <2>1, PromptsNothing
<1>4. ASSUME console' = [console EXCEPT !.step = [at |-> "committing", account |-> account,
                           call |-> CallOf("updateMetadataHash", d, account)]]
      PROVE  Keeps
  <2> DEFINE call == CallOf("updateMetadataHash", d, account)
             step == [at |-> "committing", account |-> account, call |-> call]
  <2>1. call \in Call
    BY <1>1, CallOfType
  <2> HIDE DEF call
  <2>2. IsStep(step) /\ step.at = "committing"
    BY <1>1, <2>1 DEF IsStep
  <2>3. console' = [console EXCEPT !.step = step] /\ console'.step = step
    BY <1>4 DEF ConsoleInv, IsPage, call
  <2> HIDE DEF step
  <2>4. StepOK'
    BY <2>2, <2>3 DEF StepOK, IsStep
  <2> QED
    BY <1>2, <2>3, <2>4, StepTaken
<1> QED
  BY <1>3, <1>4 DEF Edit

-----------------------------------------------------------------------------
(* The answers.                                                            *)

LEMMA MetadataStoredKeeps ==
  ASSUME RegistriesInv, ConsoleInv, MetadataStored
  PROVE  Keeps
<1>0. machineMetadata \subseteq MetadataHash
  BY DEF RegistriesInv, RegistriesOK
<1>1. CASE console.step.at = "uploading"
  <2>0. PICK s : s = console.step.session
    OBVIOUS
  <2>1. /\ machineMetadata' = machineMetadata \cup {s.metadata} /\ SaveSession(s)
        /\ UNCHANGED <<Chains, account, sent, mishaps>>
    BY <1>1, <2>0 DEF MetadataStored
  <2>2. s \in OperatorSession /\ s.phase = "metadata_uploaded" /\ s.metadata = s.draft.metadataHash
    BY <1>1, <2>0 DEF ConsoleInv, StepOK, IsStep, Idle
  <2>3. Offchain
    BY <1>0, <2>1, <2>2 DEF Offchain, OperatorSession
  <2>4. s.metadata \in machineMetadata'
    BY <2>1
  <2>5. Confirms(s)'
    BY <2>2, <2>4 DEF Confirms, Stored
  <2> QED
    BY <2>1, <2>2, <2>3, <2>5, Saves
<1>2. CASE console.step.at = "committing"
  <2> DEFINE call == console.step.call
             caller == console.step.account
  <2>1. /\ machineMetadata' = machineMetadata \cup {call.metadataHash}
        /\ console' = [console EXCEPT !.step = [at |-> "prompt", caller |-> caller,
                                                call |-> call, session |-> <<>>]]
        /\ UNCHANGED <<Chains, account, sent, mishaps, onboarding>>
    BY <1>2 DEF MetadataStored
  <2>2. caller \in Operator /\ call \in Call
    BY <1>2 DEF ConsoleInv, StepOK, IsStep, Idle
  <2> HIDE DEF call, caller
  <2>3. Offchain
    BY <1>0, <2>1, <2>2 DEF Offchain, Call
  <2> QED
    BY <2>1, <2>2, <2>3, PromptsNothing DEF ConsoleInv
<1> QED
  BY <1>1, <1>2 DEF MetadataStored

LEMMA FaultKeeps ==
  ASSUME RegistriesInv, ConsoleInv, Fault
  PROVE  Keeps
<1>1. console.step.at = "uploading" => console.step.session.metadata \in MetadataHash
  BY DEF ConsoleInv, StepOK, IsStep, Idle, OperatorSession
<1>2. Offchain
  BY <1>1 DEF Fault, Offchain, RegistriesInv, RegistriesOK
<1> QED
  BY <1>2, Returns, OnboardingAssumption DEF Fault, Mishap, ConsoleInv

LEMMA RefusedKeeps ==
  ASSUME RegistriesInv, ConsoleInv, Refused
  PROVE  Keeps
<1>1. Offchain
  BY DEF Refused, Offchain, RegistriesInv, RegistriesOK
<1> QED
  BY <1>1, Returns DEF Refused, ConsoleInv

\* A transaction signed is one more, pending.
LEMMA BroadcastKeeps ==
  ASSUME ConsoleInv, Grows, NEW caller \in Operator, NEW call \in Call, Len(sent) < MaxSent,
         sent' = Append(sent, [caller |-> caller, call |-> call, status |-> "pending"])
  PROVE  /\ SentOK' /\ SentStays /\ Len(sent) + 1 \in DOMAIN sent'
         /\ Len(sent) + 1 \in 1 .. MaxSent
         /\ sent'[Len(sent) + 1].caller = caller /\ sent'[Len(sent) + 1].call = call
<1> DEFINE tx == [caller |-> caller, call |-> call, status |-> "pending"]
<1>1. sent \in Seq(Sent) /\ tx \in Sent /\ tx.status # "mined"
  BY DEF ConsoleInv, SentOK, Sent
<1>2. tx.caller = caller /\ tx.call = call
  OBVIOUS
<1>3. MaxSent \in Nat
  BY OnboardingAssumption
<1> HIDE DEF tx
<1>4. sent' = Append(sent, tx)
  BY DEF tx
<1>5. /\ sent' \in Seq(Sent) /\ Len(sent') = Len(sent) + 1 /\ sent'[Len(sent) + 1] = tx
      /\ DOMAIN sent' = 1 .. (Len(sent) + 1) /\ DOMAIN sent = 1 .. Len(sent) /\ Len(sent) \in Nat
      /\ \A h \in DOMAIN sent : sent'[h] = sent[h]
  BY <1>1, <1>4
<1>6. ASSUME NEW h \in DOMAIN sent', sent'[h].status = "mined"
      PROVE  LoggedCall(sent[h].caller, sent[h].call)'
  <2>1. h \in DOMAIN sent /\ sent'[h] = sent[h]
    BY <1>1, <1>5, <1>6
  <2> QED
    BY <1>6, <2>1, KnownStays DEF ConsoleInv, SentOK
<1> QED
  BY <1>2, <1>3, <1>5, <1>6 DEF SentOK, SentStays

LEMMA SignKeeps ==
  ASSUME RegistriesInv, ConsoleInv, Sign
  PROVE  Keeps
<1>0. PICK h, session : h = Len(sent) + 1 /\ session = console.step.session
  OBVIOUS
<1> DEFINE step == [at |-> "waiting", hash |-> h, session |-> session]
<1>1. /\ console.step.at = "prompt" /\ session \in Seq(OperatorSession)
      /\ console.step.caller \in Operator /\ console.step.call \in Call
      /\ \A i \in DOMAIN session :
           Due(session[i]) /\ console.step.caller = session[i].account
             /\ console.step.call = CallTo(session[i])
  BY <1>0 DEF Sign, ConsoleInv, StepOK, IsStep, Idle
<1>2. RegistriesInv' /\ Grows
  BY OffchainKeeps DEF Sign, Offchain, RegistriesInv, RegistriesOK
<1>3. /\ SentOK' /\ SentStays /\ h \in DOMAIN sent' /\ h \in 1 .. MaxSent
      /\ sent'[h].caller = console.step.caller /\ sent'[h].call = console.step.call
  BY <1>0, <1>1, <1>2, BroadcastKeeps DEF Sign, Broadcast
<1>4. IsStep(step) /\ step.at = "waiting" /\ step.hash = h /\ step.session = session
  BY <1>1, <1>3 DEF IsStep
<1>5. \A i \in DOMAIN session : Due(session[i])'
  BY <1>1, <1>2, KnownStays
<1> HIDE DEF step
<1>6. console' = [session |-> console.session, step |-> step, market |-> console.market,
                  loading |-> console.loading, authority |-> console.authority,
                  due |-> console.due, failed |-> console.failed]
  BY <1>0 DEF Sign, ConsoleInv, IsPage, step
<1>7. StepOK'
  BY <1>1, <1>3, <1>4, <1>5, <1>6 DEF StepOK, IsStep, CallTo
<1>8. IsPage' /\ ListingsOK' /\ QueriesOK' /\ console'.session = console.session
  BY <1>6 DEF ConsoleInv, IsPage, ListingsOK, MarketOK, QueriesOK
<1> QED
  BY <1>2, <1>3, <1>7, <1>8, PageStays DEF Sign, ConsoleInv, Keeps

LEMMA ReceiptKeeps ==
  ASSUME RegistriesInv, ConsoleInv, Receipt
  PROVE  Keeps
<1> DEFINE step == console.step
<1>1. /\ step.at = "waiting" /\ step.hash \in DOMAIN sent
      /\ step.session \in Seq(OperatorSession)
      /\ \A i \in DOMAIN step.session :
           /\ Due(step.session[i]) /\ sent[step.hash].caller = step.session[i].account
           /\ sent[step.hash].call = CallTo(step.session[i])
  BY DEF Receipt, ConsoleInv, StepOK, IsStep, Idle
<1>2. Offchain /\ UNCHANGED <<account, sent, mishaps>>
  BY DEF Receipt, Offchain, RegistriesInv, RegistriesOK
<1>3. CASE Failed /\ UNCHANGED onboarding
  BY <1>2, <1>3, Returns DEF ConsoleInv
<1>4. CASE console' = Invalidated /\ UNCHANGED onboarding
  <2>1. RegistriesInv' /\ Grows
    BY <1>2, OffchainKeeps
  <2>2. console' = [session |-> console.session, step |-> [at |-> "refreshing"],
                    market |-> console.market, loading |-> <<>>,
                    authority |-> console.authority,
                    due |-> console.due \cup {"marketplace"}, failed |-> console.failed]
    BY <1>4 DEF ConsoleInv, IsPage, Invalidated
  <2>3. IsPage' /\ QueriesOK' /\ console'.session = console.session
    BY <2>2 DEF ConsoleInv, IsPage, QueriesOK, Queries
  <2>4. StepOK' /\ ListingsOK'
    BY <2>2 DEF StepOK, IsStep, ConsoleInv, ListingsOK, MarketOK, IsMaybe
  <2> QED
    BY <1>2, <1>4, <2>1, <2>3, <2>4, PageStays DEF ConsoleInv, Keeps
<1>5. CASE /\ Confirmed(sent[step.hash].status) /\ step.session # <<>>
           /\ SaveSession(step.session[1])
  <2>0. PICK s, tx : s = step.session[1] /\ tx = sent[step.hash]
    OBVIOUS
  <2>1. /\ s \in OperatorSession /\ Due(s) /\ tx.caller = s.account /\ tx.call = CallTo(s)
    BY <1>1, <1>5, <2>0
  <2>2. LoggedCall(tx.caller, tx.call)
    BY <1>1, <1>5, <2>0 DEF ConsoleInv, SentOK, Confirmed
  <2>3. Confirms(s)
    BY <2>1, <2>2 DEF Confirms, Due, CallTo, OperatorSession
  <2>4. Confirms(s)'
    BY <1>2, <2>3, OffchainKeeps, KnownStays
  <2> QED
    BY <1>2, <1>5, <2>0, <2>1, <2>4, Saves
<1> QED
  BY <1>3, <1>4, <1>5 DEF Receipt

-----------------------------------------------------------------------------
(* The chains and the browser.                                             *)

LEMMA MineSentKeeps ==
  ASSUME RegistriesInv, ConsoleInv, NEW h \in DOMAIN sent, MineSent(h)
  PROVE  Keeps
<1>0. PICK tx : tx = sent[h]
  OBVIOUS
<1>1. /\ tx \in Sent /\ tx.caller \in Operator /\ tx.call \in Call
      /\ sent \in Seq(Sent) /\ UNCHANGED <<console, onboarding, account, mishaps>>
  <2>1. sent \in Seq(Sent)
    BY DEF ConsoleInv, SentOK
  <2>2. tx \in Sent
    BY <1>0, <2>1
  <2>3. UNCHANGED <<console, onboarding, account, mishaps>>
    BY DEF MineSent
  <2> QED
    BY <2>1, <2>2, <2>3 DEF Sent
<1>2. ASSUME NEW status \in {"mined", "reverted"},
             sent' = [sent EXCEPT ![h].status = status],
             RegistriesInv', Grows, status = "mined" => LoggedCall(tx.caller, tx.call)'
      PROVE  Keeps
  <2>1. [tx EXCEPT !.status = status] \in Sent
    BY <1>1 DEF Sent
  <2>2. sent' = [sent EXCEPT ![h] = [tx EXCEPT !.status = status]]
    BY <1>0, <1>2
  <2>3. sent' \in Seq(Sent) /\ Len(sent') = Len(sent) /\ DOMAIN sent' = DOMAIN sent
    BY <1>1, <2>1, <2>2
  <2>4. \A g \in DOMAIN sent : sent'[g] = IF g = h THEN [tx EXCEPT !.status = status] ELSE sent[g]
    BY <1>1, <2>2
  <2>5. sent'[h].caller = tx.caller /\ sent'[h].call = tx.call /\ sent'[h].status = status
    BY <1>1, <2>4 DEF Sent
  <2>6. SentStays
    BY <1>0, <2>3, <2>4, <2>5 DEF SentStays
  <2>7. ASSUME NEW g \in DOMAIN sent', sent'[g].status = "mined"
        PROVE  LoggedCall(sent[g].caller, sent[g].call)'
    <3>1. CASE g = h
      BY <1>2, <2>5, <2>7, <3>1
    <3>2. CASE g # h
      <4>1. g \in DOMAIN sent /\ sent'[g] = sent[g]
        BY <2>3, <2>4, <3>2
      <4> QED
        BY <1>2, <2>7, <4>1, KnownStays DEF ConsoleInv, SentOK
    <3> QED
      BY <3>1, <3>2
  <2>8. SentOK'
    BY <2>3, <2>7 DEF SentOK, ConsoleInv
  <2> QED
    BY <1>1, <1>2, <2>6, <2>8, PageStays
    DEF ConsoleInv, IsPage, ListingsOK, MarketOK, QueriesOK, Keeps
<1>3. CASE /\ MachineTransaction(tx.caller, tx.call) \/ OfferTransaction(tx.caller, tx.call)
           /\ sent' = [sent EXCEPT ![h].status = "mined"]
  BY <1>1, <1>2, <1>3, MachineStep, OfferStep
<1>4. CASE /\ sent' = [sent EXCEPT ![h].status = "reverted"]
           /\ UNCHANGED <<Chains, machineMetadata>>
  <2>1. Offchain
    BY <1>4 DEF Offchain, RegistriesInv, RegistriesOK
  <2> QED
    BY <1>2, <1>4, <2>1, OffchainKeeps
<1> QED
  BY <1>0, <1>3, <1>4 DEF MineSent

LEMMA StartNewKeeps ==
  ASSUME RegistriesInv, ConsoleInv, StartNew
  PROVE  Keeps
<1>1. RegistriesInv' /\ Grows
  BY OffchainKeeps DEF StartNew, Offchain, RegistriesInv, RegistriesOK
<1>2. console' = [session |-> <<>>, step |-> console.step, market |-> console.market,
                  loading |-> console.loading, authority |-> console.authority,
                  due |-> console.due, failed |-> console.failed]
  BY DEF StartNew, ConsoleInv, IsPage
<1>3. IsPage' /\ ListingsOK' /\ QueriesOK' /\ console'.session = <<>>
      /\ console'.step = console.step
  BY <1>2 DEF IsPage, ConsoleInv, ListingsOK, MarketOK, QueriesOK
<1>4. StoredOK'
  <2>1. onboarding' = [onboarding EXCEPT ![account] = <<>>] /\ account \in Operator
    BY DEF StartNew, ConsoleInv, OrZero
  <2>2. /\ onboarding' \in [Operator -> Seq(OperatorSession)]
        /\ \A o \in Operator : onboarding'[o] \in {onboarding[o], <<>>}
    BY <2>1 DEF ConsoleInv, StoredOK
  <2>3. Len(<<>>) <= 1 /\ DOMAIN <<>> = {}
    OBVIOUS
  <2> QED
    BY <1>1, <2>2, <2>3, KnownStays DEF ConsoleInv, StoredOK
<1> QED
  BY <1>1, <1>3, <1>4, PageStays DEF StartNew, ConsoleInv, Keeps

LEMMA SavedSessionHolds ==
  ASSUME ConsoleInv, Grows, NEW a \in OrZero(Operator),
         console'.session = SavedSession(a)
  PROVE  SessionOK'
<1>1. CASE a = Zero
  <2>1. console'.session = <<>>
    BY <1>1 DEF SavedSession
  <2> QED
    BY <2>1, PageStays
<1>2. CASE a # Zero
  <2>1. PICK saved : saved = onboarding[a]
    OBVIOUS
  <2>2. a \in Operator /\ console'.session = saved
    BY <1>2, <2>1 DEF SavedSession, OrZero
  <2>3. IsMaybe(saved, OperatorSession) /\ \A i \in DOMAIN saved : Confirms(saved[i])
    BY <2>1, <2>2 DEF ConsoleInv, StoredOK, IsMaybe
  <2>4. \A i \in DOMAIN saved : Confirms(saved[i])'
    BY <2>3, KnownStays
  <2> QED
    BY <2>2, <2>3, <2>4 DEF SessionOK, IsMaybe
<1> QED
  BY <1>1, <1>2

LEMMA SwitchKeeps ==
  ASSUME RegistriesInv, ConsoleInv, NEW a \in OrZero(Operator), SwitchAccount(a)
  PROVE  Keeps
<1>1. RegistriesInv' /\ Grows
  BY OffchainKeeps DEF SwitchAccount, Offchain, RegistriesInv, RegistriesOK
<1>2. console' = [session |-> SavedSession(a), step |-> console.step,
                  market |-> console.market,
                  loading |-> console.loading, authority |-> console.authority,
                  due |-> console.due, failed |-> console.failed]
  BY DEF SwitchAccount, ConsoleInv, IsPage
<1>3. IsPage' /\ ListingsOK' /\ QueriesOK' /\ console'.session = SavedSession(a)
      /\ console'.step = console.step
  BY <1>2 DEF IsPage, ConsoleInv, ListingsOK, MarketOK, QueriesOK
<1>4. mishaps' \in 0 .. MaxMishaps
  BY OnboardingAssumption DEF SwitchAccount, Mishap, ConsoleInv
<1> QED
  BY <1>1, <1>3, <1>4, SavedSessionHolds, PageStays DEF SwitchAccount, ConsoleInv, Keeps

LEMMA ReloadKeeps ==
  ASSUME RegistriesInv, ConsoleInv, Reload
  PROVE  Keeps
<1>1. RegistriesInv' /\ Grows
  BY OffchainKeeps DEF Reload, Offchain, RegistriesInv, RegistriesOK
<1>2. console' = [session |-> SavedSession(account), step |-> Idle, market |-> EmptyMarket,
                  loading |-> <<>>, authority |-> Zero, due |-> Queries, failed |-> FALSE]
  BY DEF Reload, Mounted
<1>3. IsPage' /\ StepOK' /\ QueriesOK' /\ console'.session = SavedSession(account)
  BY <1>2 DEF IsPage, StepOK, IsStep, Idle, OrZero, QueriesOK
<1>4. ListingsOK'
  BY <1>2, EmptyMarketOK DEF ListingsOK, MarketOK, IsMaybe
<1>5. SentOK'
  <2>1. CASE UNCHANGED sent
    BY <1>1, <2>1, PageStays
  <2>2. CASE console.step.at = "prompt" /\ Broadcast(console.step)
    <3>1. console.step.caller \in Operator /\ console.step.call \in Call
      BY <2>2 DEF ConsoleInv, StepOK, IsStep, Idle
    <3> QED
      BY <1>1, <2>2, <3>1, BroadcastKeeps DEF Broadcast
  <2> QED
    BY <2>1, <2>2 DEF Reload
<1>6. mishaps' \in 0 .. MaxMishaps
  BY OnboardingAssumption DEF Reload, Mishap, ConsoleInv
<1>7. SessionOK'
  BY <1>1, <1>3, SavedSessionHolds DEF ConsoleInv
<1>8. UNCHANGED <<onboarding, account>>
  BY DEF Reload
<1> QED
  BY <1>1, <1>3, <1>4, <1>5, <1>6, <1>7, <1>8, PageStays DEF ConsoleInv, Keeps

LEMMA OwnershipKeeps ==
  ASSUME RegistriesInv, ConsoleInv, NEW a \in OrZero(Operator), OwnershipMoves(a)
  PROVE  Keeps
<1>1. owner' \in Operator /\ UNCHANGED <<machines, machineOffers, machineLogs, offerLogs,
                                         machineMetadata>>
  BY DEF OwnershipMoves, TransferOwnership, OrZero
<1>2. RegistriesInv' /\ Grows
  BY <1>1, RegistriesUnchanged DEF RegistriesInv, RegistriesOK
<1>3. UNCHANGED <<console, onboarding, account, sent>> /\ mishaps' \in 0 .. MaxMishaps
  BY OnboardingAssumption DEF OwnershipMoves, Mishap, ConsoleInv
<1> QED
  BY <1>2, <1>3, PageStays
  DEF ConsoleInv, IsPage, ListingsOK, MarketOK, QueriesOK, Keeps

-----------------------------------------------------------------------------
(* The theorems.                                                           *)

LEMMA PublicationInitially == Init => PublicationInv
<1> SUFFICES ASSUME Init PROVE PublicationInv
  OBVIOUS
<1>1. RegistriesInv /\ SeedOK
  BY RegistriesInitially DEF Init, SeedInit, SeedOK
<1>2. console = [session |-> <<>>, step |-> Idle, market |-> EmptyMarket, loading |-> <<>>,
                 authority |-> Zero, due |-> Queries, failed |-> FALSE]
  BY DEF Init, ConsoleInit
<1>3. IsPage /\ StepOK /\ SessionOK
  BY <1>2 DEF IsPage, StepOK, IsStep, Idle, SessionOK, IsMaybe
<1>4. ListingsOK /\ QueriesOK
  BY <1>2, EmptyMarketOK DEF ListingsOK, MarketOK, IsMaybe, OrZero, QueriesOK
<1>5. StoredOK
  <2>1. /\ onboarding \in [Operator -> Seq(OperatorSession)]
        /\ \A o \in Operator : onboarding[o] = <<>>
    BY DEF Init, ConsoleInit
  <2> QED
    BY <2>1 DEF StoredOK
<1>6. SentOK
  BY OnboardingAssumption DEF Init, ConsoleInit, SentOK
<1>7. account \in OrZero(Operator) /\ mishaps \in 0 .. MaxMishaps
  BY OnboardingAssumption DEF Init, ConsoleInit, OrZero
<1> QED
  BY <1>1, <1>3, <1>4, <1>5, <1>6, <1>7 DEF PublicationInv, ConsoleInv

LEMMA ConsoleStep ==
  ASSUME RegistriesInv, ConsoleInv, ConsoleNext
  PROVE  Keeps
<1>1. CASE Starts \/ GoesOn
  BY <1>1, WizardKeeps
<1>2. CASE Repairs
  BY <1>2, RepairKeeps
<1>3. CASE Answers
  BY <1>3, MetadataStoredKeeps, RefusedKeeps, SignKeeps, ReceiptKeeps DEF Answers
<1>4. CASE Fault
  BY <1>4, FaultKeeps
<1>5. CASE StartNew
  BY <1>5, StartNewKeeps
<1>6. CASE Loads
  BY <1>6, Reads DEF Loads
<1>11. CASE QueryFails \/ Refresh \/ Reconnects
  BY <1>11, Sends
<1>7. CASE \E m \in Machine, policy \in Policy : Edit(m, policy)
  BY <1>7, EditKeeps
<1>8. CASE Mines
  BY <1>8, MineSentKeeps DEF Mines
<1>9. CASE \E a \in OrZero(Operator) : SwitchAccount(a) \/ OwnershipMoves(a)
  BY <1>9, SwitchKeeps, OwnershipKeeps
<1>10. CASE Reload
  BY <1>10, ReloadKeeps
<1> QED
  BY <1>1, <1>2, <1>3, <1>4, <1>5, <1>6, <1>7, <1>8, <1>9, <1>10, <1>11
  DEF ConsoleNext

LEMMA PublicationStep == PublicationInv /\ [Next]_vars => PublicationInv'
<1> SUFFICES ASSUME PublicationInv, [Next]_vars PROVE PublicationInv'
  OBVIOUS
<1> USE DEF PublicationInv
<1>1. CASE Browser(ConsoleNext)
  BY <1>1, ConsoleStep DEF Browser, Keeps, SeedOK
<1>2. CASE SeedActs
  BY <1>2, SeedKeeps, ConsoleStays DEF SeedActs
<1>3. CASE SeedAborts /\ Mishap /\ UNCHANGED <<console, onboarding, account, sent>>
  <2>1. RegistriesInv' /\ Grows /\ SeedOK'
    BY <1>3, SeedKeeps
  <2>2. mishaps' \in 0 .. MaxMishaps
    BY <1>3, OnboardingAssumption DEF Mishap, ConsoleInv
  <2> QED
    BY <1>3, <2>1, <2>2, PageStays
    DEF ConsoleInv, IsPage, ListingsOK, MarketOK, QueriesOK
<1>4. CASE UNCHANGED vars
  <2>1. RegistriesInv' /\ Grows /\ SeedOK'
    BY <1>4, RegistriesUnchanged
    DEF vars, Chains, sepoliaVars, registryVars, RegistriesInv, RegistriesOK, SeedOK
  <2> QED
    BY <1>4, <2>1, ConsoleStays DEF vars
<1> QED
  BY <1>1, <1>2, <1>3, <1>4 DEF Next

(***************************************************************************)
(* What the console, the seed command, the registries and their logs keep  *)
(* true together: logs replay to the registries, and what a page, a stored *)
(* session or the seed command holds is backed by the logs, the relay's    *)
(* documents and the answer it waits for.                                  *)
(***************************************************************************)
THEOREM PublicationInvariant == Spec => []PublicationInv
BY PublicationInitially, PublicationStep, PTL DEF Spec

(***************************************************************************)
(* The marketplace that is replayed from the logs is the contracts' state, *)
(* for any operators, machines and catalog (marketplace.ts, both           *)
(* registries' events).                                                    *)
(***************************************************************************)
THEOREM ReplayIsState == Spec => []ReplayMatchesState
<1>1. PublicationInv => ReplayMatchesState
  BY DEF PublicationInv, RegistriesInv
<1> QED
  BY <1>1, PublicationInvariant, PTL

\* What Confirms records of a session is what the property asks of it.
LEMMA ConfirmedSession ==
  ASSUME PublicationInv PROVE SessionIsConfirmed
<1> SUFFICES ASSUME NEW o \in Operator, onboarding[o] # <<>>
             PROVE  LET s          == onboarding[o][1]
                        registered == [owner |-> o, controller |-> s.draft.controller,
                                       metadataHash |-> s.metadata, tariff |-> s.draft.tariff,
                                       active |-> s.draft.active]
                        published  == [beneficiary |-> o, pricePerSecond |-> s.draft.tariff,
                                       active |-> s.draft.active]
                    IN
                    /\ s.account = o
                    /\ s.phase \in {"cc3_confirmed", "complete"} =>
                         [name |-> "MachineRegistered", machineId |-> s.draft.machineId,
                          args |-> registered] \in ToSet(machineLogs)
                    /\ s.phase = "complete" =>
                         /\ [machineId |-> s.draft.machineId, args |-> published]
                              \in ToSet(offerLogs)
                         /\ ReconcileMarketplace(registered, published,
                                                 LocalMetadata \cup machineMetadata)
                              \in {"available", "inactive"}
  BY DEF SessionIsConfirmed
<1>1. PICK s : s = onboarding[o][1]
  OBVIOUS
<1>2. s \in OperatorSession /\ s.account = o /\ Confirms(s)
  BY <1>1 DEF PublicationInv, ConsoleInv, StoredOK
<1>3. s.phase # "metadata_uploaded" =>
        [name |-> "MachineRegistered", machineId |-> s.draft.machineId,
         args |-> [owner |-> o, controller |-> s.draft.controller,
                   metadataHash |-> s.metadata, tariff |-> s.draft.tariff,
                   active |-> s.draft.active]] \in ToSet(machineLogs)
  BY <1>2 DEF Confirms, Stored, LoggedCall, CallOf
<1>4. s.phase = "complete" =>
        [machineId |-> s.draft.machineId,
         args |-> [beneficiary |-> o, pricePerSecond |-> s.draft.tariff,
                   active |-> s.draft.active]] \in ToSet(offerLogs)
  BY <1>2 DEF Confirms, LoggedCall, CallOf
<1>5. ReconcileMarketplace([owner |-> o, controller |-> s.draft.controller,
                            metadataHash |-> s.metadata, tariff |-> s.draft.tariff,
                            active |-> s.draft.active],
                           [beneficiary |-> o, pricePerSecond |-> s.draft.tariff,
                            active |-> s.draft.active],
                           LocalMetadata \cup machineMetadata) \in {"available", "inactive"}
  BY <1>2, ZeroIsReserved
  DEF Confirms, Stored, ReconcileMarketplace, Synchronized, NoOffer, Account
<1> QED
  BY <1>1, <1>2, <1>3, <1>4, <1>5

(***************************************************************************)
(* A stored onboarding session is backed by the logs and the relay's       *)
(* documents, whatever order answers, account changes, reloads and the     *)
(* seed command come in (OperatorPage.tsx, saveSession).                   *)
(***************************************************************************)
THEOREM SessionsAreConfirmed == Spec => []SessionIsConfirmed
BY ConfirmedSession, PublicationInvariant, PTL

(***************************************************************************)
(* What the console's handlers capture, store and read back has the shape  *)
(* they expect (operator.ts, OperatorPage.tsx), for any drafts and chains. *)
(***************************************************************************)
THEOREM ConsoleType == Spec => []ConsoleTypeOK
<1>1. ASSUME PublicationInv PROVE ConsoleTypeOK
  <2>1. DOMAIN console =
          {"session", "step", "market", "loading", "authority", "due", "failed"}
    BY <1>1 DEF PublicationInv, ConsoleInv, IsPage
  <2>2. \A o \in Operator : IsMaybe(onboarding[o], OperatorSession)
    BY <1>1 DEF PublicationInv, ConsoleInv, StoredOK, IsMaybe
  <2> QED
    BY <1>1, <2>1, <2>2
    DEF PublicationInv, RegistriesInv, RegistriesOK, ConsoleInv, ConsoleTypeOK, SentOK,
        SessionOK, StepOK, ListingsOK, MarketOK, QueriesOK
<1> QED
  BY <1>1, PublicationInvariant, PTL
=============================================================================
