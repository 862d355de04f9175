--------------------------- MODULE WatchersProofs ---------------------------
(***************************************************************************)
(* Proofs about the watchers of one contract of MCWatchers under their     *)
(* setters, for every chain, every action and every number of changes.     *)
(***************************************************************************)
EXTENDS MCWatchers, EOSWatcherMainProofs, NaturalsInduction, WellFoundedInduction

(* The assignments of the setters, and what of them may be left to make.   *)
RegisterDestroy == Register("ActionNameDestroy", "Solvent")
RegisterCreate == Register("ActionNameCreate", "Issue")

ContractCalls ==
  {<<Assign("ActionAccount", a), RegisterDestroy, RegisterCreate>> : a \in Accounts}
  \cup {<<Assign("ActionNameDestroy", n), RegisterDestroy>> : n \in Names}
  \cup {<<Assign("ActionNameCreate", n), RegisterCreate>> : n \in Names}

FirstCalls ==
  {<<Assign("ActionAccount", a)>> : a \in Accounts}
  \cup {<<Assign("ActionNameDestroy", n)>> : n \in Names}
  \cup {<<Assign("ActionNameCreate", n)>> : n \in Names}

ContractScripts ==
  ContractCalls \cup {<<>>, <<RegisterDestroy, RegisterCreate>>, <<RegisterDestroy>>, <<RegisterCreate>>}

FirstScripts == FirstCalls \cup {<<>>}

Calls == IF watcher = "first" THEN FirstCalls ELSE ContractCalls
Scripts == IF watcher = "first" THEN FirstScripts ELSE ContractScripts

-----------------------------------------------------------------------------
(* The steps of all three watchers with setters, their bounds left out.    *)
Decide(w) ==
  Unpack(w) \/ CompareAccount(w) \/ CompareName(w) \/ CastFails(w) \/ \E n \in Nat : Report(w, n)

LookUp == AskEvent \/ AskAccount \/ AskDestroy \/ AskCreate

WatchNext ==
  \/ Outside
  \/ ScanLoop
  \/ SetterStep
  \/ \E s \in Calls : Call(s)
  \/ \E w \in DOMAIN workers : Decide(w) \/ RequestBlock(w) \/ FinishBlock(w)
  \/ LookUp
  \/ Restart

(* The steps of each watcher are among them.                                 *)
(* The steps of each watcher are among them.                                 *)
(* The steps of each watcher are among them.                                 *)
(* The steps of each watcher are among them.                                 *)
(* The steps of each watcher are among them.                                 *)
(* The steps of each watcher are among them.                                 *)
(* The steps of each watcher are among them.                                 *)
(* The steps of each watcher are among them.                                 *)
(* The steps of each watcher are among them.                                 *)
LEMMA ContractSteps ==
  ASSUME Types, changes \in Nat, watcher = "contract", Contract!Next
  PROVE  WatchNext
<1>1. CASE Contract!Outside
  <2>1. Outside
    BY <1>1 DEF Contract!Outside, Outside, Contract!AdvanceChain, AdvanceChain,
       Contract!Receive, Receive, Contract!scanner, scanner, Contract!channel, channel,
       Contract!history, history, Contract!watching, watching
  <2> QED BY <2>1 DEF WatchNext
<1>2. CASE Contract!ScanLoop
  <2>1. ScanLoop
    BY <1>2 DEF Contract!ScanLoop, ScanLoop, Contract!StartWatch, StartWatch,
       Contract!RequestInfo, RequestInfo, Contract!UpdateInfo, UpdateInfo, Contract!CaughtUp,
       CaughtUp, Contract!SlotFree, SlotFree, Contract!PutHeight, PutHeight,
       Contract!PutHeightWith, PutHeightWith, Contract!SpawnWorker, SpawnWorker,
       Contract!NewWorker, NewWorker, Contract!AdvanceScan, AdvanceScan, Contract!AdvanceScanWith,
       AdvanceScanWith, Contract!StoredHeight, StoredHeight, Contract!From, From, Contract!Larger,
       Larger, Contract!channel, channel, Contract!history, history, Contract!watching, watching
  <2> QED BY <2>1 DEF WatchNext
<1>3. CASE Contract!SetterStep
  <2>1. SetterStep
    BY <1>3 DEF Contract!SetterStep, SetterStep, Contract!DestroyPair, DestroyPair,
       Contract!vars, vars, Contract!scanner, scanner, Contract!channel, channel, Contract!history,
       history
  <2> QED BY <2>1 DEF WatchNext
<1>4. CASE Contract!Setter
  <2>1. PICK s \in Calls : Contract!Call(s)
    BY <1>4, Zenon DEF Calls, ContractCalls, FirstCalls, RegisterDestroy, RegisterCreate,
       Contract!Setter, Contract!UpdateActionAccount, Contract!UpdateActionNameDestroy,
       Contract!UpdateActionNameCreate, Contract!Assign, Assign, Contract!Register, Register
  <2>2. Call(s)
    BY <2>1, ActionsAssumption DEF Contract!Call, Call, Contract!Heights, Heights,
       Contract!vars, vars, Contract!scanner, scanner, Contract!channel, channel, Contract!history,
       history
  <2> QED BY <2>2 DEF WatchNext
<1>5. ASSUME NEW w \in DOMAIN workers, Contract!UpdateEOSPushEvent(w)
      PROVE  WatchNext
  <2> USE DEF Contract!Pending, Pending
  <2>1. CASE Contract!Unpack(w)
    <3>1. Unpack(w)
      BY <2>1 DEF Contract!Unpack, Unpack, Contract!At, At, Contract!ActionAt, ActionAt,
         Contract!NextIndex, NextIndex, Contract!KeepWatched, KeepWatched, Contract!vars, vars,
         Contract!scanner, scanner, Contract!channel, channel, Contract!history, history
    <3> QED BY <3>1 DEF WatchNext, Decide
  <2>2. CASE Contract!CompareAccount(w)
    <3>1. CompareAccount(w)
      BY <2>2 DEF Contract!CompareAccount, CompareAccount, Contract!At, At, Contract!ActionAt,
         ActionAt, Contract!NextIndex, NextIndex, Contract!Goto, Goto, Contract!KeepWatched,
         KeepWatched, Contract!PassOver, PassOver, Contract!Forget, Forget, Contract!Idle, Idle,
         Contract!vars, vars, Contract!scanner, scanner, Contract!channel, channel,
         Contract!history, history
    <3> QED BY <3>1 DEF WatchNext, Decide
  <2>3. CASE Contract!CompareName(w)
    <3>1. CompareName(w)
      BY <2>3 DEF Contract!CompareName, CompareName, Contract!At, At, Contract!ActionAt,
         ActionAt, Contract!NextIndex, NextIndex, Contract!Goto, Goto, Contract!KeepWatched,
         KeepWatched, Contract!PassOver, PassOver, Contract!Forget, Forget, Contract!Idle, Idle,
         Contract!vars, vars, Contract!scanner, scanner, Contract!channel, channel,
         Contract!history, history
    <3> QED BY <3>1 DEF WatchNext, Decide
  <2>4. CASE Contract!CastFails(w)
    <3>1. CastFails(w)
      BY <2>4 DEF Contract!CastFails, CastFails, Contract!IsDestroy, IsDestroy, Contract!At, At,
         Contract!ActionAt, ActionAt, Contract!NextIndex, NextIndex, Contract!KeepWatched,
         KeepWatched, Contract!PassOver, PassOver, Contract!Forget, Forget, Contract!Idle, Idle,
         Contract!scanner, scanner, Contract!channel, channel, Contract!history, history
    <3> QED BY <3>1 DEF WatchNext, Decide
  <2> DEFINE n == workers[w].height
  <2>5. CASE Contract!Report(w, n)
    <3>1. Report(w, n)
      BY <2>5 DEF Contract!Report, Report, Contract!ReportEvent, ReportEvent, Contract!EventOf,
         EventOf, Contract!IsDestroy, IsDestroy, Contract!At, At, Contract!ActionAt, ActionAt,
         Contract!NextIndex, NextIndex, Contract!KeepWatched, KeepWatched, Contract!Forget, Forget,
         Contract!Idle, Idle, Contract!scanner, scanner, Contract!history, history
    <3>2. n \in Nat
      <4>1. workers[w] \in Workers
        BY DEF Types
      <4> QED BY <4>1, ConstantsAssumption DEF Workers, Heights, Types
    <3> QED BY <3>1, <3>2 DEF WatchNext, Decide
  <2> QED BY <1>5, <2>1, <2>2, <2>3, <2>4, <2>5 DEF Contract!UpdateEOSPushEvent
<1>6. ASSUME NEW w \in DOMAIN workers, Contract!RequestBlock(w) \/ Contract!FinishBlock(w)
      PROVE  WatchNext
  <2>1. RequestBlock(w) \/ FinishBlock(w)
    BY <1>6 DEF Contract!RequestBlock, RequestBlock, Contract!AcquireSlot, AcquireSlot,
       Contract!FetchBlock, FetchBlock, Contract!FinishBlock, FinishBlock, Contract!ReleaseSlot,
       ReleaseSlot, Contract!Pending, Pending, Contract!scanner, scanner, Contract!channel,
       channel, Contract!history, history, Contract!watching, watching
  <2> QED BY <2>1 DEF WatchNext
<1>7. CASE Contract!GetEventByTxid
  <2>1. LookUp
    BY <1>7 DEF LookUp, Contract!GetEventByTxid, Contract!AskEvent, AskEvent,
       Contract!AskAccount, AskAccount, Contract!AskDestroy, AskDestroy, Contract!AskCreate,
       AskCreate, Contract!AskTo, AskTo, Contract!AskedAction, AskedAction, Contract!TxIDs, TxIDs,
       Contract!Heights, Heights, Contract!vars, vars, Contract!scanner, scanner, Contract!channel,
       channel, Contract!history, history
  <2> QED BY <2>1 DEF WatchNext
<1>8. CASE Contract!Restart
  <2>1. Restart
    BY <1>8, ConstantsAssumption DEF Types, Contract!Restart, Restart, Contract!Crash, Crash,
       Contract!PendingTx, PendingTx, Contract!Pending, Pending, Contract!QueuedTx, QueuedTx,
       Contract!ChannelNames, ChannelNames, Contract!Heights, Heights, Contract!Idle, Idle,
       Contract!NotAsked, NotAsked, Contract!Constructed, Constructed, Contract!DestroyPair,
       DestroyPair
  <2> QED BY <2>1 DEF WatchNext
<1> QED BY <1>1, <1>2, <1>3, <1>4, <1>5, <1>6, <1>7, <1>8 DEF Contract!Next

(* The same of the contract watcher that is asked, within its bounds.         *)
LEMMA AskedContractSteps ==
  ASSUME Types, changes \in Nat, watcher = "askedContract", AskedContract!Next
  PROVE  WatchNext
<1>1. CASE AskedContract!Outside
  <2>1. Outside
    BY <1>1 DEF AskedContract!Outside, Outside, AskedContract!AdvanceChain, AdvanceChain,
       AskedContract!Receive, Receive, AskedContract!scanner, scanner, AskedContract!channel,
       channel, AskedContract!history, history, AskedContract!watching, watching
  <2> QED BY <2>1 DEF WatchNext
<1>2. CASE AskedContract!ScanLoop
  <2>1. ScanLoop
    BY <1>2 DEF AskedContract!ScanLoop, ScanLoop, AskedContract!StartWatch, StartWatch,
       AskedContract!RequestInfo, RequestInfo, AskedContract!UpdateInfo, UpdateInfo,
       AskedContract!CaughtUp, CaughtUp, AskedContract!SlotFree, SlotFree, AskedContract!PutHeight,
       PutHeight, AskedContract!PutHeightWith, PutHeightWith, AskedContract!SpawnWorker,
       SpawnWorker, AskedContract!NewWorker, NewWorker, AskedContract!AdvanceScan, AdvanceScan,
       AskedContract!AdvanceScanWith, AdvanceScanWith, AskedContract!StoredHeight, StoredHeight,
       AskedContract!From, From, AskedContract!Larger, Larger, AskedContract!channel, channel,
       AskedContract!history, history, AskedContract!watching, watching
  <2> QED BY <2>1 DEF WatchNext
<1>3. CASE AskedContract!SetterStep
  <2>1. SetterStep
    BY <1>3 DEF AskedContract!SetterStep, SetterStep, AskedContract!DestroyPair, DestroyPair,
       AskedContract!vars, vars, AskedContract!scanner, scanner, AskedContract!channel, channel,
       AskedContract!history, history
  <2> QED BY <2>1 DEF WatchNext
<1>4. CASE AskedContract!Setter
  <2>1. PICK s \in Calls : AskedContract!Call(s)
    BY <1>4, Zenon DEF Calls, ContractCalls, FirstCalls, RegisterDestroy, RegisterCreate,
       AskedContract!Setter, AskedContract!UpdateActionAccount,
       AskedContract!UpdateActionNameDestroy, AskedContract!UpdateActionNameCreate,
       AskedContract!Assign, Assign, AskedContract!Register, Register
  <2>2. Call(s)
    BY <2>1, ActionsAssumption DEF AskedContract!Call, Call, AskedContract!Heights, Heights,
       AskedContract!vars, vars, AskedContract!scanner, scanner, AskedContract!channel, channel,
       AskedContract!history, history
  <2> QED BY <2>2 DEF WatchNext
<1>5. ASSUME NEW w \in DOMAIN workers, AskedContract!UpdateEOSPushEvent(w)
      PROVE  WatchNext
  <2> USE DEF AskedContract!Pending, Pending
  <2>1. CASE AskedContract!Unpack(w)
    <3>1. Unpack(w)
      BY <2>1 DEF AskedContract!Unpack, Unpack, AskedContract!At, At, AskedContract!ActionAt,
         ActionAt, AskedContract!NextIndex, NextIndex, AskedContract!KeepWatched, KeepWatched,
         AskedContract!vars, vars, AskedContract!scanner, scanner, AskedContract!channel, channel,
         AskedContract!history, history
    <3> QED BY <3>1 DEF WatchNext, Decide
  <2>2. CASE AskedContract!CompareAccount(w)
    <3>1. CompareAccount(w)
      BY <2>2 DEF AskedContract!CompareAccount, CompareAccount, AskedContract!At, At,
         AskedContract!ActionAt, ActionAt, AskedContract!NextIndex, NextIndex, AskedContract!Goto,
         Goto, AskedContract!KeepWatched, KeepWatched, AskedContract!PassOver, PassOver,
         AskedContract!Forget, Forget, AskedContract!Idle, Idle, AskedContract!vars, vars,
         AskedContract!scanner, scanner, AskedContract!channel, channel, AskedContract!history,
         history
    <3> QED BY <3>1 DEF WatchNext, Decide
  <2>3. CASE AskedContract!CompareName(w)
    <3>1. CompareName(w)
      BY <2>3 DEF AskedContract!CompareName, CompareName, AskedContract!At, At,
         AskedContract!ActionAt, ActionAt, AskedContract!NextIndex, NextIndex, AskedContract!Goto,
         Goto, AskedContract!KeepWatched, KeepWatched, AskedContract!PassOver, PassOver,
         AskedContract!Forget, Forget, AskedContract!Idle, Idle, AskedContract!vars, vars,
         AskedContract!scanner, scanner, AskedContract!channel, channel, AskedContract!history,
         history
    <3> QED BY <3>1 DEF WatchNext, Decide
  <2>4. CASE AskedContract!CastFails(w)
    <3>1. CastFails(w)
      BY <2>4 DEF AskedContract!CastFails, CastFails, AskedContract!IsDestroy, IsDestroy,
         AskedContract!At, At, AskedContract!ActionAt, ActionAt, AskedContract!NextIndex,
         NextIndex, AskedContract!KeepWatched, KeepWatched, AskedContract!PassOver, PassOver,
         AskedContract!Forget, Forget, AskedContract!Idle, Idle, AskedContract!scanner, scanner,
         AskedContract!channel, channel, AskedContract!history, history
    <3> QED BY <3>1 DEF WatchNext, Decide
  <2> DEFINE n == workers[w].height
  <2>5. CASE AskedContract!Report(w, n)
    <3>1. Report(w, n)
      BY <2>5 DEF AskedContract!Report, Report, AskedContract!ReportEvent, ReportEvent,
         AskedContract!EventOf, EventOf, AskedContract!IsDestroy, IsDestroy, AskedContract!At, At,
         AskedContract!ActionAt, ActionAt, AskedContract!NextIndex, NextIndex,
         AskedContract!KeepWatched, KeepWatched, AskedContract!Forget, Forget, AskedContract!Idle,
         Idle, AskedContract!scanner, scanner, AskedContract!history, history
    <3>2. n \in Nat
      <4>1. workers[w] \in Workers
        BY DEF Types
      <4> QED BY <4>1, ConstantsAssumption DEF Workers, Heights, Types
    <3> QED BY <3>1, <3>2 DEF WatchNext, Decide
  <2> QED BY <1>5, <2>1, <2>2, <2>3, <2>4, <2>5 DEF AskedContract!UpdateEOSPushEvent
<1>6. ASSUME NEW w \in DOMAIN workers, AskedContract!RequestBlock(w) \/ AskedContract!FinishBlock(w)
      PROVE  WatchNext
  <2>1. RequestBlock(w) \/ FinishBlock(w)
    BY <1>6 DEF AskedContract!RequestBlock, RequestBlock, AskedContract!AcquireSlot,
       AcquireSlot, AskedContract!FetchBlock, FetchBlock, AskedContract!FinishBlock, FinishBlock,
       AskedContract!ReleaseSlot, ReleaseSlot, AskedContract!Pending, Pending,
       AskedContract!scanner, scanner, AskedContract!channel, channel, AskedContract!history,
       history, AskedContract!watching, watching
  <2> QED BY <2>1 DEF WatchNext
<1>7. CASE AskedContract!GetEventByTxid
  <2>1. LookUp
    BY <1>7 DEF LookUp, AskedContract!GetEventByTxid, AskedContract!AskEvent, AskEvent,
       AskedContract!AskAccount, AskAccount, AskedContract!AskDestroy, AskDestroy,
       AskedContract!AskCreate, AskCreate, AskedContract!AskTo, AskTo, AskedContract!AskedAction,
       AskedAction, AskedContract!TxIDs, TxIDs, AskedContract!Heights, Heights, AskedContract!vars,
       vars, AskedContract!scanner, scanner, AskedContract!channel, channel, AskedContract!history,
       history
  <2> QED BY <2>1 DEF WatchNext
<1>8. CASE AskedContract!Restart
  <2>1. Restart
    BY <1>8, ConstantsAssumption DEF Types, AskedContract!Restart, Restart, AskedContract!Crash,
       Crash, AskedContract!PendingTx, PendingTx, AskedContract!Pending, Pending,
       AskedContract!QueuedTx, QueuedTx, AskedContract!ChannelNames, ChannelNames,
       AskedContract!Heights, Heights, AskedContract!Idle, Idle, AskedContract!NotAsked, NotAsked,
       AskedContract!Constructed, Constructed, AskedContract!DestroyPair, DestroyPair
  <2> QED BY <2>1 DEF WatchNext
<1> QED BY <1>1, <1>2, <1>3, <1>4, <1>5, <1>6, <1>7, <1>8 DEF AskedContract!Next

(* And of the first watcher, whose events carry a later height.             *)
LEMMA FirstSteps ==
  ASSUME Types, changes \in Nat, watcher = "first", FirstActions!Next
  PROVE  WatchNext
<1>1. CASE FirstActions!Outside
  <2>1. Outside
    BY <1>1 DEF FirstActions!Outside, Outside, FirstActions!AdvanceChain, AdvanceChain,
       FirstActions!Receive, Receive, FirstActions!scanner, scanner, FirstActions!channel, channel,
       FirstActions!history, history, FirstActions!watching, watching
  <2> QED BY <2>1 DEF WatchNext
<1>2. CASE FirstActions!ScanLoop
  <2>1. ScanLoop
    BY <1>2 DEF FirstActions!ScanLoop, ScanLoop, FirstActions!StartWatch, StartWatch,
       FirstActions!RequestInfo, RequestInfo, FirstActions!UpdateInfo, UpdateInfo,
       FirstActions!CaughtUp, CaughtUp, FirstActions!SlotFree, SlotFree, FirstActions!PutHeight,
       PutHeight, FirstActions!PutHeightWith, PutHeightWith, FirstActions!SpawnWorker, SpawnWorker,
       FirstActions!NewWorker, NewWorker, FirstActions!AdvanceScan, AdvanceScan,
       FirstActions!AdvanceScanWith, AdvanceScanWith, FirstActions!StoredHeight, StoredHeight,
       FirstActions!From, From, FirstActions!Larger, Larger, FirstActions!channel, channel,
       FirstActions!history, history, FirstActions!watching, watching
  <2> QED BY <2>1 DEF WatchNext
<1>3. CASE FirstActions!SetterStep
  <2>1. SetterStep
    BY <1>3 DEF FirstActions!SetterStep, SetterStep, FirstActions!DestroyPair, DestroyPair,
       FirstActions!vars, vars, FirstActions!scanner, scanner, FirstActions!channel, channel,
       FirstActions!history, history
  <2> QED BY <2>1 DEF WatchNext
<1>4. CASE FirstActions!Setter
  <2>1. PICK s \in Calls : FirstActions!Call(s)
    BY <1>4, Zenon DEF Calls, ContractCalls, FirstCalls, RegisterDestroy, RegisterCreate,
       FirstActions!Setter, FirstActions!UpdateActionAccount, FirstActions!UpdateActionNameDestroy,
       FirstActions!UpdateActionNameCreate, FirstActions!Assign, Assign, FirstActions!Register,
       Register
  <2>2. Call(s)
    BY <2>1, ActionsAssumption DEF FirstActions!Call, Call, FirstActions!Heights, Heights,
       FirstActions!vars, vars, FirstActions!scanner, scanner, FirstActions!channel, channel,
       FirstActions!history, history
  <2> QED BY <2>2 DEF WatchNext
<1>5. ASSUME NEW w \in DOMAIN workers, FirstActions!UpdateEOSPushEvent(w)
      PROVE  WatchNext
  <2> USE DEF FirstActions!Pending, Pending
  <2>1. CASE FirstActions!Unpack(w)
    <3>1. Unpack(w)
      BY <2>1 DEF FirstActions!Unpack, Unpack, FirstActions!At, At, FirstActions!ActionAt,
         ActionAt, FirstActions!NextIndex, NextIndex, FirstActions!KeepWatched, KeepWatched,
         FirstActions!vars, vars, FirstActions!scanner, scanner, FirstActions!channel, channel,
         FirstActions!history, history
    <3> QED BY <3>1 DEF WatchNext, Decide
  <2>2. CASE FirstActions!CompareAccount(w)
    <3>1. CompareAccount(w)
      BY <2>2 DEF FirstActions!CompareAccount, CompareAccount, FirstActions!At, At,
         FirstActions!ActionAt, ActionAt, FirstActions!NextIndex, NextIndex, FirstActions!Goto,
         Goto, FirstActions!KeepWatched, KeepWatched, FirstActions!PassOver, PassOver,
         FirstActions!Forget, Forget, FirstActions!Idle, Idle, FirstActions!vars, vars,
         FirstActions!scanner, scanner, FirstActions!channel, channel, FirstActions!history,
         history
    <3> QED BY <3>1 DEF WatchNext, Decide
  <2>3. CASE FirstActions!CompareName(w)
    <3>1. CompareName(w)
      BY <2>3 DEF FirstActions!CompareName, CompareName, FirstActions!At, At,
         FirstActions!ActionAt, ActionAt, FirstActions!NextIndex, NextIndex, FirstActions!Goto,
         Goto, FirstActions!KeepWatched, KeepWatched, FirstActions!PassOver, PassOver,
         FirstActions!Forget, Forget, FirstActions!Idle, Idle, FirstActions!vars, vars,
         FirstActions!scanner, scanner, FirstActions!channel, channel, FirstActions!history,
         history
    <3> QED BY <3>1 DEF WatchNext, Decide
  <2>4. CASE FirstActions!CastFails(w)
    <3>1. CastFails(w)
      BY <2>4 DEF FirstActions!CastFails, CastFails, FirstActions!IsDestroy, IsDestroy,
         FirstActions!At, At, FirstActions!ActionAt, ActionAt, FirstActions!NextIndex, NextIndex,
         FirstActions!KeepWatched, KeepWatched, FirstActions!PassOver, PassOver,
         FirstActions!Forget, Forget, FirstActions!Idle, Idle, FirstActions!scanner, scanner,
         FirstActions!channel, channel, FirstActions!history, history
    <3> QED BY <3>1 DEF WatchNext, Decide
  <2>5. ASSUME NEW n \in workers[w].height .. ScanBlockHeight, FirstActions!Report(w, n)
        PROVE  WatchNext
    <3>1. Report(w, n)
      BY <2>5 DEF FirstActions!Report, Report, FirstActions!ReportEvent, ReportEvent,
         FirstActions!EventOf, EventOf, FirstActions!IsDestroy, IsDestroy, FirstActions!At, At,
         FirstActions!ActionAt, ActionAt, FirstActions!NextIndex, NextIndex,
         FirstActions!KeepWatched, KeepWatched, FirstActions!Forget, Forget, FirstActions!Idle,
         Idle, FirstActions!scanner, scanner, FirstActions!history, history
    <3>2. n \in Nat
      <4>1. workers[w] \in Workers
        BY DEF Types
      <4> QED BY <4>1, ConstantsAssumption DEF Workers, Heights, Types
    <3> QED BY <3>1, <3>2 DEF WatchNext, Decide
  <2> QED BY <1>5, <2>1, <2>2, <2>3, <2>4, <2>5 DEF FirstActions!UpdateEOSPushEvent
<1>6. ASSUME NEW w \in DOMAIN workers, FirstActions!RequestBlock(w) \/ FirstActions!FinishBlock(w)
      PROVE  WatchNext
  <2>1. RequestBlock(w) \/ FinishBlock(w)
    BY <1>6 DEF FirstActions!RequestBlock, RequestBlock, FirstActions!AcquireSlot, AcquireSlot,
       FirstActions!FetchBlock, FetchBlock, FirstActions!FinishBlock, FinishBlock,
       FirstActions!ReleaseSlot, ReleaseSlot, FirstActions!Pending, Pending, FirstActions!scanner,
       scanner, FirstActions!channel, channel, FirstActions!history, history,
       FirstActions!watching, watching
  <2> QED BY <2>1 DEF WatchNext
<1>7. CASE FirstActions!GetEventByTxid
  <2>1. LookUp
    BY <1>7 DEF LookUp, FirstActions!GetEventByTxid, FirstActions!AskEvent, AskEvent,
       FirstActions!AskAccount, AskAccount, FirstActions!AskDestroy, AskDestroy,
       FirstActions!AskCreate, AskCreate, FirstActions!AskTo, AskTo, FirstActions!AskedAction,
       AskedAction, FirstActions!TxIDs, TxIDs, FirstActions!Heights, Heights, FirstActions!vars,
       vars, FirstActions!scanner, scanner, FirstActions!channel, channel, FirstActions!history,
       history
  <2> QED BY <2>1 DEF WatchNext
<1>8. CASE FirstActions!Restart
  <2>1. Restart
    BY <1>8, ConstantsAssumption DEF Types, FirstActions!Restart, Restart, FirstActions!Crash,
       Crash, FirstActions!PendingTx, PendingTx, FirstActions!Pending, Pending,
       FirstActions!QueuedTx, QueuedTx, FirstActions!ChannelNames, ChannelNames,
       FirstActions!Heights, Heights, FirstActions!Idle, Idle, FirstActions!NotAsked, NotAsked,
       FirstActions!Constructed, Constructed, FirstActions!DestroyPair, DestroyPair
  <2> QED BY <2>1 DEF WatchNext
<1> QED BY <1>1, <1>2, <1>3, <1>4, <1>5, <1>6, <1>7, <1>8 DEF FirstActions!Next

-----------------------------------------------------------------------------
(* The invariant.  Worker w is between unpacking a receipt and deciding.   *)
Compares(w) == \E stage \in {"account", "name", "cast"} : At(w, stage)

LookOf(w) == look[workers[w].height]

PairAt(w) == PairOf(<<workers[w].height, NextIndex(w)>>)

(* What may be reported: the constructor's pair by the first watcher.      *)
MayReport(pair) == pair \in configured /\ (watcher = "first" => pair = DestroyPair(First))

AskStages == {"none", "account", "destroy", "create", "destroyed", "created", "error"}

WatchTypes ==
  /\ watched \in Fields
  /\ registered \in [Accounts \X Names -> {"none", "Issue", "Solvent"}]
  /\ look \in [Heights -> [stage : Stages, type : {"none", "Issue", "Solvent"}, calm : BOOLEAN]]
  /\ ask \in [stage : AskStages, tx : TxIDs \cup {<<0, 0>>}, calm : BOOLEAN]
  /\ ask.stage # "none" => ask.tx \in DOMAIN Action
  /\ configured \subseteq Accounts \X Names
  /\ merged \in BOOLEAN
  /\ changes \in 0..MaxChanges

(* Only a worker with receipts left is in the middle of one.               *)
LookOwned ==
  \A h \in Heights : look[h].stage # "unpack" =>
    \E w \in DOMAIN workers : workers[w].height = h /\ At(w, look[h].stage)

(* The setters: what is registered was configured, and what is watched is  *)
(* registered or about to be.                                              *)
SetterInv ==
  /\ setter \in Scripts
  /\ DestroyPair(watched) \in configured
  /\ \A p \in Accounts \X Names : registered[p] = "Solvent" => MayReport(p)
  /\ watched.ActionNameDestroy = watched.ActionNameCreate => merged
  /\ watcher # "first" /\ ~ merged =>
       \/ registered[DestroyPair(watched)] = "Solvent"
       \/ \E k \in DOMAIN setter : setter[k] = RegisterDestroy

(* The workers: what a comparison found, and that it still is so unless a  *)
(* setter ran since.                                                       *)
LookFound(w) ==
  /\ LookOf(w).type = "Solvent" => MayReport(PairAt(w))
  /\ LookOf(w).calm =>
       /\ setter = <<>>
       /\ LookOf(w).type = registered[PairAt(w)]
       /\ LookOf(w).stage # "account" => ActionAt(w).account = watched.ActionAccount
       /\ LookOf(w).stage = "cast" => ActionAt(w).name = watched.ActionNameDestroy

LookInv == \A w \in DOMAIN workers : Compares(w) => LookFound(w)

SentInv == \A k \in DOMAIN sent : MayReport(PairOf(sent[k].TxID)) /\ Action[sent[k].TxID].ours

(* The look-up, likewise.                                                  *)
AskInv ==
  ask.calm /\ ask.stage # "none" =>
    /\ setter = <<>>
    /\ ask.stage \in {"destroy", "create"} => AskedAction.account = watched.ActionAccount
    /\ ask.stage = "create" => AskedAction.name # watched.ActionNameDestroy
    /\ ask.stage \in {"created", "error"} =>
         ~ (PairOf(ask.tx) = DestroyPair(watched) /\ AskedAction.ours)
    /\ ask.stage = "destroyed" => PairOf(ask.tx) = DestroyPair(watched) /\ AskedAction.ours

WatchInv == WatchTypes /\ LookOwned /\ SetterInv /\ LookInv /\ SentInv /\ AskInv

WatchersInv == ScanInv /\ SlotInv /\ WatchInv

-----------------------------------------------------------------------------
(* A set of numbers that is not empty has a least one.                     *)
LEMMA LeastIndex ==
  ASSUME NEW S \in SUBSET Nat, S # {}
  PROVE  \E m \in S : \A j \in S : m <= j
<1> DEFINE R == OpToRel(<, Nat)
<1>1. IsWellFoundedOn(R, Nat)
  BY NatLessThanWellFounded
<1>2. \A i, j \in Nat : i < j => <<i, j>> \in R
  BY DEF OpToRel
<1> HIDE DEF R
<1>3. PICK m \in S : \A j \in S : ~ (<<j, m>> \in R)
  BY <1>1, WFMin
<1>4. ASSUME NEW j \in S PROVE m <= j
  <2>1. m \in Nat /\ j \in Nat /\ ~ (<<j, m>> \in R)
    BY <1>3
  <2>2. ~ (j < m)
    BY <1>2, <2>1, Zenon
  <2> QED BY <2>1, <2>2
<1> QED BY <1>4

(* The receipt a worker looks at is one of its block's, and is known.      *)
LEMMA NextFacts ==
  ASSUME Types, NEW w \in DOMAIN workers, workers[w].pc = "report", Pending(w) # {}
  PROVE  /\ workers[w] \in Workers /\ workers[w].height \in Heights
         /\ NextIndex(w) \in Pending(w) /\ NextIndex(w) \in Nat
         /\ \A j \in Pending(w) : NextIndex(w) <= j
         /\ <<workers[w].height, NextIndex(w)>> \in TxIDs
         /\ <<workers[w].height, NextIndex(w)>> \in DOMAIN Action
         /\ ActionAt(w) \in [account : Accounts, name : Names, ours : BOOLEAN]
         /\ PairAt(w) = <<ActionAt(w).account, ActionAt(w).name>>
         /\ PairAt(w) \in Accounts \X Names
<1>1. workers[w] \in Workers
  BY DEF Types
<1>2. workers[w].height \in Heights
  BY <1>1 DEF Workers
<1>3. Pending(w) \subseteq PushIndexes[workers[w].height] /\ PushIndexes[workers[w].height] \in SUBSET Nat
  BY <1>2, ConstantsAssumption DEF Pending
<1>4. \E m \in Pending(w) : \A j \in Pending(w) : m <= j
  BY <1>3, LeastIndex
<1>5. NextIndex(w) \in Pending(w) /\ \A j \in Pending(w) : NextIndex(w) <= j
  BY <1>4, Zenon DEF NextIndex
<1>6. NextIndex(w) \in PushIndexes[workers[w].height] /\ NextIndex(w) \in Nat
  BY <1>3, <1>5
<1>7. <<workers[w].height, NextIndex(w)>> \in TxIDs
  BY <1>2, <1>6 DEF TxIDs
<1>8. <<workers[w].height, NextIndex(w)>> \in DOMAIN Action
  BY <1>2, <1>6, ActionsAssumption
<1>9. ActionAt(w) \in [account : Accounts, name : Names, ours : BOOLEAN]
  BY <1>8, ActionsAssumption DEF ActionAt
<1>10. PairAt(w) = <<ActionAt(w).account, ActionAt(w).name>>
  BY DEF PairAt, PairOf, ActionAt
<1>11. PairAt(w) \in Accounts \X Names
  BY <1>9, <1>10
<1> QED
  BY <1>1, <1>2, <1>5, <1>6, <1>7, <1>8, <1>9, <1>10, <1>11

(* Two workers have different blocks.                                      *)
LEMMA OneWorker ==
  ASSUME ScanInv, NEW v \in DOMAIN workers, NEW w \in DOMAIN workers,
         workers[v].height = workers[w].height
  PROVE  v = w
<1>1. pc # "down"
  BY DEF ScanInv, ScannerBounds
<1>2. workers[v].height = first + v - 1 /\ workers[w].height = first + w - 1
  BY <1>1 DEF ScanInv, ScanIsContiguous
<1>3. workers \in Seq(Workers) /\ first \in Nat
  BY DEF ScanInv, Types
<1>4. v \in Nat /\ w \in Nat
  BY <1>3
<1>5. first + v - 1 = first + w - 1
  BY <1>2
<1> QED BY <1>3, <1>4, <1>5

(* A worker's place in its block depends on the worker only.               *)
LEMMA SameWorker ==
  ASSUME NEW w, workers'[w] = workers[w]
  PROVE  /\ Pending(w)' = Pending(w) /\ NextIndex(w)' = NextIndex(w)
         /\ ActionAt(w)' = ActionAt(w) /\ PairAt(w)' = PairAt(w)
<1>1. Pending(w)' = Pending(w)
  BY DEF Pending
<1>2. NextIndex(w)' = NextIndex(w)
  BY <1>1, Zenon DEF NextIndex
<1> QED BY <1>1, <1>2, Zenon DEF ActionAt, PairAt, PairOf

(* Neither the worker, its place nor what it compares with is changed.     *)
LEMMA SameLook ==
  ASSUME NEW w, workers'[w] = workers[w], look'[workers[w].height] = look[workers[w].height],
         UNCHANGED <<watched, registered, setter, watcher>>, configured \subseteq configured'
  PROVE  /\ \A stage : At(w, stage)' <=> At(w, stage)
         /\ Compares(w)' <=> Compares(w)
         /\ LookFound(w) => LookFound(w)'
<1>1. Pending(w)' = Pending(w) /\ ActionAt(w)' = ActionAt(w) /\ PairAt(w)' = PairAt(w)
  BY SameWorker
<1>2. LookOf(w)' = LookOf(w)
  BY DEF LookOf
<1>3. \A stage : At(w, stage)' <=> At(w, stage)
  BY <1>1 DEF At
<1>4. Compares(w)' <=> Compares(w)
  BY <1>3, Zenon DEF Compares
<1>5. ASSUME LookFound(w) PROVE LookFound(w)'
  <2> HIDE DEF LookOf, PairAt, ActionAt
  <2> QED BY <1>1, <1>2, <1>5 DEF LookFound, MayReport
<1> QED BY <1>3, <1>4, <1>5

(* A step of the scan that no comparing worker takes part in.              *)
LEMMA ScanKeepsLook ==
  ASSUME WatchInv, UNCHANGED <<watching, watcher>>,
         \A w \in DOMAIN workers : workers[w].pc = "report" /\ Pending(w) # {} =>
           w \in DOMAIN workers' /\ workers'[w] = workers[w],
         \A w \in DOMAIN workers' : Compares(w)' => w \in DOMAIN workers /\ workers'[w] = workers[w],
         sent' = sent
  PROVE  WatchInv'
<1>1. UNCHANGED <<watched, registered, setter, look, ask, configured, merged, changes, watcher>>
  BY DEF watching
<1>2. WatchTypes' /\ SetterInv' /\ SentInv' /\ AskInv'
  <2>1. WatchTypes /\ SetterInv /\ SentInv /\ AskInv
    BY DEF WatchInv
  <2> QED
    BY <1>1, <2>1 DEF WatchTypes, SetterInv, MayReport, Scripts, SentInv, PairOf, AskInv, AskedAction
<1>3. LookInv'
  <2>1. ASSUME NEW w \in DOMAIN workers', Compares(w)' PROVE LookFound(w)'
    <3>1. w \in DOMAIN workers /\ workers'[w] = workers[w]
      BY <2>1
    <3>2. Compares(w) /\ (LookFound(w) => LookFound(w)')
      BY <1>1, <2>1, <3>1, SameLook
    <3> QED BY <3>1, <3>2 DEF WatchInv, LookInv
  <2> QED BY <2>1 DEF LookInv
<1>4. LookOwned'
  <2>1. ASSUME NEW h \in Heights, look[h].stage # "unpack"
        PROVE  \E w \in DOMAIN workers' : workers'[w].height = h /\ At(w, look[h].stage)'
    <3>1. PICK w \in DOMAIN workers : workers[w].height = h /\ At(w, look[h].stage)
      BY <2>1 DEF WatchInv, LookOwned
    <3>2. w \in DOMAIN workers' /\ workers'[w] = workers[w]
      BY <3>1 DEF At
    <3>3. At(w, look[h].stage)'
      BY <1>1, <3>1, <3>2, SameLook
    <3> QED BY <3>1, <3>2, <3>3
  <2> QED BY <1>1, <2>1 DEF LookOwned
<1> QED BY <1>2, <1>3, <1>4 DEF WatchInv

-----------------------------------------------------------------------------
(* The steps of the scan: as those of EOSWatcherMain for the scan itself,  *)
(* and they disturb no comparison.                                         *)
LEMMA ScanStep ==
  ASSUME WatchersInv, UNCHANGED watcher, Outside \/ ScanLoop
  PROVE  WatchersInv'
<1>1. Next /\ UNCHANGED watching
  BY DEF Outside, ScanLoop, RequestInfo, Next, Scanner
<1>2. ScanInv' /\ SlotInv'
  BY <1>1, ScanInvStep, SlotInvStep DEF WatchersInv
<1>3. sent' = sent
  BY DEF Outside, ScanLoop, AdvanceChain, Receive, StartWatch, RequestInfo, UpdateInfo, CaughtUp, SlotFree,
     PutHeight, PutHeightWith, SpawnWorker, AdvanceScan, AdvanceScanWith, channel
<1>4. Types /\ DOMAIN workers = 1..Len(workers) /\ Len(workers) \in Nat
  BY DEF WatchersInv, ScanInv, Types
<1>5. CASE workers' = workers
  <2>1. WatchInv'
    BY <1>1, <1>3, <1>5, ScanKeepsLook DEF WatchersInv
  <2> QED BY <1>2, <2>1 DEF WatchersInv
<1>6. CASE SpawnWorker
  <2>1. /\ DOMAIN workers' = 1..Len(workers) + 1
        /\ \A v \in DOMAIN workers : workers'[v] = workers[v]
        /\ workers'[Len(workers) + 1] = NewWorker
    BY <1>4, <1>6 DEF SpawnWorker, Types
  <2>2. ASSUME NEW w \in DOMAIN workers', Compares(w)' PROVE w \in DOMAIN workers
    <3>1. workers'[w].pc = "report"
      BY <2>2, Zenon DEF Compares, At
    <3>2. NewWorker.pc # "report"
      BY DEF NewWorker
    <3> QED BY <1>4, <2>1, <3>1, <3>2
  <2>3. WatchInv'
    BY <1>1, <1>3, <1>4, <2>1, <2>2, ScanKeepsLook DEF WatchersInv
  <2> QED BY <1>2, <2>3 DEF WatchersInv
<1> QED
  BY <1>5, <1>6 DEF Outside, ScanLoop, AdvanceChain, Receive, StartWatch, RequestInfo, UpdateInfo, CaughtUp,
     SlotFree, PutHeight, PutHeightWith, AdvanceScan, AdvanceScanWith

LEMMA BlockStep ==
  ASSUME WatchersInv, UNCHANGED watcher,
         NEW w \in DOMAIN workers, RequestBlock(w) \/ FinishBlock(w)
  PROVE  WatchersInv'
<1>1. Worker(w) /\ UNCHANGED watching
  BY DEF RequestBlock, FinishBlock, Worker
<1>2. ScanInv' /\ SlotInv'
  BY <1>1, ScanInvStep, SlotInvStep DEF WatchersInv, Next
<1>3. sent' = sent
  BY DEF RequestBlock, FinishBlock, AcquireSlot, FetchBlock, ReleaseSlot, channel
<1>4. Types
  BY DEF WatchersInv, ScanInv
<1>5. PICK p \in WorkerPcs, n \in Nat : WorkerSteps(w, p, n)
  BY <1>1, <1>4, WorkerIsStep
<1>6. /\ DOMAIN workers' = DOMAIN workers
      /\ \A v \in DOMAIN workers : /\ workers'[v].height = workers[v].height
                                   /\ v # w => workers'[v] = workers[v]
      /\ workers'[w].pc = p
  BY <1>4, <1>5, WorkerStepFacts DEF Types
<1>7. ~ (workers[w].pc = "report" /\ Pending(w) # {})
  BY DEF RequestBlock, FinishBlock, AcquireSlot, FetchBlock, ReleaseSlot
<1>8. ASSUME Compares(w)' PROVE FALSE
  <2>1. workers[w].height \in Heights
    <3>1. workers[w] \in Workers
      BY <1>4 DEF Types
    <3> QED BY <3>1 DEF Workers
  <2>2. look[workers[w].height].stage # "unpack"
    <3>1. PICK stage \in {"account", "name", "cast"} : At(w, stage)'
      BY <1>8, Zenon DEF Compares
    <3> QED BY <1>1, <1>6, <3>1 DEF At, watching
  <2>3. PICK v \in DOMAIN workers : /\ workers[v].height = workers[w].height
                                    /\ At(v, look[workers[w].height].stage)
    BY <2>1, <2>2 DEF WatchersInv, WatchInv, LookOwned
  <2>4. v = w
    BY <2>3, OneWorker DEF WatchersInv
  <2> QED BY <1>7, <2>3, <2>4 DEF At
<1>9. WatchInv'
  BY <1>1, <1>3, <1>6, <1>7, <1>8, ScanKeepsLook DEF WatchersInv
<1> QED BY <1>2, <1>9 DEF WatchersInv

-----------------------------------------------------------------------------
(* Everything of the scan stays as it is.                                  *)
LEMMA ScanUnchanged ==
  ASSUME WatchersInv, UNCHANGED vars PROVE ScanInv' /\ SlotInv'
BY ScanInvStep, SlotInvStep DEF WatchersInv

(* A setter is called: every comparison and look-up under way is no longer *)
(* undisturbed.                                                            *)
LEMMA CallStep ==
  ASSUME WatchersInv, UNCHANGED watcher, NEW s \in Calls, Call(s)
  PROVE  WatchersInv'
<1> USE DEF WatchersInv, WatchInv
<1>1. UNCHANGED <<vars, watched, registered, configured, merged>> /\ workers' = workers /\ sent' = sent
  BY DEF Call, vars, channel
<1>2. ScanInv' /\ SlotInv'
  BY <1>1, ScanUnchanged
<1>3. /\ look \in [Heights -> [stage : Stages, type : {"none", "Issue", "Solvent"}, calm : BOOLEAN]]
      /\ look' = [h \in Heights |-> [look[h] EXCEPT !.calm = FALSE]]
  BY DEF Call, WatchTypes
<1>4. \A h \in Heights : look'[h].stage = look[h].stage /\ look'[h].type = look[h].type /\ look'[h].calm = FALSE
  BY <1>3
<1>5. WatchTypes'
  <2>1. look' \in [Heights -> [stage : Stages, type : {"none", "Issue", "Solvent"}, calm : BOOLEAN]]
    BY <1>3
  <2>2. changes' \in 0..MaxChanges
    BY ActionsAssumption DEF Call, WatchTypes
  <2>3. /\ ask' \in [stage : AskStages, tx : TxIDs \cup {<<0, 0>>}, calm : BOOLEAN]
        /\ ask'.stage = ask.stage /\ ask'.tx = ask.tx
    BY DEF Call, WatchTypes
  <2> QED BY <1>1, <2>1, <2>2, <2>3 DEF WatchTypes, TxIDs
<1>6. SetterInv'
  <2>1. s \in Scripts /\ setter = <<>> /\ setter' = s
    BY DEF Call, Calls, Scripts, ContractScripts, FirstScripts
  <2>2. watcher # "first" /\ ~ merged => registered[DestroyPair(watched)] = "Solvent"
    BY <2>1 DEF SetterInv
  <2> QED BY <1>1, <2>1, <2>2 DEF SetterInv, Scripts, MayReport
<1>7. \A w \in DOMAIN workers : \A stage : At(w, stage)' <=> At(w, stage)
  <2> SUFFICES ASSUME NEW w \in DOMAIN workers, NEW stage PROVE At(w, stage)' <=> At(w, stage)
    OBVIOUS
  <2>1. workers[w] \in Workers
    BY DEF ScanInv, Types
  <2>2. look'[workers[w].height].stage = look[workers[w].height].stage
    BY <1>4, <2>1 DEF Workers
  <2>3. Pending(w)' = Pending(w)
    BY <1>1, SameWorker
  <2> QED BY <1>1, <2>2, <2>3 DEF At
<1>8. LookOwned'
  BY <1>1, <1>4, <1>7 DEF LookOwned
<1>9. LookInv'
  <2>1. ASSUME NEW w \in DOMAIN workers, Compares(w)' PROVE LookFound(w)'
    <3>1. Compares(w) /\ LookFound(w)
      BY <1>7, <2>1, Zenon DEF Compares, LookInv
    <3>2. workers[w] \in Workers
      BY DEF ScanInv, Types
    <3>3. LookOf(w)'.type = LookOf(w).type /\ LookOf(w)'.calm = FALSE
      BY <1>1, <1>4, <3>2 DEF LookOf, Workers
    <3>4. PairAt(w)' = PairAt(w)
      BY <1>1, SameWorker
    <3> HIDE DEF LookOf
    <3> QED BY <1>1, <3>1, <3>3, <3>4 DEF LookFound, MayReport
  <2> QED BY <1>1, <2>1 DEF LookInv
<1>10. SentInv'
  BY <1>1 DEF SentInv, MayReport, PairOf
<1>11. AskInv'
  <2>1. ask'.calm = FALSE
    BY DEF Call, WatchTypes
  <2> QED BY <2>1 DEF AskInv
<1> QED BY <1>2, <1>5, <1>6, <1>8, <1>9, <1>10, <1>11

-----------------------------------------------------------------------------
(* The shapes of what a setter has left to do, and its next assignment.    *)
LEMMA ScriptCases ==
  ASSUME setter \in Scripts, setter # <<>>
  PROVE  \/ watcher # "first" /\ \E a \in Accounts :
              setter = <<Assign("ActionAccount", a), RegisterDestroy, RegisterCreate>>
         \/ watcher # "first" /\ \E n \in Names : setter = <<Assign("ActionNameDestroy", n), RegisterDestroy>>
         \/ watcher # "first" /\ \E n \in Names : setter = <<Assign("ActionNameCreate", n), RegisterCreate>>
         \/ watcher # "first" /\ setter = <<RegisterDestroy, RegisterCreate>>
         \/ watcher # "first" /\ setter = <<RegisterDestroy>>
         \/ watcher # "first" /\ setter = <<RegisterCreate>>
         \/ watcher = "first" /\ \E a \in Accounts : setter = <<Assign("ActionAccount", a)>>
         \/ watcher = "first" /\ \E n \in Names : setter = <<Assign("ActionNameDestroy", n)>>
         \/ watcher = "first" /\ \E n \in Names : setter = <<Assign("ActionNameCreate", n)>>
BY Zenon DEF Scripts, ContractScripts, ContractCalls, FirstScripts, FirstCalls

(* An assignment to a field: what is watched then was configured.          *)
LEMMA AssignStep ==
  ASSUME WatchTypes, SetterInv, SetterStep, NEW field \in {"ActionAccount", "ActionNameDestroy", "ActionNameCreate"},
         NEW value, Head(setter) = Assign(field, value), [watched EXCEPT ![field] = value] \in Fields,
         UNCHANGED watcher
  PROVE  /\ watched' = [watched EXCEPT ![field] = value] /\ watched' \in Fields
         /\ registered' = registered
         /\ configured' = configured \cup {DestroyPair(watched')}
         /\ configured' \subseteq Accounts \X Names /\ merged' \in BOOLEAN
         /\ merged => merged'
         /\ watched'.ActionNameDestroy = watched'.ActionNameCreate => merged'
         /\ \A p : MayReport(p) => MayReport(p)'
<1>1. Head(setter).kind = "assign" /\ Head(setter).field = field /\ Head(setter).value = value
  BY DEF Assign
<1> DEFINE fields == [watched EXCEPT ![field] = value]
<1>2. /\ watched' = fields
      /\ configured' = configured \cup {DestroyPair(fields)}
      /\ merged' = (merged \/ fields.ActionNameDestroy = fields.ActionNameCreate)
      /\ UNCHANGED registered
  BY <1>1, Zenon DEF SetterStep
<1>3. DestroyPair(fields) \in Accounts \X Names
  BY DEF DestroyPair, Fields
<1> HIDE DEF fields
<1>4. \A p : MayReport(p) => MayReport(p)'
  BY <1>2 DEF MayReport
<1> QED BY <1>2, <1>3, <1>4 DEF WatchTypes, fields

(* A registration of the type for the pair the fields name now.            *)
LEMMA RegisterStep ==
  ASSUME WatchTypes, SetterInv, SetterStep, NEW field \in {"ActionNameDestroy", "ActionNameCreate"},
         NEW type \in {"Issue", "Solvent"}, Head(setter) = Register(field, type), UNCHANGED watcher
  PROVE  /\ UNCHANGED <<watched, configured, merged>>
         /\ <<watched.ActionAccount, watched[field]>> \in Accounts \X Names
         /\ registered' = [registered EXCEPT ![<<watched.ActionAccount, watched[field]>>] = type]
         /\ registered' \in [Accounts \X Names -> {"none", "Issue", "Solvent"}]
         /\ \A p : MayReport(p)' <=> MayReport(p)
<1>1. Head(setter).kind = "register" /\ Head(setter).field = field /\ Head(setter).value = type
  BY DEF Register
<1>2. /\ registered' = [registered EXCEPT ![<<watched.ActionAccount, watched[field]>>] = type]
      /\ UNCHANGED <<watched, configured, merged>>
  BY <1>1, Zenon DEF SetterStep
<1>3. <<watched.ActionAccount, watched[field]>> \in Accounts \X Names
  BY DEF WatchTypes, Fields
<1>4. registered' \in [Accounts \X Names -> {"none", "Issue", "Solvent"}]
  BY <1>2, <1>3 DEF WatchTypes
<1>5. \A p : MayReport(p)' <=> MayReport(p)
  BY <1>2 DEF MayReport
<1> QED BY <1>2, <1>3, <1>4, <1>5

(* What an assignment leaves to show of the setter's invariant.            *)
LEMMA AssignedSetterInv ==
  ASSUME SetterInv, setter' \in Scripts, UNCHANGED <<watcher, registered>>,
         DestroyPair(watched)' \in configured', \A p : MayReport(p) => MayReport(p)',
         watched'.ActionNameDestroy = watched'.ActionNameCreate => merged',
         watcher # "first" /\ ~ merged' =>
           \/ registered[DestroyPair(watched)'] = "Solvent"
           \/ \E k \in DOMAIN setter' : setter'[k] = RegisterDestroy
  PROVE  SetterInv'
<1>1. Scripts' = Scripts
  BY DEF Scripts
<1>2. RegisterDestroy' = RegisterDestroy
  BY DEF RegisterDestroy, Register
<1> QED BY <1>1, <1>2 DEF SetterInv

LEMMA SetterKeeps ==
  ASSUME WatchTypes, SetterInv, SetterStep, UNCHANGED watcher
  PROVE  /\ SetterInv' /\ WatchTypes'
         /\ \A p : MayReport(p) => MayReport(p)'
<1>0. setter # <<>> /\ setter' = Tail(setter) /\ UNCHANGED <<look, ask, changes>>
  BY DEF SetterStep
<1>1. ASSUME NEW a \in Accounts, Head(setter) = Assign("ActionAccount", a),
             setter' \in Scripts, watcher # "first" => setter'[1] = RegisterDestroy /\ 1 \in DOMAIN setter'
      PROVE  SetterInv' /\ WatchTypes' /\ \A p : MayReport(p) => MayReport(p)'
  <2>1. [watched EXCEPT !["ActionAccount"] = a] \in Fields
    BY DEF WatchTypes, Fields
  <2>2. /\ watched' \in Fields /\ registered' = registered
        /\ configured' = configured \cup {DestroyPair(watched')}
        /\ configured' \subseteq Accounts \X Names /\ merged' \in BOOLEAN
        /\ watched'.ActionNameDestroy = watched'.ActionNameCreate => merged'
        /\ \A p : MayReport(p) => MayReport(p)'
    BY <1>1, <2>1, AssignStep
  <2>3. WatchTypes'
    BY <1>0, <2>2 DEF WatchTypes
  <2>4. DestroyPair(watched)' \in configured'
    BY <2>2 DEF DestroyPair
  <2> QED BY <1>1, <2>2, <2>3, <2>4, AssignedSetterInv
<1>2. ASSUME NEW n \in Names, Head(setter) = Assign("ActionNameDestroy", n),
             setter' \in Scripts, watcher # "first" => setter'[1] = RegisterDestroy /\ 1 \in DOMAIN setter'
      PROVE  SetterInv' /\ WatchTypes' /\ \A p : MayReport(p) => MayReport(p)'
  <2>1. [watched EXCEPT !["ActionNameDestroy"] = n] \in Fields
    BY DEF WatchTypes, Fields
  <2>2. /\ watched' \in Fields /\ registered' = registered
        /\ configured' = configured \cup {DestroyPair(watched')}
        /\ configured' \subseteq Accounts \X Names /\ merged' \in BOOLEAN
        /\ watched'.ActionNameDestroy = watched'.ActionNameCreate => merged'
        /\ \A p : MayReport(p) => MayReport(p)'
    BY <1>2, <2>1, AssignStep
  <2>3. WatchTypes'
    BY <1>0, <2>2 DEF WatchTypes
  <2>4. DestroyPair(watched)' \in configured'
    BY <2>2 DEF DestroyPair
  <2> QED BY <1>2, <2>2, <2>3, <2>4, AssignedSetterInv
<1>3. ASSUME NEW n \in Names, Head(setter) = Assign("ActionNameCreate", n),
             setter' \in Scripts,
             watcher # "first" => \A k \in DOMAIN setter : setter[k] # RegisterDestroy
      PROVE  SetterInv' /\ WatchTypes' /\ \A p : MayReport(p) => MayReport(p)'
  <2>1. [watched EXCEPT !["ActionNameCreate"] = n] \in Fields
    BY DEF WatchTypes, Fields
  <2>2. /\ watched' = [watched EXCEPT !["ActionNameCreate"] = n]
        /\ watched' \in Fields /\ registered' = registered
        /\ configured' = configured \cup {DestroyPair(watched')}
        /\ configured' \subseteq Accounts \X Names /\ merged' \in BOOLEAN /\ (merged => merged')
        /\ watched'.ActionNameDestroy = watched'.ActionNameCreate => merged'
        /\ \A p : MayReport(p) => MayReport(p)'
    BY <1>3, <2>1, AssignStep
  <2>3. WatchTypes'
    BY <1>0, <2>2 DEF WatchTypes
  <2>4. DestroyPair(watched)' \in configured' /\ DestroyPair(watched)' = DestroyPair(watched)
    BY <2>2 DEF DestroyPair, WatchTypes, Fields
  <2>5. watcher # "first" /\ ~ merged' => registered[DestroyPair(watched)'] = "Solvent"
    BY <1>3, <2>2, <2>4 DEF SetterInv
  <2> QED BY <1>3, <2>2, <2>3, <2>4, <2>5, AssignedSetterInv
<1>4. ASSUME Head(setter) = RegisterDestroy, setter' \in Scripts, watcher # "first"
      PROVE  SetterInv' /\ WatchTypes' /\ \A p : MayReport(p) => MayReport(p)'
  <2>1. /\ UNCHANGED <<watched, configured, merged>>
        /\ DestroyPair(watched) \in Accounts \X Names
        /\ registered' = [registered EXCEPT ![DestroyPair(watched)] = "Solvent"]
        /\ registered' \in [Accounts \X Names -> {"none", "Issue", "Solvent"}]
        /\ \A p : MayReport(p)' <=> MayReport(p)
    BY <1>4, RegisterStep DEF RegisterDestroy, DestroyPair
  <2>2. WatchTypes'
    BY <1>0, <2>1 DEF WatchTypes
  <2>3. DestroyPair(watched)' = DestroyPair(watched) /\ Scripts' = Scripts
    BY <2>1 DEF DestroyPair, Scripts
  <2>4. registered'[DestroyPair(watched)] = "Solvent"
    BY <2>1 DEF WatchTypes
  <2>5. MayReport(DestroyPair(watched))
    BY <1>4 DEF SetterInv, MayReport
  <2>6. \A p \in Accounts \X Names : registered'[p] = "Solvent" => MayReport(p)'
    <3> TAKE p \in Accounts \X Names
    <3> HAVE registered'[p] = "Solvent"
    <3>1. CASE p = DestroyPair(watched)
      BY <2>1, <2>5, <3>1
    <3>2. CASE p # DestroyPair(watched)
      <4>1. registered[p] = "Solvent"
        BY <2>1, <3>2 DEF WatchTypes
      <4> QED BY <2>1, <4>1 DEF SetterInv
    <3> QED BY <3>1, <3>2
  <2>7. SetterInv'
    BY <1>4, <2>1, <2>3, <2>4, <2>6 DEF SetterInv
  <2> QED BY <2>1, <2>2, <2>7
<1>5. ASSUME Head(setter) = RegisterCreate, setter' \in Scripts, watcher # "first",
             \A k \in DOMAIN setter : setter[k] # RegisterDestroy
      PROVE  SetterInv' /\ WatchTypes' /\ \A p : MayReport(p) => MayReport(p)'
  <2> DEFINE q == <<watched.ActionAccount, watched.ActionNameCreate>>
  <2>1. /\ UNCHANGED <<watched, configured, merged>>
        /\ q \in Accounts \X Names
        /\ registered' = [registered EXCEPT ![q] = "Issue"]
        /\ registered' \in [Accounts \X Names -> {"none", "Issue", "Solvent"}]
        /\ \A p : MayReport(p)' <=> MayReport(p)
    BY <1>5, RegisterStep DEF RegisterCreate
  <2>2. WatchTypes'
    BY <1>0, <2>1 DEF WatchTypes
  <2>3. DestroyPair(watched)' = DestroyPair(watched) /\ Scripts' = Scripts
    BY <2>1 DEF DestroyPair, Scripts
  <2>4. ~ merged => q # DestroyPair(watched)
    BY DEF SetterInv, DestroyPair
  <2>5. DestroyPair(watched) \in Accounts \X Names
    BY DEF WatchTypes, Fields, DestroyPair
  <2> HIDE DEF q
  <2>6. \A p \in Accounts \X Names : registered'[p] = "Solvent" => registered[p] = "Solvent"
    BY <2>1 DEF WatchTypes
  <2>7. ~ merged => registered'[DestroyPair(watched)] = "Solvent"
    <3> HAVE ~ merged
    <3>1. registered[DestroyPair(watched)] = "Solvent"
      BY <1>5 DEF SetterInv
    <3> QED BY <2>1, <2>4, <2>5, <3>1 DEF WatchTypes
  <2>8. SetterInv'
    BY <1>5, <2>1, <2>3, <2>6, <2>7 DEF SetterInv
  <2> QED BY <2>1, <2>2, <2>8
<1>6. setter \in Scripts
  BY DEF SetterInv
<1>7. RegisterDestroy # RegisterCreate /\ \A f, v : Assign(f, v) # RegisterDestroy
  BY DEF RegisterDestroy, RegisterCreate, Register, Assign
<1>8. /\ <<RegisterDestroy, RegisterCreate>> \in ContractScripts /\ <<RegisterDestroy>> \in ContractScripts
      /\ <<RegisterCreate>> \in ContractScripts /\ <<>> \in ContractScripts /\ <<>> \in FirstScripts
  BY DEF ContractScripts, FirstScripts
<1>9. /\ watcher # "first" => Scripts = ContractScripts
      /\ watcher = "first" => Scripts = FirstScripts
  BY DEF Scripts
<1> HIDE DEF Scripts, ContractScripts, FirstScripts, RegisterDestroy, RegisterCreate, Assign
<1>10. CASE watcher # "first" /\ \E a \in Accounts :
              setter = <<Assign("ActionAccount", a), RegisterDestroy, RegisterCreate>>
  BY <1>0, <1>1, <1>8, <1>9, <1>10
<1>11. CASE watcher # "first" /\ \E n \in Names : setter = <<Assign("ActionNameDestroy", n), RegisterDestroy>>
  BY <1>0, <1>2, <1>8, <1>9, <1>11
<1>12. CASE watcher # "first" /\ \E n \in Names : setter = <<Assign("ActionNameCreate", n), RegisterCreate>>
  BY <1>0, <1>3, <1>7, <1>8, <1>9, <1>12
<1>13. CASE watcher # "first" /\ setter = <<RegisterDestroy, RegisterCreate>>
  BY <1>0, <1>4, <1>8, <1>9, <1>13
<1>18. CASE watcher # "first" /\ setter = <<RegisterDestroy>>
  BY <1>0, <1>4, <1>8, <1>9, <1>18
<1>14. CASE watcher # "first" /\ setter = <<RegisterCreate>>
  BY <1>0, <1>5, <1>7, <1>8, <1>9, <1>14
<1>15. CASE watcher = "first" /\ \E a \in Accounts : setter = <<Assign("ActionAccount", a)>>
  BY <1>0, <1>1, <1>8, <1>9, <1>15
<1>16. CASE watcher = "first" /\ \E n \in Names : setter = <<Assign("ActionNameDestroy", n)>>
  BY <1>0, <1>2, <1>8, <1>9, <1>16
<1>17. CASE watcher = "first" /\ \E n \in Names : setter = <<Assign("ActionNameCreate", n)>>
  BY <1>0, <1>3, <1>8, <1>9, <1>17
<1> QED
  BY <1>0, <1>6, <1>10, <1>11, <1>12, <1>13, <1>14, <1>15, <1>16, <1>17, <1>18, ScriptCases, Zenon

(* A setter's assignment: nothing under way is undisturbed.                *)
LEMMA SetterStepKeeps ==
  ASSUME WatchersInv, UNCHANGED watcher, SetterStep
  PROVE  WatchersInv'
<1> USE DEF WatchersInv, WatchInv
<1>1. UNCHANGED <<vars, look, ask, changes>> /\ workers' = workers /\ sent' = sent /\ setter # <<>>
  BY DEF SetterStep, vars, channel
<1>2. ScanInv' /\ SlotInv'
  BY <1>1, ScanUnchanged
<1>3. SetterInv' /\ WatchTypes' /\ \A p : MayReport(p) => MayReport(p)'
  BY SetterKeeps
<1>4. \A w \in DOMAIN workers : \A stage : At(w, stage)' <=> At(w, stage)
  <2> SUFFICES ASSUME NEW w \in DOMAIN workers, NEW stage PROVE At(w, stage)' <=> At(w, stage)
    OBVIOUS
  <2>1. Pending(w)' = Pending(w)
    BY <1>1, SameWorker
  <2> QED BY <1>1, <2>1 DEF At
<1>5. LookOwned'
  BY <1>1, <1>4 DEF LookOwned
<1>6. LookInv'
  <2>1. ASSUME NEW w \in DOMAIN workers, Compares(w)' PROVE LookFound(w)'
    <3>1. Compares(w) /\ LookFound(w)
      BY <1>4, <2>1, Zenon DEF Compares, LookInv
    <3>2. LookOf(w)' = LookOf(w) /\ PairAt(w)' = PairAt(w)
      BY <1>1, SameWorker DEF LookOf
    <3>3. ~ LookOf(w).calm
      BY <1>1, <3>1 DEF LookFound
    <3> QED BY <1>3, <3>1, <3>2, <3>3 DEF LookFound
  <2> QED BY <1>1, <2>1 DEF LookInv
<1>7. SentInv'
  BY <1>1, <1>3 DEF SentInv, PairOf
<1>8. AskInv'
  BY <1>1 DEF AskInv
<1> QED BY <1>2, <1>3, <1>5, <1>6, <1>7, <1>8

-----------------------------------------------------------------------------
(* A comparison that goes on to the next: only the worker's entry of look  *)
(* changes, to what it found.                                              *)
LEMMA GotoStep ==
  ASSUME WatchersInv, UNCHANGED <<vars, watcher>>, KeepWatched,
         NEW w \in DOMAIN workers, workers[w].pc = "report", Pending(w) # {},
         NEW entry \in [stage : Stages, type : {"none", "Issue", "Solvent"}, calm : BOOLEAN],
         entry.stage # "unpack", look' = [look EXCEPT ![workers[w].height] = entry],
         entry.type = "Solvent" => MayReport(PairAt(w)),
         entry.calm => /\ setter = <<>>
                       /\ entry.type = registered[PairAt(w)]
                       /\ entry.stage # "account" => ActionAt(w).account = watched.ActionAccount
                       /\ entry.stage = "cast" => ActionAt(w).name = watched.ActionNameDestroy
  PROVE  WatchersInv'
<1> USE DEF WatchersInv, WatchInv
<1>1. /\ UNCHANGED <<watched, registered, setter, ask, configured, merged, changes>>
      /\ workers' = workers /\ sent' = sent
  BY DEF KeepWatched, vars, channel
<1>2. ScanInv' /\ SlotInv'
  BY ScanUnchanged
<1>3. \A v \in DOMAIN workers : workers[v].height \in Heights
  <2>1. \A v \in DOMAIN workers : workers[v] \in Workers
    BY DEF ScanInv, Types
  <2> QED BY <2>1 DEF Workers
<1>4. /\ look \in [Heights -> [stage : Stages, type : {"none", "Issue", "Solvent"}, calm : BOOLEAN]]
      /\ look' \in [Heights -> [stage : Stages, type : {"none", "Issue", "Solvent"}, calm : BOOLEAN]]
      /\ look'[workers[w].height] = entry
      /\ \A h \in Heights : h # workers[w].height => look'[h] = look[h]
  BY <1>3 DEF WatchTypes
<1>5. WatchTypes' /\ SetterInv' /\ SentInv' /\ AskInv'
  BY <1>1, <1>4 DEF WatchTypes, SetterInv, MayReport, Scripts, SentInv, PairOf, AskInv, AskedAction
<1>6. \A v \in DOMAIN workers : v # w => look'[workers[v].height] = look[workers[v].height]
  BY <1>3, <1>4, OneWorker
<1>7. Pending(w)' = Pending(w) /\ ActionAt(w)' = ActionAt(w) /\ PairAt(w)' = PairAt(w)
  BY <1>1, SameWorker
<1>8. LookInv'
  <2>1. ASSUME NEW v \in DOMAIN workers, Compares(v)' PROVE LookFound(v)'
    <3>1. CASE v = w
      <4>1. LookOf(w)' = entry
        BY <1>1, <1>4 DEF LookOf
      <4> QED BY <1>1, <1>7, <3>1, <4>1 DEF LookFound, MayReport
    <3>2. CASE v # w
      <4>1. Compares(v) /\ (LookFound(v) => LookFound(v)')
        BY <1>1, <1>6, <2>1, <3>2, SameLook
      <4> QED BY <4>1 DEF LookInv
    <3> QED BY <3>1, <3>2
  <2> QED BY <1>1, <2>1 DEF LookInv
<1>9. LookOwned'
  <2>1. ASSUME NEW h \in Heights, look'[h].stage # "unpack"
        PROVE  \E v \in DOMAIN workers : workers[v].height = h /\ At(v, look[h].stage)'
    <3>1. CASE h = workers[w].height
      <4>1. At(w, look[h].stage)'
        BY <1>1, <1>7, <3>1 DEF At
      <4> QED BY <3>1, <4>1
    <3>2. CASE h # workers[w].height
      <4>1. look'[h] = look[h]
        BY <1>4, <3>2
      <4>2. PICK v \in DOMAIN workers : workers[v].height = h /\ At(v, look[h].stage)
        BY <2>1, <4>1 DEF LookOwned
      <4>3. At(v, look[h].stage)'
        BY <1>1, <1>6, <3>2, <4>1, <4>2, SameLook
      <4> QED BY <4>2, <4>3
    <3> QED BY <3>1, <3>2
  <2> QED BY <1>1, <2>1 DEF LookOwned
<1> QED BY <1>2, <1>5, <1>8, <1>9

(* A receipt is done with: the scan's invariants.                          *)
LEMMA ReceiptScanInv ==
  ASSUME ScanInv, SlotInv, NEW w \in DOMAIN workers, workers[w].pc = "report", NEW i \in Nat,
         workers' = [workers EXCEPT ![w].next = i + 1],
         UNCHANGED <<lib, db, scanner, slots, taken, delivered, history>>,
         sent' \in Seq(Events), Len(sent') >= Len(sent)
  PROVE  ScanInv' /\ SlotInv'
<1>0. Types /\ ScannerBounds /\ ChannelsPrecede /\ ScanIsContiguous /\ OnlyIrreversible
  BY DEF ScanInv
<1>1. workers[w] \in Workers
  BY <1>0 DEF Types
<1>2. WorkerSteps(w, "report", i + 1)
  BY <1>1 DEF WorkerSteps, Workers
<1>3. /\ workers' \in Seq(Workers)
      /\ Len(workers') = Len(workers)
      /\ DOMAIN workers' = DOMAIN workers
      /\ \A v \in DOMAIN workers : /\ workers'[v].height = workers[v].height
                                   /\ workers'[v].chan = workers[v].chan
                                   /\ v # w => workers'[v] = workers[v]
      /\ workers'[w].pc = "report"
  <2>1. workers \in Seq(Workers) /\ "report" \in WorkerPcs /\ i + 1 \in Nat
    BY <1>0 DEF Types, WorkerPcs
  <2> QED BY <1>2, <2>1, WorkerStepFacts
<1>4. Types'
  BY <1>0, <1>3 DEF Types, scanner, history
<1>5. ScannerBounds'
  BY <1>0 DEF ScannerBounds, scanner, history
<1>6. ChannelsPrecede' /\ ScanIsContiguous' /\ OnlyIrreversible'
  BY <1>0, <1>3 DEF ChannelsPrecede, ScanIsContiguous, Spawned, OnlyIrreversible, scanner, history
<1>7. \A c \in ChannelNames : Holders(c)' = Holders(c)
  BY <1>3 DEF Holders
<1> QED BY <1>4, <1>5, <1>6, <1>7, SlotInvFrame DEF ScanInv

Reports(w, n) == sent' = Append(sent, EventOf(workers[w].height, NextIndex(w), n))

(* A receipt is passed over or reported: its worker is between receipts.   *)
LEMMA ReceiptStep ==
  ASSUME WatchersInv, UNCHANGED watcher, KeepWatched, NEW w \in DOMAIN workers,
         workers[w].pc = "report", Pending(w) # {},
         workers' = [workers EXCEPT ![w].next = NextIndex(w) + 1], Forget(w),
         UNCHANGED <<lib, db, scanner, slots, taken, delivered, history>>,
         \/ sent' = sent
         \/ MayReport(PairAt(w)) /\ ActionAt(w).ours /\ \E n \in Nat : Reports(w, n)
  PROVE  WatchersInv'
<1> USE DEF WatchersInv, WatchInv
<1>1. Types
  BY DEF ScanInv
<1>2. /\ workers[w] \in Workers /\ NextIndex(w) \in Nat
      /\ <<workers[w].height, NextIndex(w)>> \in TxIDs /\ workers[w].height \in Heights
  BY <1>1, NextFacts
<1>3. UNCHANGED <<watched, registered, setter, ask, configured, merged, changes>>
  BY DEF KeepWatched
<1>4. /\ sent' \in Seq(Events) /\ Len(sent') >= Len(sent) /\ SentInv'
  <2>1. sent \in Seq(Events)
    BY <1>1 DEF Types
  <2>2. CASE sent' = sent
    BY <1>3, <2>1, <2>2 DEF SentInv, MayReport, PairOf
  <2>3. ASSUME NEW n \in Nat, Reports(w, n), MayReport(PairAt(w)), ActionAt(w).ours
        PROVE  sent' \in Seq(Events) /\ Len(sent') >= Len(sent) /\ SentInv'
    <3> DEFINE e == EventOf(workers[w].height, NextIndex(w), n)
    <3>1. e \in Events /\ e.TxID = <<workers[w].height, NextIndex(w)>>
      BY <1>2 DEF EventOf, Events
    <3> HIDE DEF e, Events
    <3>2. sent' = Append(sent, e)
      BY <2>3 DEF Reports, e
    <3>3. /\ sent' \in Seq(Events) /\ Len(sent') = Len(sent) + 1 /\ Len(sent) \in Nat
          /\ DOMAIN sent' = 1..Len(sent) + 1
          /\ \A k \in 1..Len(sent) : sent'[k] = sent[k]
          /\ sent'[Len(sent) + 1] = e
      BY <2>1, <3>1, <3>2
    <3>4. \A k \in DOMAIN sent' : MayReport(PairOf(sent'[k].TxID)) /\ Action[sent'[k].TxID].ours
      <4> TAKE k \in DOMAIN sent'
      <4>1. CASE k = Len(sent) + 1
        BY <2>3, <3>1, <3>3, <4>1 DEF PairAt, ActionAt
      <4>2. CASE k # Len(sent) + 1
        <5>1. k \in DOMAIN sent /\ sent'[k] = sent[k]
          BY <2>1, <3>3, <4>2
        <5> QED BY <5>1 DEF SentInv
      <4> QED BY <4>1, <4>2
    <3>5. SentInv'
      BY <1>3, <3>4 DEF SentInv, MayReport, PairOf
    <3> QED BY <3>3, <3>5
  <2> QED BY <2>2, <2>3
<1>5. ScanInv' /\ SlotInv'
  BY <1>2, <1>4, ReceiptScanInv
<1>6. /\ DOMAIN workers' = DOMAIN workers
      /\ \A v \in DOMAIN workers : /\ workers'[v].height = workers[v].height
                                   /\ v # w => workers'[v] = workers[v]
  <2>1. WorkerSteps(w, "report", NextIndex(w) + 1)
    BY <1>2 DEF WorkerSteps, Workers
  <2> QED BY <1>1, <1>2, <2>1, WorkerStepFacts DEF Types, WorkerPcs
<1>7. /\ look' \in [Heights -> [stage : Stages, type : {"none", "Issue", "Solvent"}, calm : BOOLEAN]]
      /\ look'[workers[w].height].stage = "unpack"
      /\ \A h \in Heights : h # workers[w].height => look'[h] = look[h]
  BY <1>2 DEF Forget, WatchTypes, Idle, Stages
<1>8. WatchTypes' /\ SetterInv' /\ AskInv'
  BY <1>3, <1>7 DEF WatchTypes, SetterInv, MayReport, Scripts, AskInv, AskedAction, PairOf
<1>9. \A v \in DOMAIN workers : v # w => look'[workers[v].height] = look[workers[v].height]
  <2>1. \A v \in DOMAIN workers : workers[v] \in Workers
    BY <1>1 DEF Types
  <2> QED BY <1>7, <2>1, OneWorker DEF Workers
<1>10. LookInv'
  <2>1. ASSUME NEW v \in DOMAIN workers, Compares(v)' PROVE LookFound(v)'
    <3>1. CASE v = w
      BY <1>6, <1>7, <2>1, <3>1 DEF Compares, At
    <3>2. CASE v # w
      <4>1. Compares(v) /\ (LookFound(v) => LookFound(v)')
        BY <1>3, <1>6, <1>9, <2>1, <3>2, SameLook
      <4> QED BY <4>1 DEF LookInv
    <3> QED BY <3>1, <3>2
  <2> QED BY <1>6, <2>1 DEF LookInv
<1>11. LookOwned'
  <2>1. ASSUME NEW h \in Heights, look'[h].stage # "unpack"
        PROVE  \E v \in DOMAIN workers' : workers'[v].height = h /\ At(v, look[h].stage)'
    <3>1. h # workers[w].height /\ look'[h] = look[h]
      BY <1>7, <2>1
    <3>2. PICK v \in DOMAIN workers : workers[v].height = h /\ At(v, look[h].stage)
      BY <2>1, <3>1 DEF LookOwned
    <3>3. At(v, look[h].stage)'
      BY <1>3, <1>6, <1>9, <3>1, <3>2, SameLook
    <3> QED BY <1>6, <3>2, <3>3
  <2> QED BY <2>1 DEF LookOwned
<1> QED BY <1>4, <1>5, <1>8, <1>10, <1>11

(* One comparison, or the decision.                                        *)
LEMMA DecideStep ==
  ASSUME WatchersInv, UNCHANGED watcher, NEW w \in DOMAIN workers, Decide(w)
  PROVE  WatchersInv'
<1> USE DEF WatchersInv, WatchInv
<1> DEFINE h == workers[w].height
<1>0. Types
  BY DEF ScanInv
<1>1. workers[w].pc = "report" /\ Pending(w) # {}
  BY DEF Decide, Unpack, CompareAccount, CompareName, CastFails, Report, At
<1>2. /\ h \in Heights /\ PairAt(w) \in Accounts \X Names
      /\ PairAt(w) = <<ActionAt(w).account, ActionAt(w).name>>
  BY <1>0, <1>1, NextFacts
<1>3. /\ look[h] \in [stage : Stages, type : {"none", "Issue", "Solvent"}, calm : BOOLEAN]
      /\ look \in [Heights -> [stage : Stages, type : {"none", "Issue", "Solvent"}, calm : BOOLEAN]]
  BY <1>2 DEF WatchTypes
<1>4. CASE Unpack(w)
  <2> DEFINE entry == [stage |-> "account", type |-> registered[PairAt(w)], calm |-> setter = <<>>]
  <2>1. look' = [look EXCEPT ![h] = entry] /\ KeepWatched /\ UNCHANGED vars
    BY <1>2, <1>4 DEF Unpack
  <2>2. registered[PairAt(w)] \in {"none", "Issue", "Solvent"}
    BY <1>2 DEF WatchTypes
  <2>3. entry.type = "Solvent" => MayReport(PairAt(w))
    BY <1>2 DEF SetterInv
  <2>4. entry \in [stage : Stages, type : {"none", "Issue", "Solvent"}, calm : BOOLEAN]
    BY <2>2 DEF Stages
  <2>5. entry.stage = "account" /\ entry.type = registered[PairAt(w)] /\ (entry.calm => setter = <<>>)
    OBVIOUS
  <2> HIDE DEF entry
  <2> QED BY <1>1, <2>1, <2>3, <2>4, <2>5, GotoStep
<1>5. ASSUME NEW stage \in {"account", "name", "cast"}, At(w, stage)
      PROVE  /\ LookFound(w) /\ look[h].stage = stage
  BY <1>5 DEF LookInv, Compares, At
<1>6. ASSUME PassOver(w) PROVE WatchersInv'
  BY <1>1, <1>6, ReceiptStep DEF PassOver, channel
<1>7. ASSUME NEW stage \in {"name", "cast"}, Goto(w, stage), KeepWatched, UNCHANGED vars, LookFound(w),
             look[h].calm => ActionAt(w).account = watched.ActionAccount,
             look[h].calm /\ stage = "cast" => ActionAt(w).name = watched.ActionNameDestroy
      PROVE  WatchersInv'
  <2> DEFINE entry == [look[h] EXCEPT !.stage = stage]
  <2>1. /\ entry \in [stage : Stages, type : {"none", "Issue", "Solvent"}, calm : BOOLEAN]
        /\ entry.stage = stage /\ entry.type = look[h].type /\ entry.calm = look[h].calm
    BY <1>3 DEF Stages
  <2>2. look' = [look EXCEPT ![h] = entry]
    BY <1>7 DEF Goto
  <2> HIDE DEF entry
  <2> QED BY <1>1, <1>7, <2>1, <2>2, GotoStep DEF LookFound, LookOf
<1>8. CASE CompareAccount(w)
  <2>1. LookFound(w)
    BY <1>5, <1>8 DEF CompareAccount
  <2>2. CASE ActionAt(w).account = watched.ActionAccount
    BY <1>7, <1>8, <2>1, <2>2 DEF CompareAccount
  <2>3. CASE ActionAt(w).account # watched.ActionAccount
    BY <1>6, <1>8, <2>3 DEF CompareAccount
  <2> QED BY <2>2, <2>3
<1>9. CASE CompareName(w)
  <2>1. LookFound(w) /\ look[h].stage = "name"
    BY <1>5, <1>9 DEF CompareName
  <2>2. CASE ActionAt(w).name = watched.ActionNameDestroy
    <3>1. look[h].calm => ActionAt(w).account = watched.ActionAccount
      BY <2>1 DEF LookFound, LookOf
    <3>2. Goto(w, "cast") /\ KeepWatched /\ UNCHANGED vars
      BY <1>9, <2>2 DEF CompareName
    <3> QED BY <1>7, <2>1, <2>2, <3>1, <3>2
  <2>3. CASE ActionAt(w).name # watched.ActionNameDestroy
    BY <1>6, <1>9, <2>3 DEF CompareName
  <2> QED BY <2>2, <2>3
<1>10. CASE CastFails(w)
  BY <1>6, <1>10 DEF CastFails
<1>11. ASSUME NEW n \in Nat, Report(w, n) PROVE WatchersInv'
  <2>1. LookFound(w) /\ look[h].type = "Solvent" /\ ActionAt(w).ours
    BY <1>5, <1>11 DEF Report, IsDestroy
  <2>2. MayReport(PairAt(w))
    BY <2>1 DEF LookFound, LookOf
  <2>3. PICK i \in Pending(w) : /\ \A j \in Pending(w) : i <= j
                                /\ sent' = Append(sent, EventOf(workers[w].height, i, n))
                                /\ workers' = [workers EXCEPT ![w].next = i + 1]
    BY <1>11 DEF Report, ReportEvent
  <2>4. i = NextIndex(w)
    <3>1. NextIndex(w) \in Pending(w) /\ NextIndex(w) \in Nat /\ \A j \in Pending(w) : NextIndex(w) <= j
      BY <1>0, <1>1, NextFacts
    <3>2. i \in Nat
      BY <1>2, ConstantsAssumption DEF Pending
    <3>3. i <= NextIndex(w) /\ NextIndex(w) <= i
      BY <2>3, <3>1
    <3> HIDE DEF NextIndex
    <3> QED BY <3>1, <3>2, <3>3
  <2>5. KeepWatched /\ Forget(w) /\ UNCHANGED <<lib, db, scanner, slots, taken, delivered, history>>
    BY <1>11 DEF Report, ReportEvent
  <2>6. Reports(w, n)
    BY <2>3, <2>4 DEF Reports
  <2>7. workers' = [workers EXCEPT ![w].next = NextIndex(w) + 1]
    BY <2>3, <2>4
  <2> QED BY <1>1, <2>1, <2>2, <2>5, <2>6, <2>7, ReceiptStep
<1> QED BY <1>4, <1>8, <1>9, <1>10, <1>11 DEF Decide

(* The look-up changes nothing but its own state.                          *)
LEMMA LookUpStep ==
  ASSUME WatchersInv, UNCHANGED watcher, LookUp
  PROVE  WatchersInv'
<1> USE DEF WatchersInv, WatchInv
<1>1. /\ UNCHANGED <<vars, watched, registered, setter, look, configured, merged, changes>>
      /\ workers' = workers /\ sent' = sent
  BY DEF LookUp, AskEvent, AskAccount, AskDestroy, AskCreate, AskTo, vars, channel
<1>2. ScanInv' /\ SlotInv'
  BY <1>1, ScanUnchanged
<1>3. SetterInv' /\ SentInv'
  BY <1>1 DEF SetterInv, MayReport, Scripts, SentInv, PairOf
<1>4. \A w \in DOMAIN workers : /\ \A stage : At(w, stage)' <=> At(w, stage)
                                /\ Compares(w)' <=> Compares(w)
                                /\ LookFound(w) => LookFound(w)'
  BY <1>1, SameLook
<1>5. LookInv' /\ LookOwned'
  BY <1>1, <1>4 DEF LookInv, LookOwned
<1>6. WatchTypes' /\ AskInv'
  <2>0. WatchTypes /\ AskInv
    OBVIOUS
  <2>1. CASE AskEvent
    <3>1. PICK tx \in DOMAIN Action : tx \in TxIDs /\ ask' = [stage |-> "account", tx |-> tx, calm |-> setter = <<>>]
      BY <2>1 DEF AskEvent
    <3>2. /\ ask' \in [stage : AskStages, tx : TxIDs \cup {<<0, 0>>}, calm : BOOLEAN]
          /\ ask'.stage = "account" /\ ask'.tx \in DOMAIN Action /\ (ask'.calm => setter = <<>>)
      BY <3>1 DEF AskStages
    <3>3. WatchTypes'
      BY <1>1, <2>0, <3>2 DEF WatchTypes, TxIDs
    <3> QED BY <1>1, <3>2, <3>3 DEF AskInv
  <2>2. ASSUME NEW stage \in AskStages, AskTo(stage), ask.stage # "none"
        PROVE  ask'.stage = stage /\ ask'.tx = ask.tx /\ ask'.calm = ask.calm /\ WatchTypes'
    <3>1. /\ ask' \in [stage : AskStages, tx : TxIDs \cup {<<0, 0>>}, calm : BOOLEAN]
          /\ ask'.stage = stage /\ ask'.tx = ask.tx /\ ask'.calm = ask.calm
      BY <2>0, <2>2 DEF AskTo, WatchTypes
    <3> QED BY <1>1, <2>0, <2>2, <3>1 DEF WatchTypes, TxIDs
  <2>3. ask.stage # "none" => AskedAction \in [account : Accounts, name : Names, ours : BOOLEAN]
    BY <2>0, ActionsAssumption DEF WatchTypes, AskedAction
  <2>4. PairOf(ask.tx) = <<AskedAction.account, AskedAction.name>>
    BY DEF PairOf, AskedAction
  <2>5. CASE AskAccount
    <3>1. /\ ask.stage = "account"
          /\ AskTo(IF AskedAction.account = watched.ActionAccount THEN "destroy" ELSE "error")
      BY <2>5 DEF AskAccount
    <3>2. CASE AskedAction.account = watched.ActionAccount
      <4>1. ask'.stage = "destroy" /\ ask'.tx = ask.tx /\ ask'.calm = ask.calm /\ WatchTypes'
        BY <2>2, <3>1, <3>2 DEF AskStages
      <4> QED BY <1>1, <2>0, <3>1, <3>2, <4>1 DEF AskInv, AskedAction
    <3>3. CASE AskedAction.account # watched.ActionAccount
      <4>1. ask'.stage = "error" /\ ask'.tx = ask.tx /\ ask'.calm = ask.calm /\ WatchTypes'
        BY <2>2, <3>1, <3>3 DEF AskStages
      <4> QED BY <1>1, <2>0, <2>4, <3>1, <3>3, <4>1 DEF AskInv, AskedAction, DestroyPair, PairOf
    <3> QED BY <3>2, <3>3
  <2>6. CASE AskDestroy
    <3>1. ask.stage = "destroy"
      BY <2>6 DEF AskDestroy
    <3>2. CASE AskedAction.name # watched.ActionNameDestroy
      <4>1. ask'.stage = "create" /\ ask'.tx = ask.tx /\ ask'.calm = ask.calm /\ WatchTypes'
        BY <2>2, <2>6, <3>1, <3>2 DEF AskStages, AskDestroy
      <4> QED BY <1>1, <2>0, <3>1, <3>2, <4>1 DEF AskInv, AskedAction
    <3>3. CASE AskedAction.name = watched.ActionNameDestroy /\ AskedAction.ours
      <4>1. ask'.stage = "destroyed" /\ ask'.tx = ask.tx /\ ask'.calm = ask.calm /\ WatchTypes'
        BY <2>2, <2>6, <3>1, <3>3 DEF AskStages, AskDestroy
      <4> QED BY <1>1, <2>0, <2>4, <3>1, <3>3, <4>1 DEF AskInv, AskedAction, DestroyPair, PairOf
    <3>4. CASE AskedAction.name = watched.ActionNameDestroy /\ ~ AskedAction.ours
      <4>1. ask'.stage = "error" /\ ask'.tx = ask.tx /\ ask'.calm = ask.calm /\ WatchTypes'
        BY <2>2, <2>6, <3>1, <3>4 DEF AskStages, AskDestroy
      <4> QED BY <1>1, <2>0, <3>1, <3>4, <4>1 DEF AskInv, AskedAction
    <3> QED BY <3>2, <3>3, <3>4
  <2>7. CASE AskCreate
    <3>1. ask.stage = "create"
      BY <2>7 DEF AskCreate
    <3>2. (ask'.stage = "created" \/ ask'.stage = "error") /\ ask'.tx = ask.tx /\ ask'.calm = ask.calm /\ WatchTypes'
      BY <2>2, <2>7, <3>1 DEF AskStages, AskCreate
    <3> QED BY <1>1, <2>0, <2>4, <3>1, <3>2 DEF AskInv, AskedAction, DestroyPair, PairOf
  <2> QED BY <2>1, <2>5, <2>6, <2>7 DEF LookUp
<1> QED BY <1>2, <1>3, <1>5, <1>6

-----------------------------------------------------------------------------
(* A process that has just started, or that died.                          *)
Fresh ==
  /\ workers = <<>> /\ sent = <<>>
  /\ watched = First /\ registered = Constructed /\ setter = <<>>
  /\ look = [h \in Heights |-> Idle] /\ ask = NotAsked
  /\ configured = {DestroyPair(First)}
  /\ merged = (First.ActionNameDestroy = First.ActionNameCreate)
  /\ changes \in 0..MaxChanges

LEMMA FreshIsSound == Fresh => WatchInv
<1> SUFFICES ASSUME Fresh PROVE WatchInv
  OBVIOUS
<1>1. First \in Fields
  BY ActionsAssumption
<1>2. DestroyPair(First) \in Accounts \X Names
  BY <1>1 DEF Fields, DestroyPair
<1>3. /\ registered \in [Accounts \X Names -> {"none", "Issue", "Solvent"}]
      /\ \A p \in Accounts \X Names : registered[p] = "Solvent" => p = DestroyPair(First)
      /\ First.ActionNameDestroy # First.ActionNameCreate => registered[DestroyPair(First)] = "Solvent"
  <2> DEFINE q == <<First.ActionAccount, First.ActionNameCreate>>
  <2> DEFINE type(p) == CASE p = q -> "Issue" [] p = DestroyPair(First) -> "Solvent" [] OTHER -> "none"
  <2>0. registered = [p \in Accounts \X Names |-> type(p)]
    BY Zenon DEF Fresh, Constructed
  <2>9. First.ActionNameDestroy # First.ActionNameCreate => DestroyPair(First) # q
    BY DEF DestroyPair
  <2> HIDE DEF q
  <2>1. \A p : /\ type(p) \in {"none", "Issue", "Solvent"}
               /\ type(p) = "Solvent" => p = DestroyPair(First)
               /\ p # q /\ p = DestroyPair(First) => type(p) = "Solvent"
    OBVIOUS
  <2> HIDE DEF type
  <2> QED BY <1>2, <2>0, <2>9, <2>1
<1>4. WatchTypes
  BY <1>1, <1>2, <1>3 DEF Fresh, WatchTypes, Idle, Stages, NotAsked, AskStages
<1>5. SetterInv
  BY <1>2, <1>3 DEF Fresh, SetterInv, Scripts, ContractScripts, FirstScripts, MayReport
<1>6. LookOwned /\ LookInv /\ SentInv /\ AskInv
  BY DEF Fresh, LookOwned, LookInv, SentInv, AskInv, Idle, NotAsked
<1> QED BY <1>4, <1>5, <1>6 DEF WatchInv

LEMMA RestartStep ==
  ASSUME WatchersInv, UNCHANGED watcher, Restart
  PROVE  WatchersInv'
<1>1. Next
  BY DEF Restart, Next
<1>2. ScanInv' /\ SlotInv'
  BY <1>1, ScanInvStep, SlotInvStep DEF WatchersInv
<1>3. Fresh'
  BY DEF Restart, Crash, Fresh, WatchersInv, WatchInv, WatchTypes
<1>4. WatchInv'
  BY <1>3, FreshIsSound, PTL
<1> QED BY <1>2, <1>4 DEF WatchersInv

-----------------------------------------------------------------------------
(* The invariant of the watchers with setters.                             *)
Watches == watcher # "firstScan" => WatchersInv

LEMMA WatchesInit == MCInit => Watches
<1> SUFFICES ASSUME MCInit PROVE WatchersInv
  BY DEF Watches
<1>1. ScanInv /\ SlotInv
  BY ScanInvInit, SlotInvInit DEF MCInit, WatchInit
<1>2. Fresh
  BY ActionsAssumption DEF MCInit, WatchInit, Init, Fresh
<1> QED BY <1>1, <1>2, FreshIsSound DEF WatchersInv

LEMMA WatchersSteps ==
  ASSUME WatchersInv, watcher # "firstScan", MCNext
  PROVE  WatchNext /\ UNCHANGED watcher
<1>1. Types /\ changes \in Nat
  BY ActionsAssumption DEF WatchersInv, ScanInv, WatchInv, WatchTypes
<1> QED BY <1>1, ContractSteps, AskedContractSteps, FirstSteps DEF MCNext

LEMMA WatchesStep == Watches /\ [MCNext]_<<allVars, watcher>> => Watches'
<1> SUFFICES ASSUME Watches, [MCNext]_<<allVars, watcher>> PROVE Watches'
  OBVIOUS
<1>1. CASE UNCHANGED <<allVars, watcher>>
  <2> SUFFICES ASSUME WatchersInv PROVE WatchersInv'
    BY <1>1 DEF Watches
  <2>1. UNCHANGED <<vars, watching, watcher>> /\ workers' = workers /\ sent' = sent
    BY <1>1 DEF allVars, vars, channel
  <2>2. ScanInv' /\ SlotInv'
    BY <2>1, ScanUnchanged
  <2>3. WatchInv'
    BY <2>1, ScanKeepsLook DEF WatchersInv
  <2> QED BY <2>2, <2>3 DEF WatchersInv
<1>2. CASE MCNext
  <2>1. watcher' = watcher
    BY <1>2 DEF MCNext
  <2> SUFFICES ASSUME watcher # "firstScan" PROVE WatchersInv'
    BY <2>1 DEF Watches
  <2>2. WatchersInv
    BY DEF Watches
  <2>3. WatchNext
    BY <1>2, <2>2, WatchersSteps
  <2>4. CASE Outside \/ ScanLoop
    BY <2>1, <2>2, <2>4, ScanStep
  <2>5. CASE SetterStep
    BY <2>1, <2>2, <2>5, SetterStepKeeps
  <2>6. CASE \E s \in Calls : Call(s)
    BY <2>1, <2>2, <2>6, CallStep
  <2>7. ASSUME NEW w \in DOMAIN workers, Decide(w) \/ RequestBlock(w) \/ FinishBlock(w) PROVE WatchersInv'
    BY <2>1, <2>2, <2>7, DecideStep, BlockStep
  <2>8. CASE LookUp
    BY <2>1, <2>2, <2>8, LookUpStep
  <2>9. CASE Restart
    BY <2>1, <2>2, <2>9, RestartStep
  <2> QED BY <2>3, <2>4, <2>5, <2>6, <2>7, <2>8, <2>9 DEF WatchNext
<1> QED BY <1>1, <1>2

(***************************************************************************)
(* Whatever setters run between a worker's comparisons, what it reports    *)
(* was the destroy action of a configuration of this process, of the first *)
(* watcher the constructor's (UpdateEOSPushEvent and the setters).         *)
(***************************************************************************)
THEOREM ReportedCorrect == MCSpec => []ReportedWasWatched
<1>1. Watches => ReportedWasWatched
  <2> SUFFICES ASSUME Watches, watcher # "firstScan"
               PROVE  /\ WatchTypeOK /\ ReportedWasConfigured
                      /\ watcher = "first" => FirstActions!OnlyFirstReported
    BY DEF ReportedWasWatched
  <2>1. ScanInv /\ SlotInv /\ WatchTypes /\ LookOwned /\ SetterInv /\ SentInv
    BY DEF Watches, WatchersInv, WatchInv
  <2>2. TypeOK
    BY <2>1 DEF ScanInv, SlotInv, Types, TypeOK
  <2>3. \A k \in DOMAIN setter : setter[k].field \in DOMAIN First
    <3>1. DOMAIN First = {"ActionAccount", "ActionNameDestroy", "ActionNameCreate"}
      BY ActionsAssumption DEF Fields
    <3>2. \A f, v : Assign(f, v).field = f /\ Register(f, v).field = f
      BY DEF Assign, Register
    <3>3. RegisterDestroy.field \in DOMAIN First /\ RegisterCreate.field \in DOMAIN First
      BY <3>1, <3>2 DEF RegisterDestroy, RegisterCreate
    <3>5. setter \in Scripts
      BY <2>1 DEF SetterInv
    <3> HIDE DEF RegisterDestroy, RegisterCreate, Assign, Register
    <3> QED BY <3>1, <3>2, <3>3, <3>5, ScriptCases
  <2>4. WatchTypeOK
    BY <2>1, <2>2, <2>3 DEF WatchTypeOK, WatchTypes, LookOwned, AskStages
  <2>5. ReportedWasConfigured
    BY <2>1 DEF SentInv, MayReport, ReportedWasConfigured
  <2>6. watcher = "first" => FirstActions!OnlyFirstReported
    BY <2>1 DEF SentInv, MayReport, FirstActions!OnlyFirstReported, FirstActions!PairOf, PairOf,
       FirstActions!DestroyPair, DestroyPair
  <2> QED BY <2>4, <2>5, <2>6
<1> QED BY <1>1, WatchesInit, WatchesStep, PTL DEF MCSpec

(***************************************************************************)
(* When no setter of the contract watcher is running, its destroy action's *)
(* data can be decoded (the setters' RegisterAction calls).                *)
(***************************************************************************)
THEOREM SettledCorrect == MCSpec => []ContractSettled
<1>1. Watches => ContractSettled
  BY DEF Watches, WatchersInv, WatchInv, SetterInv, ContractSettled, IsContract, SettledIsRegistered
<1> QED BY <1>1, WatchesInit, WatchesStep, PTL DEF MCSpec

(***************************************************************************)
(* A look-up undisturbed by setters answers for a reported transaction as  *)
(* the scan did, and confirms destructions of the token only.              *)
(***************************************************************************)
THEOREM LookupCorrect == MCSpec => []LookupConfirms
<1>1. Watches => LookupConfirms
  BY DEF Watches, WatchersInv, WatchInv, SetterInv, SentInv, AskInv, LookupConfirms, LookupConfirmsScan,
     AskedAction
<1> QED BY <1>1, WatchesInit, WatchesStep, PTL DEF MCSpec

-----------------------------------------------------------------------------
(* A step that takes a comparing worker past its receipt is its decision.  *)
LEMMA PassesOnly ==
  ASSUME WatchersInv, UNCHANGED watcher, WatchNext, NEW w \in DOMAIN workers, Compares(w),
         pc' # "down", workers'[w].next # workers[w].next
  PROVE  Decide(w)
<1>0. Types /\ workers[w] \in Workers
  BY DEF WatchersInv, ScanInv, Types
<1>1. workers[w].pc = "report" /\ Pending(w) # {}
  BY Zenon DEF Compares, At
<1>2. CASE Outside \/ SetterStep \/ LookUp \/ \E s \in Calls : Call(s)
  <2>1. workers' = workers
    BY <1>2 DEF Outside, AdvanceChain, Receive, SetterStep, LookUp, AskEvent, AskAccount, AskDestroy, AskCreate,
       AskTo, Call, vars
  <2> QED BY <2>1
<1>3. CASE ScanLoop
  <2>1. workers' = workers \/ workers' = Append(workers, NewWorker)
    BY <1>3 DEF ScanLoop, StartWatch, RequestInfo, UpdateInfo, CaughtUp, SlotFree,
     PutHeight, PutHeightWith, SpawnWorker, AdvanceScan, AdvanceScanWith
  <2>2. Append(workers, NewWorker)[w] = workers[w]
    BY <1>0 DEF Types
  <2> QED BY <2>1, <2>2
<1>4. CASE Restart
  BY <1>4 DEF Restart, Crash
<1>5. ASSUME NEW v \in DOMAIN workers, RequestBlock(v) \/ FinishBlock(v) PROVE FALSE
  <2>1. v # w
    BY <1>1, <1>5 DEF RequestBlock, FinishBlock, AcquireSlot, FetchBlock, ReleaseSlot
  <2>2. workers'[w] = workers[w]
    BY <1>0, <1>5, <2>1 DEF RequestBlock, FinishBlock, AcquireSlot, FetchBlock, ReleaseSlot, Types
  <2> QED BY <2>2
<1>6. ASSUME NEW v \in DOMAIN workers, Decide(v), v # w PROVE FALSE
  <2>1. workers'[w] = workers[w]
    BY <1>0, <1>6 DEF Decide, Unpack, CompareAccount, CompareName, CastFails, Report, ReportEvent, PassOver,
       vars, Types
  <2> QED BY <2>1
<1> QED BY <1>2, <1>3, <1>4, <1>5, <1>6 DEF WatchNext

(***************************************************************************)
(* As long as no setter ran since the receipt was unpacked and the names   *)
(* were never equal, the contract watcher reports exactly the destroy      *)
(* actions of the watched pair that are of its token.                      *)
(***************************************************************************)
THEOREM CalmCorrect == MCSpec => CalmDecision
<1>1. Watches /\ [MCNext]_<<allVars, watcher>> => [IsContract => DecidesCalmly]_<<allVars, watcher>>
  <2> SUFFICES ASSUME Watches, MCNext, IsContract, NEW w \in DOMAIN workers, Compares(w),
                      look[workers[w].height].calm, ~ merged, pc' # "down",
                      workers'[w].next # workers[w].next
               PROVE  sent' # sent <=> PairAt(w) = DestroyPair(watched) /\ ActionAt(w).ours
    BY Zenon DEF DecidesCalmly, Compares, PairAt
  <2>0. watcher \notin {"firstScan", "first"}
    BY DEF IsContract
  <2>1. WatchersInv
    BY <2>0 DEF Watches
  <2>2. Decide(w)
    BY <2>0, <2>1, WatchersSteps, PassesOnly
  <2>3. LookFound(w) /\ SetterInv /\ ScanInv
    BY <2>1 DEF WatchersInv, WatchInv, LookInv
  <2>4. setter = <<>> /\ registered[DestroyPair(watched)] = "Solvent"
    BY <2>0, <2>3 DEF LookFound, LookOf, SetterInv
  <2>5. PairAt(w) = <<ActionAt(w).account, ActionAt(w).name>>
    BY DEF PairAt, PairOf, ActionAt
  <2>6. CASE Unpack(w)
    BY <2>6 DEF Unpack, vars
  <2>7. CASE CompareAccount(w)
    BY <2>5, <2>7 DEF CompareAccount, PassOver, channel, vars, DestroyPair
  <2>8. CASE CompareName(w)
    BY <2>5, <2>8 DEF CompareName, PassOver, channel, vars, DestroyPair
  <2>9. CASE CastFails(w)
    <3>1. sent' = sent /\ ~ IsDestroy(w) /\ look[workers[w].height].stage = "cast"
      BY <2>9 DEF CastFails, PassOver, channel, At
    <3>2. PairAt(w) = DestroyPair(watched)
      BY <2>3, <2>5, <3>1 DEF LookFound, LookOf, DestroyPair
    <3>3. look[workers[w].height].type = "Solvent"
      BY <2>3, <2>4, <3>2 DEF LookFound, LookOf
    <3> QED BY <3>1, <3>3 DEF IsDestroy
  <2>10. ASSUME NEW n \in Nat, Report(w, n)
         PROVE  sent' # sent <=> PairAt(w) = DestroyPair(watched) /\ ActionAt(w).ours
    <3>1. IsDestroy(w) /\ look[workers[w].height].stage = "cast"
      BY <2>10 DEF Report, At
    <3>2. PairAt(w) = DestroyPair(watched)
      BY <2>3, <2>5, <3>1 DEF LookFound, LookOf, DestroyPair
    <3>3. PICK e : sent' = Append(sent, e)
      BY <2>10 DEF Report, ReportEvent
    <3>4. Len(sent') = Len(sent) + 1 /\ Len(sent) \in Nat
      <4>1. sent \in Seq(Events)
        BY <2>3 DEF ScanInv, Types
      <4> QED BY <3>3, <4>1
    <3> QED BY <3>1, <3>2, <3>4 DEF IsDestroy
  <2> QED BY <2>2, <2>6, <2>7, <2>8, <2>9, <2>10 DEF Decide
<1> QED BY <1>1, WatchesInit, WatchesStep, PTL DEF MCSpec, CalmDecision

=============================================================================
