------------------------ MODULE EOSWatcherMainProofs ------------------------
(***************************************************************************)
(* Proofs about the block scan of EOSWatcherMain, for every chain, channel *)
(* capacity, number of slots and number of crashes.                        *)
(***************************************************************************)
EXTENDS EOSWatcherMain, SequenceTheorems, FiniteSetTheorems, TLAPS

(* The types of everything but the slots, whose range rests on accounting.  *)
Types ==
  /\ lib \in 0..MaxHeight
  /\ db \in Nat
  /\ pc \in {"down", "info", "loop", "put", "spawn", "advance"}
  /\ ScanBlockHeight \in Nat
  /\ HeadBlockNum \in Nat
  /\ LastIrreversibleBlockNum \in 0..MaxHeight
  /\ scanBlockIndex \in Nat
  /\ tmpChannel \in ChannelNames
  /\ workers \in Seq(Workers)
  /\ sent \in Seq(Events)
  /\ taken \in 0..Len(sent)
  /\ first \in Nat
  /\ delivered \subseteq TxIDs
  /\ before \subseteq TxIDs
  /\ lost \subseteq TxIDs
  /\ crashes \in 0..MaxCrashes

(* What the scanner knows of the chain, and that a dead process is empty.  *)
ScannerBounds ==
  /\ LastIrreversibleBlockNum <= lib
  /\ pc \in {"put", "spawn", "advance"} => ScanBlockHeight < LastIrreversibleBlockNum
  /\ pc # "down" => first >= 1 /\ ScanBlockHeight >= first
  /\ pc = "down" => workers = <<>> /\ sent = <<>>

(* A worker's slot channel was made before the worker was started.         *)
ChannelsPrecede ==
  /\ tmpChannel <= Len(workers)
  /\ \A w \in DOMAIN workers : workers[w].chan < w

ScanInv ==
  Types /\ ScannerBounds /\ ChannelsPrecede /\ ScanIsContiguous /\ OnlyIrreversible

(* One step of worker w that leaves its block and its channel alone.       *)
WorkerSteps(w, p, n) ==
  workers' = [workers EXCEPT ![w] = [workers[w] EXCEPT !.pc = p, !.next = n]]

LEMMA WorkerStepFacts ==
  ASSUME workers \in Seq(Workers), NEW w \in DOMAIN workers,
         NEW p \in WorkerPcs, NEW n \in Nat, WorkerSteps(w, p, n)
  PROVE  /\ workers' \in Seq(Workers)
         /\ Len(workers') = Len(workers)
         /\ DOMAIN workers' = DOMAIN workers
         /\ \A v \in DOMAIN workers : /\ workers'[v].height = workers[v].height
                                      /\ workers'[v].chan = workers[v].chan
                                      /\ v # w => workers'[v] = workers[v]
         /\ workers'[w].pc = p /\ workers'[w].next = n
<1> DEFINE r == [workers[w] EXCEPT !.pc = p, !.next = n]
<1>1. DOMAIN workers = 1..Len(workers) /\ \A v \in DOMAIN workers : workers[v] \in Workers
  OBVIOUS
<1>2. r \in Workers /\ r.height = workers[w].height /\ r.chan = workers[w].chan
      /\ r.pc = p /\ r.next = n
  BY <1>1 DEF Workers
<1> HIDE DEF r
<1>3. workers' = [workers EXCEPT ![w] = r]
  BY DEF WorkerSteps, r
<1>4. /\ workers' \in Seq(Workers) /\ Len(workers') = Len(workers)
      /\ \A v \in 1..Len(workers) : workers'[v] = IF v = w THEN r ELSE workers[v]
  BY <1>1, <1>2, <1>3, ExceptSeq
<1> QED
  BY <1>1, <1>2, <1>4

(* Every action of a worker is such a step.                                *)
LEMMA WorkerIsStep ==
  ASSUME Types, NEW w \in DOMAIN workers, Worker(w)
  PROVE  \E p \in WorkerPcs, n \in Nat : WorkerSteps(w, p, n)
<1> USE DEF WorkerPcs
<1>1. workers[w] \in Workers
  BY DEF Types
<1>2. CASE AcquireSlot(w)
  <2>1. WorkerSteps(w, "fetch", workers[w].next)
    BY <1>1, <1>2 DEF AcquireSlot, WorkerSteps, Workers
  <2> QED BY <2>1, <1>1 DEF Workers
<1>3. CASE FetchBlock(w)
  <2>1. WorkerSteps(w, "report", scanBlockIndex)
    BY <1>1, <1>3 DEF FetchBlock, WorkerSteps, Workers
  <2> QED BY <2>1 DEF Types
<1>4. CASE UpdateEOSPushEvent(w)
  <2>1. PICK i \in Pending(w) : workers' = [workers EXCEPT ![w].next = i + 1]
    BY <1>4 DEF UpdateEOSPushEvent, ReportEvent
  <2>2. i \in Nat
    BY <1>1, ConstantsAssumption DEF Pending, Workers
  <2>3. WorkerSteps(w, workers[w].pc, i + 1)
    BY <1>1, <2>1 DEF WorkerSteps, Workers
  <2> QED BY <2>2, <2>3, <1>1 DEF Workers
<1>5. CASE ReleaseSlot(w)
  <2>1. WorkerSteps(w, "done", workers[w].next)
    BY <1>1, <1>5 DEF ReleaseSlot, WorkerSteps, Workers
  <2> QED BY <2>1, <1>1 DEF Workers
<1> QED
  BY <1>2, <1>3, <1>4, <1>5 DEF Worker

(* What a worker's step leaves unchanged, whichever it is.                 *)
LEMMA WorkerFrame ==
  ASSUME NEW w \in DOMAIN workers, Worker(w)
  PROVE  UNCHANGED <<lib, db, scanner, taken, delivered, history>>
BY DEF Worker, AcquireSlot, FetchBlock, UpdateEOSPushEvent, ReportEvent, ReleaseSlot, channel

(* What a worker sends is an event.                                        *)
LEMMA WorkerSends ==
  ASSUME Types, NEW w \in DOMAIN workers, Worker(w)
  PROVE  sent' \in Seq(Events) /\ Len(sent') >= Len(sent)
<1>1. CASE UpdateEOSPushEvent(w)
  <2>1. PICK i \in Pending(w) : sent' = Append(sent, EventOf(workers[w].height, i, workers[w].height))
    BY <1>1 DEF UpdateEOSPushEvent, ReportEvent
  <2>a. workers[w] \in Workers
    BY DEF Types
  <2>2. workers[w].height \in Heights
    BY <2>a DEF Workers
  <2>3. i \in PushIndexes[workers[w].height] /\ i \in Nat
    BY <2>2, ConstantsAssumption DEF Pending
  <2>4. <<workers[w].height, i>> \in TxIDs
    BY <2>2, <2>3 DEF TxIDs
  <2>5. EventOf(workers[w].height, i, workers[w].height) \in Events
    BY <2>2, <2>3, <2>4 DEF EventOf, Events, Heights
  <2> HIDE DEF Events
  <2> QED BY <2>1, <2>5 DEF Types
<1>2. CASE AcquireSlot(w) \/ FetchBlock(w) \/ ReleaseSlot(w)
  BY <1>2 DEF AcquireSlot, FetchBlock, ReleaseSlot, channel, Types
<1> QED
  BY <1>1, <1>2 DEF Worker

LEMMA ScanInvInit == Init => ScanInv
<1> SUFFICES ASSUME Init PROVE ScanInv
  OBVIOUS
<1> USE ConstantsAssumption DEF Init
<1>1. Types
  BY DEF Types, ChannelNames
<1>2. ScannerBounds /\ ChannelsPrecede /\ ScanIsContiguous /\ OnlyIrreversible
  BY DEF ScannerBounds, ChannelsPrecede, ScanIsContiguous, OnlyIrreversible
<1> QED BY <1>1, <1>2 DEF ScanInv

(* No more workers are started than there are heights below lib.           *)
LEMMA FewWorkers == ScanInv => Len(workers) < MaxHeight
<1> SUFFICES ASSUME ScanInv PROVE Len(workers) < MaxHeight
  OBVIOUS
<1> USE ConstantsAssumption DEF ScanInv, Types
<1>1. CASE workers = <<>>
  BY <1>1
<1>2. CASE workers # <<>>
  <2>1. Len(workers) \in DOMAIN workers /\ pc # "down"
    BY <1>2 DEF ScannerBounds
  <2>2. workers[Len(workers)].height = first + Len(workers) - 1 /\ first >= 1
    BY <2>1 DEF ScanIsContiguous, ScannerBounds
  <2>3. workers[Len(workers)].height < lib
    BY <2>1 DEF OnlyIrreversible
  <2> QED BY <2>1, <2>2, <2>3
<1> QED BY <1>1, <1>2

(* A step that leaves the workers and the scanner alone.                   *)
LEMMA ScanInvFrame ==
  ASSUME ScanInv, Types', lib' >= lib, UNCHANGED <<scanner, workers, first>>,
         sent = <<>> => sent' = <<>>
  PROVE  ScanInv'
<1>1. /\ ScannerBounds' /\ ChannelsPrecede' /\ ScanIsContiguous'
  BY DEF ScanInv, Types, ScannerBounds, ChannelsPrecede, ScanIsContiguous, Spawned, scanner
<1>2. OnlyIrreversible'
  <2>1. workers \in Seq(Workers) /\ lib \in Nat /\ lib' \in Nat
    BY ConstantsAssumption DEF ScanInv, Types
  <2>2. ASSUME NEW w \in DOMAIN workers PROVE workers[w].height < lib'
    <3>1. workers[w].height < lib
      BY DEF ScanInv, OnlyIrreversible
    <3>2. workers[w] \in Workers
      BY <2>1
    <3>3. workers[w].height \in Nat
      BY <3>2, ConstantsAssumption DEF Workers, Heights
    <3> QED BY <2>1, <3>1, <3>3
  <2> QED BY <2>2 DEF OnlyIrreversible, scanner
<1> QED BY <1>1, <1>2 DEF ScanInv

LEMMA ScanInvStep == ScanInv /\ [Next]_vars => ScanInv'
<1> SUFFICES ASSUME ScanInv, [Next]_vars PROVE ScanInv'
  OBVIOUS
<1> USE ConstantsAssumption
<1>0. Types /\ ScannerBounds /\ ChannelsPrecede /\ ScanIsContiguous /\ OnlyIrreversible
  BY DEF ScanInv
<1>a. Len(workers) < MaxHeight /\ Len(workers) \in Nat
  BY <1>0, FewWorkers DEF ScanInv, Types
<1>1. CASE AdvanceChain
  <2>1. Types'
    BY <1>0, <1>1 DEF AdvanceChain, Types, scanner, channel, history
  <2> QED
    BY <1>0, <1>1, <2>1, ScanInvFrame DEF AdvanceChain, scanner, channel, history, Types
<1>2. CASE StartWatch
  <2>1. From \in Nat /\ From >= 1
    BY DEF From
  <2>2. PICK stored \in StoredHeight : /\ ScanBlockHeight' = Larger(stored, From)
                                       /\ first' = Larger(stored, From)
    BY <1>2 DEF StartWatch
  <2>3. stored \in Nat
    BY <1>0 DEF StoredHeight, Types
  <2>4. ScanBlockHeight' \in Nat /\ first' = ScanBlockHeight' /\ first' >= 1
    BY <2>1, <2>2, <2>3 DEF Larger
  <2>5. workers = <<>> /\ sent = <<>>
    BY <1>0, <1>2 DEF StartWatch, ScannerBounds
  <2>6. Types'
    BY <1>0, <1>2, <2>4 DEF StartWatch, Types, channel
  <2>7. ScannerBounds'
    BY <1>0, <1>2, <2>4 DEF StartWatch, ScannerBounds, Types
  <2>8. ChannelsPrecede' /\ ScanIsContiguous' /\ OnlyIrreversible'
    BY <1>0, <1>2, <2>4, <2>5 DEF StartWatch, ChannelsPrecede, ScanIsContiguous, Spawned,
       OnlyIrreversible
  <2> QED BY <2>6, <2>7, <2>8 DEF ScanInv
<1>3. ASSUME NEW n \in 0..lib, UpdateInfo(n) PROVE ScanInv'
  <2>1. Types'
    BY <1>0, <1>3, <1>a DEF UpdateInfo, Types, channel, history, ChannelNames
  <2>2. ScannerBounds' /\ ChannelsPrecede' /\ ScanIsContiguous' /\ OnlyIrreversible'
    BY <1>0, <1>3, <1>a DEF UpdateInfo, Types, channel, history, ScannerBounds, ChannelsPrecede,
       ScanIsContiguous, Spawned, OnlyIrreversible
  <2> QED BY <2>1, <2>2 DEF ScanInv
<1>4. CASE CaughtUp \/ SlotFree \/ PutHeight
  <2>1. Types'
    BY <1>0, <1>4 DEF CaughtUp, SlotFree, PutHeight, PutHeightWith, Types, channel, history
  <2>2. ScannerBounds' /\ ChannelsPrecede' /\ ScanIsContiguous' /\ OnlyIrreversible'
    BY <1>0, <1>4 DEF CaughtUp, SlotFree, PutHeight, PutHeightWith, Types, channel, history,
       ScannerBounds, ChannelsPrecede, ScanIsContiguous, Spawned, OnlyIrreversible
  <2> QED BY <2>1, <2>2 DEF ScanInv
<1>5. CASE SpawnWorker
  <2>1. NewWorker \in Workers /\ NewWorker.height = ScanBlockHeight /\ NewWorker.chan = tmpChannel
    BY <1>0, <1>5 DEF SpawnWorker, NewWorker, Workers, Types, ScannerBounds, Heights, WorkerPcs
  <2> HIDE DEF NewWorker
  <2>2. /\ workers' \in Seq(Workers) /\ Len(workers') = Len(workers) + 1
        /\ DOMAIN workers = 1..Len(workers) /\ DOMAIN workers' = 1..Len(workers) + 1
        /\ \A v \in DOMAIN workers : workers'[v] = workers[v]
        /\ workers'[Len(workers) + 1] = NewWorker
    BY <1>0, <1>5, <2>1, AppendProperties DEF SpawnWorker, Types
  <2>3. Types'
    BY <1>0, <1>5, <2>2 DEF SpawnWorker, Types, channel, history
  <2>4. ScannerBounds'
    BY <1>0, <1>5 DEF SpawnWorker, Types, channel, history, ScannerBounds
  <2>5. ChannelsPrecede'
    BY <1>0, <1>5, <2>1, <2>2 DEF SpawnWorker, Types, ChannelsPrecede, ChannelNames
  <2>6. ScanIsContiguous'
    BY <1>0, <1>5, <2>1, <2>2 DEF SpawnWorker, Types, ScanIsContiguous, Spawned, history
  <2>7. OnlyIrreversible'
    BY <1>0, <1>5, <2>1, <2>2 DEF SpawnWorker, Types, OnlyIrreversible, ScannerBounds
  <2> QED BY <2>3, <2>4, <2>5, <2>6, <2>7 DEF ScanInv
<1>6. CASE AdvanceScan
  <2>1. Types'
    BY <1>0, <1>6 DEF AdvanceScan, AdvanceScanWith, Types, channel, history
  <2>2. ScannerBounds' /\ ChannelsPrecede' /\ ScanIsContiguous' /\ OnlyIrreversible'
    BY <1>0, <1>6 DEF AdvanceScan, AdvanceScanWith, Types, channel, history, ScannerBounds,
       ChannelsPrecede, ScanIsContiguous, Spawned, OnlyIrreversible
  <2> QED BY <2>1, <2>2 DEF ScanInv
<1>7. ASSUME NEW w \in DOMAIN workers, Worker(w) PROVE ScanInv'
  <2>1. PICK p \in WorkerPcs, n \in Nat : WorkerSteps(w, p, n)
    BY <1>0, <1>7, WorkerIsStep
  <2>2. /\ workers' \in Seq(Workers)
        /\ Len(workers') = Len(workers)
        /\ DOMAIN workers' = DOMAIN workers
        /\ \A v \in DOMAIN workers : /\ workers'[v].height = workers[v].height
                                     /\ workers'[v].chan = workers[v].chan
    BY <1>0, <2>1, WorkerStepFacts DEF Types
  <2>3. UNCHANGED <<lib, db, scanner, taken, delivered, history>>
    BY <1>7, WorkerFrame
  <2>4. sent' \in Seq(Events) /\ Len(sent') >= Len(sent)
    BY <1>0, <1>7, WorkerSends
  <2>5. workers # <<>>
    BY <1>7
  <2>6. Types'
    BY <1>0, <2>2, <2>3, <2>4 DEF Types, scanner, history
  <2>7. ScannerBounds'
    BY <1>0, <2>3, <2>5 DEF ScannerBounds, scanner, history
  <2>8. ChannelsPrecede' /\ ScanIsContiguous' /\ OnlyIrreversible'
    BY <1>0, <2>2, <2>3 DEF ChannelsPrecede, ScanIsContiguous, Spawned, OnlyIrreversible,
       scanner, history
  <2> QED BY <2>6, <2>7, <2>8 DEF ScanInv
<1>8. CASE Receive
  <2>1. sent[taken + 1] \in Events
    BY <1>0, <1>8 DEF Receive, Types
  <2>2. sent[taken + 1].TxID \in TxIDs
    BY <2>1 DEF Events
  <2>3. Types'
    BY <1>0, <1>8, <2>2 DEF Receive, Types, scanner, history
  <2> QED
    BY <1>0, <1>8, <2>3, ScanInvFrame DEF Receive, scanner, history, Types
<1>9. CASE Crash
  <2>1. PendingTx \subseteq TxIDs /\ QueuedTx \subseteq TxIDs
    <3>1. \A w \in DOMAIN workers : workers[w] \in Workers
      BY <1>0 DEF Types
    <3>2. \A k \in taken + 1 .. Len(sent) : sent[k] \in Events
      BY <1>0 DEF Types
    <3>3. \A w \in DOMAIN workers : \A i \in Pending(w) : <<workers[w].height, i>> \in TxIDs
      BY <3>1 DEF Pending, TxIDs, Workers
    <3> QED BY <3>2, <3>3 DEF PendingTx, QueuedTx, Events
  <2>2. Types'
    BY <1>0, <1>9, <2>1 DEF Crash, Types, ChannelNames
  <2>3. ScannerBounds' /\ ChannelsPrecede' /\ ScanIsContiguous' /\ OnlyIrreversible'
    BY <1>0, <1>9 DEF Crash, Types, ScannerBounds, ChannelsPrecede, ScanIsContiguous,
       OnlyIrreversible
  <2> QED BY <2>2, <2>3 DEF ScanInv
<1>10. CASE UNCHANGED vars
  BY <1>10, <1>0 DEF vars, scanner, channel, history, ScanInv, Types, ScannerBounds,
     ChannelsPrecede, ScanIsContiguous, Spawned, OnlyIrreversible
<1> QED
  BY <1>1, <1>2, <1>3, <1>4, <1>5, <1>6, <1>7, <1>8, <1>9, <1>10 DEF Next, Scanner

(***************************************************************************)
(* The scan never leaves a block out within a run and never gives a block  *)
(* to two workers (StartWatch's loop and its worker goroutines).           *)
(***************************************************************************)
THEOREM ScanCorrect == Spec => []ScanIsContiguous
<1>1. ScanInv => ScanIsContiguous
  BY DEF ScanInv
<1> QED
  BY <1>1, ScanInvInit, ScanInvStep, PTL DEF Spec

(***************************************************************************)
(* No worker ever scans a block that is not irreversible: the height       *)
(* GetInfo gave when a round began stays below what is irreversible when   *)
(* the worker it spawned reads the block.                                  *)
(***************************************************************************)
THEOREM IrreversibleCorrect == Spec => []OnlyIrreversible
<1>1. ScanInv => OnlyIrreversible
  BY DEF ScanInv
<1> QED
  BY <1>1, ScanInvInit, ScanInvStep, PTL DEF Spec

THEOREM ScanInvariant == Spec => []ScanInv
BY ScanInvInit, ScanInvStep, PTL DEF Spec

SlotInv == slots \in [ChannelNames -> 0..ChannelCount] /\ SlotsAccounted

LEMMA HoldersFinite ==
  ASSUME ScanInv, NEW c PROVE IsFiniteSet(Holders(c))
<1>1. DOMAIN workers = 1..Len(workers) /\ Len(workers) \in Nat
  BY DEF ScanInv, Types
<1>2. IsFiniteSet(1..Len(workers))
  BY <1>1, FS_Interval
<1>3. Holders(c) \in SUBSET (1..Len(workers))
  BY <1>1 DEF Holders
<1> QED BY <1>2, <1>3, FS_Subset

(* A step that changes the holders of no channel and no slot count.        *)
LEMMA SlotInvFrame ==
  ASSUME SlotInv, slots' = slots, \A c \in ChannelNames : Holders(c)' = Holders(c)
  PROVE  SlotInv'
BY DEF SlotInv, SlotsAccounted

LEMMA SlotInvInit == Init => SlotInv
<1> SUFFICES ASSUME Init PROVE SlotInv
  OBVIOUS
<1>1. \A c \in ChannelNames : Holders(c) = {}
  BY DEF Init, Holders
<1>2. \A c \in ChannelNames : Cardinality(Holders(c)) = 0
  BY <1>1, FS_EmptySet
<1>3. slots \in [ChannelNames -> 0..ChannelCount] /\ \A c \in ChannelNames : slots[c] = 0
  BY ConstantsAssumption DEF Init
<1> QED
  BY <1>2, <1>3 DEF SlotInv, SlotsAccounted

(* A worker that takes or gives back a slot of channel c.                  *)
LEMMA SlotStep ==
  ASSUME ScanInv, SlotInv, NEW w \in DOMAIN workers, Worker(w)
  PROVE  SlotInv'
<1> DEFINE c0 == workers[w].chan
<1>0. Types
  BY DEF ScanInv
<1>1. workers[w] \in Workers /\ c0 \in ChannelNames
  <2>1. workers[w] \in Workers
    BY <1>0 DEF Types
  <2> QED BY <2>1 DEF Workers
<1>2. PICK p \in WorkerPcs, n \in Nat : WorkerSteps(w, p, n)
  BY <1>0, WorkerIsStep
<1>3. /\ DOMAIN workers' = DOMAIN workers
      /\ \A v \in DOMAIN workers : /\ workers'[v].chan = workers[v].chan
                                   /\ v # w => workers'[v] = workers[v]
      /\ workers'[w].pc = p
  BY <1>0, <1>2, WorkerStepFacts DEF Types
<1>4. \A c \in ChannelNames : IsFiniteSet(Holders(c))
  BY HoldersFinite
<1>5. \A c \in ChannelNames : slots[c] \in 0..ChannelCount /\ slots[c] = Cardinality(Holders(c))
  BY DEF SlotInv, SlotsAccounted
<1>6. CASE AcquireSlot(w)
  <2>1. p = "fetch"
    BY <1>1, <1>6, <1>2, <1>3 DEF AcquireSlot, Workers, Types
  <2>2. \A c \in ChannelNames : Holders(c)' = IF c = c0 THEN Holders(c) \cup {w} ELSE Holders(c)
    BY <1>1, <1>3, <1>6, <2>1 DEF Holders, Holding
  <2>3. w \notin Holders(c0) /\ slots[c0] < ChannelCount
    BY <1>6 DEF Holders, Holding, AcquireSlot
  <2>4. Cardinality(Holders(c0) \cup {w}) = Cardinality(Holders(c0)) + 1
    BY <1>1, <1>4, <2>3, FS_AddElement
  <2>5. slots' = [slots EXCEPT ![c0] = slots[c0] + 1]
    BY <1>6 DEF AcquireSlot
  <2>6. ASSUME NEW c \in ChannelNames
        PROVE  slots'[c] \in 0..ChannelCount /\ slots'[c] = Cardinality(Holders(c)')
    <3>1. CASE c = c0
      <4>1. Cardinality(Holders(c)') = Cardinality(Holders(c0)) + 1
        BY <2>2, <2>4, <3>1
      <4>2. slots'[c] = slots[c0] + 1
        BY <1>1, <2>5, <3>1 DEF SlotInv
      <4> QED BY <1>1, <1>5, <2>3, <4>1, <4>2, ConstantsAssumption
    <3>2. CASE c # c0
      <4>1. Cardinality(Holders(c)') = Cardinality(Holders(c))
        BY <2>2, <3>2
      <4>2. slots'[c] = slots[c]
        BY <2>5, <3>2 DEF SlotInv
      <4> QED BY <1>5, <4>1, <4>2
    <3> QED BY <3>1, <3>2
  <2>7. slots' \in [ChannelNames -> 0..ChannelCount]
    BY <2>5, <2>6 DEF SlotInv
  <2> QED BY <2>6, <2>7 DEF SlotInv, SlotsAccounted
<1>7. CASE FetchBlock(w) \/ UpdateEOSPushEvent(w)
  <2>1. workers[w].pc \in Holding /\ slots' = slots
    BY <1>7 DEF FetchBlock, UpdateEOSPushEvent, ReportEvent, Holding
  <2>2. workers'[w].pc \in Holding
    <3>1. CASE FetchBlock(w)
      BY <3>1, <1>0, <1>1 DEF FetchBlock, Holding, Workers, Types
    <3>2. CASE UpdateEOSPushEvent(w)
      BY <3>2, <1>0, <1>1, <2>1 DEF UpdateEOSPushEvent, ReportEvent, Workers, Types
    <3> QED BY <1>7, <3>1, <3>2
  <2>3. \A c \in ChannelNames : Holders(c)' = Holders(c)
    BY <1>3, <2>1, <2>2 DEF Holders
  <2> QED BY <2>1, <2>3, SlotInvFrame
<1>8. CASE ReleaseSlot(w)
  <2>1. workers'[w].pc = "done" /\ workers[w].pc = "report"
    BY <1>0, <1>1, <1>8 DEF ReleaseSlot, Workers, Types
  <2>2. \A c \in ChannelNames : Holders(c)' = IF c = c0 THEN Holders(c) \ {w} ELSE Holders(c)
    BY <1>1, <1>3, <2>1 DEF Holders, Holding
  <2>3. w \in Holders(c0)
    BY <2>1 DEF Holders, Holding
  <2>4. Cardinality(Holders(c0) \ {w}) = Cardinality(Holders(c0)) - 1
    BY <1>1, <1>4, <2>3, FS_RemoveElement
  <2>5. Cardinality(Holders(c0) \ {w}) \in Nat
    BY <1>1, <1>4, FS_RemoveElement, FS_CardinalityType
  <2>6. slots' = [slots EXCEPT ![c0] = slots[c0] - 1]
    BY <1>8 DEF ReleaseSlot
  <2>7. ASSUME NEW c \in ChannelNames
        PROVE  slots'[c] \in 0..ChannelCount /\ slots'[c] = Cardinality(Holders(c)')
    <3>1. CASE c = c0
      <4>1. Cardinality(Holders(c)') = Cardinality(Holders(c0)) - 1 /\ Cardinality(Holders(c)') \in Nat
        BY <2>2, <2>4, <2>5, <3>1
      <4>2. slots'[c] = slots[c0] - 1
        BY <1>1, <2>6, <3>1 DEF SlotInv
      <4> QED BY <1>1, <1>5, <4>1, <4>2, ConstantsAssumption
    <3>2. CASE c # c0
      <4>1. Cardinality(Holders(c)') = Cardinality(Holders(c))
        BY <2>2, <3>2
      <4>2. slots'[c] = slots[c]
        BY <2>6, <3>2 DEF SlotInv
      <4> QED BY <1>5, <4>1, <4>2
    <3> QED BY <3>1, <3>2
  <2>8. slots' \in [ChannelNames -> 0..ChannelCount]
    BY <2>6, <2>7 DEF SlotInv
  <2> QED BY <2>7, <2>8 DEF SlotInv, SlotsAccounted
<1> QED BY <1>6, <1>7, <1>8 DEF Worker

LEMMA SlotInvStep == ScanInv /\ SlotInv /\ [Next]_vars => SlotInv'
<1> SUFFICES ASSUME ScanInv, SlotInv, [Next]_vars PROVE SlotInv'
  OBVIOUS
<1>0. Types /\ ChannelsPrecede /\ DOMAIN workers = 1..Len(workers) /\ Len(workers) \in Nat
  BY DEF ScanInv, Types
<1>1. CASE UNCHANGED <<workers, slots>>
  BY <1>1, SlotInvFrame DEF Holders
<1>2. ASSUME NEW n \in 0..lib, UpdateInfo(n) PROVE SlotInv'
  <2>1. Len(workers) \in ChannelNames
    BY <1>0, FewWorkers, ConstantsAssumption DEF ChannelNames
  <2>2. Holders(Len(workers)) = {}
    BY <1>0 DEF Holders, ChannelsPrecede
  <2>3. slots[Len(workers)] = 0
    BY <2>1, <2>2, FS_EmptySet DEF SlotInv, SlotsAccounted
  <2>4. slots' = slots /\ workers' = workers
    BY <1>2, <2>1, <2>3 DEF UpdateInfo, SlotInv
  <2> QED BY <1>1, <2>4
<1>3. CASE SpawnWorker
  <2>1. /\ DOMAIN workers' = 1..Len(workers) + 1
        /\ \A v \in DOMAIN workers : workers'[v] = workers[v]
        /\ workers'[Len(workers) + 1] = NewWorker
    BY <1>0, <1>3 DEF SpawnWorker, Types
  <2>2. NewWorker.pc \notin Holding
    BY DEF NewWorker, Holding
  <2> HIDE DEF NewWorker
  <2>3. \A c \in ChannelNames : Holders(c)' = Holders(c)
    BY <1>0, <2>1, <2>2 DEF Holders
  <2> QED BY <1>3, <2>3, SlotInvFrame DEF SpawnWorker
<1>4. ASSUME NEW w \in DOMAIN workers, Worker(w) PROVE SlotInv'
  BY <1>4, SlotStep
<1>5. CASE Crash
  <2>1. \A c \in ChannelNames : Holders(c)' = {}
    BY <1>5 DEF Crash, Holders
  <2>2. \A c \in ChannelNames : Cardinality(Holders(c)') = 0
    BY <2>1, FS_EmptySet
  <2>3. slots' \in [ChannelNames -> 0..ChannelCount] /\ \A c \in ChannelNames : slots'[c] = 0
    BY <1>5, ConstantsAssumption DEF Crash
  <2> QED
    BY <2>2, <2>3 DEF SlotInv, SlotsAccounted
<1>6. CASE AdvanceChain \/ StartWatch \/ CaughtUp \/ SlotFree \/ PutHeight \/ AdvanceScan \/ Receive
  BY <1>1, <1>6 DEF AdvanceChain, StartWatch, CaughtUp, SlotFree, PutHeight, PutHeightWith,
     AdvanceScan, AdvanceScanWith, Receive
<1>7. CASE UNCHANGED vars
  BY <1>1, <1>7 DEF vars
<1> QED
  BY <1>2, <1>3, <1>4, <1>5, <1>6, <1>7 DEF Next, Scanner

(***************************************************************************)
(* Slots are neither leaked nor given back twice, so at most ChannelCount  *)
(* workers of one round of the scan's outer loop are busy at a time.       *)
(***************************************************************************)
THEOREM SlotsCorrect == Spec => []SlotsAccounted
<1>1. SlotInv => SlotsAccounted
  BY DEF SlotInv
<1> QED
  BY <1>1, ScanInvInit, ScanInvStep, SlotInvInit, SlotInvStep, PTL DEF Spec

(* Type correctness: it needs the scan's bounds and the slots' accounting. *)
THEOREM TypeCorrect == Spec => []TypeOK
<1>1. ScanInv /\ SlotInv => TypeOK
  BY DEF ScanInv, SlotInv, Types, TypeOK
<1> QED
  BY <1>1, ScanInvInit, ScanInvStep, SlotInvInit, SlotInvStep, PTL DEF Spec
=============================================================================
