------------------------ MODULE EOSWatcherFeedProofs ------------------------
(***************************************************************************)
(* Proofs that EOSWatcherMain implements the event feed, what its          *)
(* persisted height is worth after a crash, and that its events are placed *)
(* where their transactions are.  They rest on the invariant of the scan   *)
(* proved in EOSWatcherMainProofs.                                         *)
(***************************************************************************)
EXTENDS EOSWatcherMainProofs

(* The captured index is the caller's until the first block was started.   *)
IndexInv ==
  scanBlockIndex # 0 => scanBlockIndex = StartIndex /\ ScanBlockHeight = first

(* Worker w has sent, or was told to skip, exactly what precedes next.     *)
Passed(w) == workers[w].pc \in {"report", "done"}

InSent(s, h, i) == \E k \in DOMAIN s : s[k].TxID = <<h, i>>

SentByWorkers ==
  \A k \in DOMAIN sent : \E w \in DOMAIN workers :
    /\ Passed(w)
    /\ sent[k].TxID[1] = workers[w].height
    /\ sent[k].TxID[2] < workers[w].next

WorkersSent ==
  \A w \in DOMAIN workers : Passed(w) =>
    \A j \in PushIndexes[workers[w].height] :
      j < workers[w].next =>
        \/ InSent(sent, workers[w].height, j)
        \/ workers[w].height = first /\ j < StartIndex

FeedInv == IndexInv /\ SentByWorkers /\ WorkersSent

LEMMA FeedInvInit == Init => FeedInv
BY DEF Init, FeedInv, IndexInv, SentByWorkers, WorkersSent

(* While the index is not reset only the first block has a worker.         *)
LEMMA IndexIsOfFirst ==
  ASSUME ScanInv, IndexInv, scanBlockIndex # 0, NEW w \in DOMAIN workers
  PROVE  workers[w].height = first
<1>1. pc # "down" /\ ScanBlockHeight = first /\ first \in Nat
  BY DEF ScanInv, Types, ScannerBounds, IndexInv
<1>2. Len(workers) = Spawned /\ workers[w].height = first + w - 1
  BY <1>1 DEF ScanInv, ScanIsContiguous
<1>3. Len(workers) <= 1
  BY <1>1, <1>2 DEF Spawned
<1>4. w \in 1..Len(workers)
  BY DEF ScanInv, Types
<1> QED BY <1>1, <1>2, <1>3, <1>4

(* What the next event of worker w is, and what sending it does.           *)
LEMMA ReportFacts ==
  ASSUME Types, NEW w \in DOMAIN workers, UpdateEOSPushEvent(w)
  PROVE  \E i \in Nat :
           /\ i \in PushIndexes[workers[w].height] /\ i >= workers[w].next
           /\ \A j \in PushIndexes[workers[w].height] : j < i => j < workers[w].next
           /\ sent' = Append(sent, EventOf(workers[w].height, i, workers[w].height))
           /\ workers[w].pc = "report"
           /\ WorkerSteps(w, "report", i + 1)
<1>1. workers[w] \in Workers
  BY DEF Types
<1>2. workers[w].height \in Heights /\ workers[w].next \in Nat
  BY <1>1 DEF Workers
<1>3. workers[w].pc = "report"
  BY DEF UpdateEOSPushEvent, ReportEvent
<1>4. PushIndexes[workers[w].height] \subseteq Nat
  BY <1>2, ConstantsAssumption
<1>5. Pending(w) = {i \in PushIndexes[workers[w].height] : i >= workers[w].next}
  BY <1>3 DEF Pending
<1>6. PICK i \in Pending(w) :
        /\ \A j \in Pending(w) : i <= j
        /\ sent' = Append(sent, EventOf(workers[w].height, i, workers[w].height))
        /\ workers' = [workers EXCEPT ![w].next = i + 1]
  BY DEF UpdateEOSPushEvent, ReportEvent
<1>7. WorkerSteps(w, "report", i + 1)
  BY <1>1, <1>3, <1>6 DEF WorkerSteps, Workers
<1>8. i \in Nat /\ i \in PushIndexes[workers[w].height] /\ i >= workers[w].next
  BY <1>4, <1>5, <1>6
<1>9. \A j \in PushIndexes[workers[w].height] : j < i => j < workers[w].next
  BY <1>2, <1>4, <1>5, <1>6, <1>8
<1> QED BY <1>3, <1>6, <1>7, <1>8, <1>9

(* A step that does not touch workers, sent or this run's beginning.       *)
LEMMA FeedInvFrame ==
  ASSUME FeedInv, UNCHANGED <<workers, sent, first>>, IndexInv' PROVE FeedInv'
BY DEF FeedInv, SentByWorkers, WorkersSent, Passed, InSent

LEMMA FeedInvWorker ==
  ASSUME ScanInv, FeedInv, NEW w \in DOMAIN workers, Worker(w) PROVE FeedInv'
<1> USE ConstantsAssumption
<1>0. Types /\ IndexInv /\ SentByWorkers /\ WorkersSent
  BY DEF ScanInv, FeedInv
<1>1. UNCHANGED <<lib, db, scanner, taken, delivered, history>>
  BY WorkerFrame
<1>2. IndexInv' /\ first' = first
  BY <1>0, <1>1 DEF IndexInv, scanner, history
<1>3. \A v \in DOMAIN workers : workers[v] \in Workers
  BY <1>0 DEF Types
<1>4. \A v \in DOMAIN workers : /\ workers[v].height \in Heights
                                /\ workers[v].next \in Nat
                                /\ PushIndexes[workers[v].height] \subseteq Nat
  BY <1>3 DEF Workers
<1>5. PICK p \in WorkerPcs, n \in Nat : WorkerSteps(w, p, n)
  BY <1>0, WorkerIsStep
<1>6. /\ DOMAIN workers' = DOMAIN workers
      /\ \A v \in DOMAIN workers : /\ workers'[v].height = workers[v].height
                                   /\ v # w => workers'[v] = workers[v]
      /\ workers'[w].pc = p /\ workers'[w].next = n
  BY <1>0, <1>5, WorkerStepFacts DEF Types
<1>7. CASE AcquireSlot(w) \/ ReleaseSlot(w)
  <2>1. sent' = sent /\ workers'[w].next = workers[w].next
    <3>1. sent' = sent
      BY <1>7 DEF AcquireSlot, ReleaseSlot, channel
    <3>2. workers[w] \in Workers /\ workers \in Seq(Workers)
      BY <1>0, <1>3 DEF Types
    <3>3. CASE AcquireSlot(w)
      BY <3>1, <3>2, <3>3 DEF AcquireSlot, Workers
    <3>4. CASE ReleaseSlot(w)
      BY <3>1, <3>2, <3>4 DEF ReleaseSlot, Workers
    <3> QED BY <1>7, <3>3, <3>4
  <2>2. \A v \in DOMAIN workers : Passed(v)' <=> Passed(v)
    BY <1>0, <1>3, <1>6, <1>7 DEF AcquireSlot, ReleaseSlot, Passed, Workers, Types
  <2>3. SentByWorkers'
    BY <1>0, <1>6, <2>1, <2>2 DEF SentByWorkers
  <2>4. WorkersSent'
    BY <1>0, <1>2, <1>6, <2>1, <2>2 DEF WorkersSent, InSent
  <2> QED BY <1>2, <2>3, <2>4 DEF FeedInv
<1>8. CASE FetchBlock(w)
  <2>1. sent' = sent /\ workers[w].pc = "fetch"
    BY <1>8 DEF FetchBlock, channel
  <2>2. workers'[w].next = scanBlockIndex
    BY <1>0, <1>3, <1>8 DEF FetchBlock, Workers, Types
  <2>3. \A v \in DOMAIN workers : v # w => (Passed(v)' <=> Passed(v))
    BY <1>6 DEF Passed
  <2>4. ~ Passed(w)
    BY <2>1 DEF Passed
  <2>5. SentByWorkers'
    BY <1>0, <1>6, <2>1, <2>3, <2>4 DEF SentByWorkers
  <2>6. ASSUME NEW j \in PushIndexes[workers[w].height], j < scanBlockIndex
        PROVE  workers[w].height = first /\ j < StartIndex
    <3>1. scanBlockIndex # 0 /\ j \in Nat
      BY <1>4, <2>6
    <3>2. workers[w].height = first
      BY <1>0, <3>1, IndexIsOfFirst
    <3> QED BY <1>0, <2>6, <3>1, <3>2 DEF IndexInv
  <2>7. WorkersSent'
    BY <1>0, <1>2, <1>6, <2>1, <2>2, <2>3, <2>6 DEF WorkersSent, InSent
  <2> QED BY <1>2, <2>5, <2>7 DEF FeedInv
<1>9. CASE UpdateEOSPushEvent(w)
  <2> DEFINE h == workers[w].height
  <2>1. PICK i \in Nat : /\ i \in PushIndexes[h] /\ i >= workers[w].next
                         /\ \A j \in PushIndexes[h] : j < i => j < workers[w].next
                         /\ sent' = Append(sent, EventOf(h, i, h))
                         /\ workers[w].pc = "report"
                         /\ WorkerSteps(w, "report", i + 1)
    BY <1>0, <1>9, ReportFacts
  <2>2. workers'[w].pc = "report" /\ workers'[w].next = i + 1
    BY <1>0, <2>1, WorkerStepFacts DEF Types, WorkerPcs
  <2>3. Passed(w) /\ Passed(w)' /\ \A v \in DOMAIN workers : v # w => (Passed(v)' <=> Passed(v))
    BY <1>6, <2>1, <2>2 DEF Passed
  <2>4. /\ DOMAIN sent = 1..Len(sent) /\ Len(sent) \in Nat
        /\ DOMAIN sent' = 1..(Len(sent) + 1)
        /\ \A k \in DOMAIN sent : sent'[k] = sent[k]
        /\ sent'[Len(sent) + 1].TxID = <<h, i>>
    <3> DEFINE e == EventOf(h, i, h)
    <3>1. sent \in Seq(Events) /\ sent' = Append(sent, e) /\ e.TxID = <<h, i>>
      BY <1>0, <2>1 DEF Types, EventOf
    <3> HIDE DEF e
    <3> QED BY <3>1
  <2>5. \A k \in DOMAIN sent : sent[k].TxID[2] \in Nat
    <3>1. \A k \in DOMAIN sent : sent[k] \in Events
      BY <1>0 DEF Types
    <3>2. \A t \in TxIDs : t[2] \in Nat
      BY DEF TxIDs
    <3> QED BY <3>1, <3>2 DEF Events
  <2>6. ASSUME NEW k \in DOMAIN sent'
        PROVE  \E v \in DOMAIN workers' : /\ Passed(v)'
                                          /\ sent'[k].TxID[1] = workers'[v].height
                                          /\ sent'[k].TxID[2] < workers'[v].next
    <3>1. CASE k = Len(sent) + 1
      BY <1>6, <2>2, <2>3, <2>4, <3>1
    <3>2. CASE k \in DOMAIN sent
      <4>1. PICK v \in DOMAIN workers : /\ Passed(v)
                                        /\ sent[k].TxID[1] = workers[v].height
                                        /\ sent[k].TxID[2] < workers[v].next
        BY <1>0, <3>2 DEF SentByWorkers
      <4>2. workers'[v].next >= workers[v].next /\ workers'[v].next \in Nat
        BY <1>4, <1>6, <2>1, <2>2
      <4>3. sent[k].TxID[2] < workers'[v].next
        BY <1>4, <2>5, <3>2, <4>1, <4>2
      <4> QED BY <1>6, <2>3, <2>4, <3>2, <4>1, <4>3
    <3> QED BY <2>4, <3>1, <3>2
  <2>7. \A g, j : InSent(sent, g, j) => InSent(sent', g, j)
    BY <2>4 DEF InSent
  <2>8. InSent(sent', h, i)
    BY <2>4 DEF InSent
  <2>9. ASSUME NEW v \in DOMAIN workers, Passed(v)',
               NEW j \in PushIndexes[workers[v].height], j < workers'[v].next
        PROVE  InSent(sent', workers[v].height, j) \/ (workers[v].height = first /\ j < StartIndex)
    <3>1. CASE v = w /\ j = i
      BY <2>8, <3>1
    <3>2. CASE v = w /\ j # i
      <4>1. j < i
        BY <1>4, <2>2, <2>9, <3>2
      <4> QED BY <1>0, <2>1, <2>3, <2>7, <3>2, <4>1 DEF WorkersSent
    <3>3. CASE v # w
      <4>1. Passed(v) /\ j < workers[v].next
        BY <1>6, <2>3, <2>9, <3>3
      <4> QED BY <1>0, <2>7, <4>1 DEF WorkersSent
    <3> QED BY <3>1, <3>2, <3>3
  <2>10. SentByWorkers'
    BY <2>6 DEF SentByWorkers
  <2>11. WorkersSent'
    BY <1>2, <1>6, <2>9 DEF WorkersSent
  <2> QED BY <1>2, <2>10, <2>11 DEF FeedInv
<1> QED BY <1>7, <1>8, <1>9 DEF Worker

LEMMA FeedInvStep == ScanInv /\ FeedInv /\ [Next]_vars => FeedInv'
<1> SUFFICES ASSUME ScanInv, FeedInv, [Next]_vars PROVE FeedInv'
  OBVIOUS
<1> USE ConstantsAssumption
<1>0. Types /\ ScannerBounds /\ IndexInv /\ SentByWorkers /\ WorkersSent
  BY DEF ScanInv, FeedInv
<1>1. CASE StartWatch
  <2>1. scanBlockIndex' = StartIndex /\ ScanBlockHeight' = first'
    BY <1>1 DEF StartWatch
  <2>2. workers' = <<>> /\ sent' = <<>>
    BY <1>0, <1>1 DEF StartWatch, ScannerBounds, channel
  <2> QED
    BY <2>1, <2>2 DEF FeedInv, IndexInv, SentByWorkers, WorkersSent
<1>2. CASE SpawnWorker
  <2>1. /\ DOMAIN workers = 1..Len(workers) /\ DOMAIN workers' = 1..Len(workers) + 1
        /\ Len(workers) \in Nat
        /\ \A v \in DOMAIN workers : workers'[v] = workers[v]
        /\ workers'[Len(workers) + 1] = NewWorker
    BY <1>0, <1>2 DEF SpawnWorker, Types
  <2>2. \A v \in DOMAIN workers : Passed(v)' <=> Passed(v)
    BY <2>1 DEF Passed
  <2>3. workers'[Len(workers) + 1].pc = "start"
    BY <2>1 DEF NewWorker
  <2>4. sent' = sent /\ first' = first /\ IndexInv'
    BY <1>0, <1>2 DEF SpawnWorker, channel, history, IndexInv
  <2>5. SentByWorkers'
    BY <1>0, <2>1, <2>2, <2>4 DEF SentByWorkers
  <2>6. WorkersSent'
    <3>1. ASSUME NEW v \in DOMAIN workers', Passed(v)' PROVE v \in DOMAIN workers
      BY <2>1, <2>3, <3>1 DEF Passed
    <3> QED BY <1>0, <2>1, <2>2, <2>4, <3>1 DEF WorkersSent, InSent
  <2> QED BY <2>4, <2>5, <2>6 DEF FeedInv
<1>3. ASSUME NEW w \in DOMAIN workers, Worker(w) PROVE FeedInv'
  BY <1>3, FeedInvWorker
<1>4. CASE Crash
  BY <1>4 DEF Crash, FeedInv, IndexInv, SentByWorkers, WorkersSent
<1>5. ASSUME \/ AdvanceChain \/ (\E n \in 0..lib : UpdateInfo(n))
             \/ CaughtUp \/ SlotFree \/ PutHeight \/ AdvanceScan \/ Receive
             \/ UNCHANGED vars
      PROVE  FeedInv'
  <2>1. UNCHANGED <<workers, sent, first>>
    BY <1>5 DEF AdvanceChain, UpdateInfo, CaughtUp, SlotFree, PutHeight, PutHeightWith,
       AdvanceScan, AdvanceScanWith, Receive, vars, scanner, channel, history
  <2>2. \/ UNCHANGED <<scanBlockIndex, ScanBlockHeight>>
        \/ scanBlockIndex' = 0
    BY <1>5 DEF AdvanceChain, UpdateInfo, CaughtUp, SlotFree, PutHeight, PutHeightWith,
       AdvanceScan, AdvanceScanWith, Receive, vars, scanner, channel, history
  <2> QED
    BY <1>0, <2>1, <2>2, FeedInvFrame DEF IndexInv
<1> QED
  BY <1>1, <1>2, <1>3, <1>4, <1>5 DEF Next, Scanner

(***************************************************************************)
(* The captured scanBlockIndex is read too late by some workers, and yet   *)
(* it never makes a block other than the first of a run lose receipts.     *)
(***************************************************************************)
THEOREM SkipsAreFirst == Spec => SkipsOnlyInFirstBlock
<1>1. ScanInv /\ FeedInv /\ [Next]_vars =>
        [\A w \in DOMAIN workers :
           FetchBlock(w) /\ workers'[w].next > 0 => workers[w].height = first]_vars
  <2> SUFFICES ASSUME ScanInv, FeedInv, NEW w \in DOMAIN workers, FetchBlock(w),
                      workers'[w].next > 0
               PROVE  workers[w].height = first
    OBVIOUS
  <2>1. workers \in Seq(Workers) /\ workers[w] \in Workers /\ scanBlockIndex \in Nat
    BY DEF ScanInv, Types
  <2>2. workers'[w].next = scanBlockIndex
    BY <2>1 DEF FetchBlock, Workers
  <2> QED BY <2>1, <2>2, IndexIsOfFirst DEF FeedInv
<1> QED
  BY <1>1, ScanInvInit, ScanInvStep, FeedInvInit, FeedInvStep, PTL
     DEF Spec, SkipsOnlyInFirstBlock

-----------------------------------------------------------------------------
(* The refinement.                                                         *)

TheFeed == [k \in DOMAIN sent |-> sent[k].TxID]

LEMMA FeedInitRefines == Init => Feed!FeedInit
<1> SUFFICES ASSUME Init PROVE Feed!FeedInit
  OBVIOUS
<1>1. DOMAIN TheFeed = {} /\ TheFeed = [k \in 1..0 |-> 0]
  BY DEF Init, TheFeed
<1> QED
  BY <1>1 DEF Init, Feed!FeedInit, TheFeed

LEMMA FeedStepRefines ==
  ScanInv /\ ScanInv' /\ FeedInv /\ [Next]_vars => [Feed!FeedNext]_(Feed!feedVars)
<1> SUFFICES ASSUME ScanInv, ScanInv', FeedInv, [Next]_vars
             PROVE  [Feed!FeedNext]_(Feed!feedVars)
  OBVIOUS
<1> USE ConstantsAssumption
<1>a. Types
  BY DEF ScanInv
<1>0. Types /\ Types' /\ ScannerBounds /\ FeedInv
  BY DEF ScanInv
<1>1. CASE AdvanceChain
  <2>1. Feed!Extend
    BY <1>1 DEF AdvanceChain, Feed!Extend, channel, history
  <2> QED BY <2>1 DEF Feed!FeedNext
<1>2. CASE StartWatch
  <2>1. sent = <<>> /\ sent' = <<>> /\ lib' = lib /\ first' \in Nat
    BY <1>0, <1>2 DEF StartWatch, ScannerBounds, channel, Types
  <2>2. TheFeed = <<>>
    BY <2>1 DEF TheFeed
  <2>3. Feed!Begin
    BY <2>1, <2>2 DEF Feed!Begin, TheFeed
  <2> QED BY <2>3 DEF Feed!FeedNext
<1>3. CASE Crash
  <2>1. sent' = <<>> /\ lib' = lib /\ first' = first
    BY <1>3 DEF Crash
  <2>2. TheFeed' = <<>>
    BY <2>1 DEF TheFeed
  <2>3. Feed!Forget
    BY <2>1, <2>2 DEF Feed!Forget, TheFeed
  <2> QED BY <2>3 DEF Feed!FeedNext
<1>4. CASE UNCHANGED <<lib, sent, first>>
  BY <1>4 DEF Feed!feedVars
<1>5. ASSUME NEW w \in DOMAIN workers, UpdateEOSPushEvent(w) PROVE Feed!FeedNext
  <2> DEFINE h == workers[w].height
  <2>1. PICK i \in Nat : /\ i \in PushIndexes[h] /\ i >= workers[w].next
                         /\ \A j \in PushIndexes[h] : j < i => j < workers[w].next
                         /\ sent' = Append(sent, EventOf(h, i, h))
                         /\ workers[w].pc = "report"
    BY <1>0, <1>5, ReportFacts
  <2>a. /\ workers \in Seq(Workers) /\ DOMAIN workers = 1..Len(workers) /\ Len(workers) \in Nat
        /\ first \in Nat
    <3> HIDE DEF Workers
    <3>1. workers \in Seq(Workers) /\ first \in Nat
      BY <1>a DEF Types
    <3> QED BY <3>1
  <2>2. workers[w] \in Workers
    BY <2>a
  <2>3. h \in Heights /\ workers[w].next \in Nat /\ PushIndexes[h] \subseteq Nat
    BY <2>2 DEF Workers
  <2>4. first <= h /\ h < lib /\ first \in Nat /\ \A v \in DOMAIN workers :
          workers[v].height = h => v = w
    <3>1. workers # <<>> /\ pc # "down"
      BY <1>0 DEF ScannerBounds
    <3>2. \A v \in DOMAIN workers : workers[v].height = first + v - 1 /\ v \in Nat /\ v >= 1
      <4>1. \A v \in DOMAIN workers : workers[v].height = first + v - 1
        BY <3>1 DEF ScanInv, ScanIsContiguous
      <4> QED BY <2>a, <4>1
    <3>3. h < lib
      BY DEF ScanInv, OnlyIrreversible
    <3> QED BY <2>a, <3>2, <3>3
  <2>5. \A j \in PushIndexes[h] : InSent(sent, h, j) => j < workers[w].next
    BY <2>4 DEF FeedInv, SentByWorkers, InSent
  <2>6. \A j \in PushIndexes[h] : j < workers[w].next =>
          InSent(sent, h, j) \/ (h = first /\ j < StartIndex)
    BY <2>1 DEF FeedInv, WorkersSent, Passed
  <2>7. \A j \in PushIndexes[h] : Feed!InFeed(h, j) <=> InSent(sent, h, j)
    BY DEF Feed!InFeed, InSent
  <2>8. TheFeed' = Append(TheFeed, <<h, i>>)
    <3> DEFINE e == EventOf(h, i, h)
    <3>1. e.TxID = <<h, i>> /\ sent' = Append(sent, e) /\ sent \in Seq(Events) /\ e \in Events
      <4>1. <<h, i>> \in TxIDs
        BY <2>1, <2>3 DEF TxIDs
      <4>2. h \in Nat
        BY <2>3 DEF Heights
      <4>3. e \in Events /\ e.TxID = <<h, i>>
        BY <2>1, <4>1, <4>2 DEF EventOf, Events
      <4>4. sent \in Seq(Events)
        BY <1>0 DEF Types
      <4> QED BY <2>1, <4>3, <4>4
    <3> HIDE DEF e
    <3>2. \A ev \in Events : ev.TxID \in TxIDs
      BY DEF Events
    <3>3. TheFeed \in Seq(TxIDs) /\ Len(TheFeed) = Len(sent)
          /\ \A k \in 1..Len(sent) : TheFeed[k] = sent[k].TxID
      BY <3>1, <3>2 DEF TheFeed
    <3>4. sent' \in Seq(Events) /\ Len(sent') = Len(sent) + 1
          /\ (\A k \in 1..Len(sent) : sent'[k] = sent[k]) /\ sent'[Len(sent) + 1] = e
      BY <3>1, AppendProperties
    <3>5. TheFeed' \in Seq(TxIDs) /\ Len(TheFeed') = Len(sent) + 1
          /\ \A k \in 1..Len(sent) + 1 : TheFeed'[k] = sent'[k].TxID
      BY <3>2, <3>4 DEF TheFeed
    <3>6. <<h, i>> \in TxIDs
      BY <3>1, <3>2
    <3> HIDE DEF TheFeed
    <3>7. Append(TheFeed, <<h, i>>) \in Seq(TxIDs) /\ Len(Append(TheFeed, <<h, i>>)) = Len(sent) + 1
          /\ (\A k \in 1..Len(sent) : Append(TheFeed, <<h, i>>)[k] = TheFeed[k])
          /\ Append(TheFeed, <<h, i>>)[Len(sent) + 1] = <<h, i>>
      BY <3>3, <3>6, AppendProperties
    <3>8. \A k \in 1..Len(sent) + 1 : TheFeed'[k] = Append(TheFeed, <<h, i>>)[k]
      <4>1. Len(sent) \in Nat
        BY <3>1
      <4>2. ASSUME NEW k \in 1..Len(sent) PROVE TheFeed'[k] = Append(TheFeed, <<h, i>>)[k]
        BY <3>3, <3>4, <3>5, <3>7, <4>1, <4>2
      <4>3. TheFeed'[Len(sent) + 1] = Append(TheFeed, <<h, i>>)[Len(sent) + 1]
        <5>1. Len(sent) + 1 \in 1..Len(sent) + 1
          BY <4>1
        <5>2. TheFeed'[Len(sent) + 1] = e.TxID
          BY <5>1, <3>4, <3>5
        <5>3. e.TxID = <<h, i>>
          BY <3>1
        <5> QED BY <5>2, <5>3, <3>7
      <4>4. SUFFICES ASSUME NEW k \in 1..Len(sent) + 1
                     PROVE  TheFeed'[k] = Append(TheFeed, <<h, i>>)[k]
        OBVIOUS
      <4>5. k \in 1..Len(sent) \/ k = Len(sent) + 1
        BY <4>1
      <4> QED BY <4>2, <4>3, <4>5
    <3> QED BY <3>5, <3>7, <3>8, SeqEqual
  <2>9. UNCHANGED <<lib, first>>
    BY <1>5 DEF UpdateEOSPushEvent, ReportEvent, history
  <2>10. Feed!Emit(h, i)
    <3>1. ~ \E j \in PushIndexes[h] : j >= i /\ Feed!InFeed(h, j)
      BY <2>1, <2>3, <2>5, <2>7
    <3>2. \A j \in PushIndexes[h] : j < i => Feed!InFeed(h, j) \/ Feed!Skipped(h, j)
      BY <2>1, <2>6, <2>7 DEF Feed!Skipped
    <3> QED BY <2>1, <2>4, <2>8, <2>9, <3>1, <3>2 DEF Feed!Emit, TheFeed
  <2> QED BY <2>1, <2>3, <2>10 DEF Feed!FeedNext, Heights
<1>6. ASSUME NEW w \in DOMAIN workers, AcquireSlot(w) \/ FetchBlock(w) \/ ReleaseSlot(w)
      PROVE  UNCHANGED <<lib, sent, first>>
  BY <1>6 DEF AcquireSlot, FetchBlock, ReleaseSlot, channel, history
<1>7. ASSUME \/ \E n \in 0..lib : UpdateInfo(n)
             \/ CaughtUp \/ SlotFree \/ PutHeight \/ SpawnWorker \/ AdvanceScan \/ Receive
             \/ UNCHANGED vars
      PROVE  UNCHANGED <<lib, sent, first>>
  BY <1>7 DEF UpdateInfo, CaughtUp, SlotFree, PutHeight, PutHeightWith, SpawnWorker,
     AdvanceScan, AdvanceScanWith, Receive, vars, channel, history
<1> QED
  BY <1>1, <1>2, <1>3, <1>4, <1>5, <1>6, <1>7 DEF Next, Scanner, Worker

(***************************************************************************)
(* EOSWatcherMain implements the event feed: within a run an event is sent *)
(* at most once, only for an irreversible block, and in the order of its   *)
(* block with nothing left out but what the caller asked to skip.          *)
(***************************************************************************)
THEOREM WatcherImplementsFeed == Spec => ImplementsFeed
<1>1. ScanInv /\ FeedInv /\ [Next]_vars => ScanInv' /\ FeedInv'
  BY ScanInvStep, FeedInvStep
<1> QED
  BY <1>1, ScanInvInit, FeedInvInit, FeedInitRefines, FeedStepRefines, PTL
     DEF Spec, ImplementsFeed, Feed!FeedSpec
-----------------------------------------------------------------------------
(***************************************************************************)
(* What the persisted height is worth after a crash, and that events are   *)
(* placed where their transactions are.                                    *)
(***************************************************************************)
(* The two invariants this module builds on, as one.                       *)
WatcherInv == ScanInv /\ FeedInv

LEMMA WatcherInvInit == Init => WatcherInv
BY ScanInvInit, FeedInvInit DEF WatcherInv

LEMMA WatcherInvStep == WatcherInv /\ [Next]_vars => WatcherInv'
BY ScanInvStep, FeedInvStep DEF WatcherInv

(* A worker's record, in the terms the provers need.                       *)
LEMMA WorkerTypes ==
  ASSUME Types, NEW w \in DOMAIN workers
  PROVE  /\ workers[w].height \in Heights /\ workers[w].height \in Nat
         /\ workers[w].next \in Nat
         /\ PushIndexes[workers[w].height] \subseteq Nat
         /\ w \in Nat /\ w >= 1
<1>1. workers \in Seq(Workers)
  BY DEF Types
<1>2. workers[w] \in Workers /\ w \in 1..Len(workers) /\ Len(workers) \in Nat
  BY <1>1
<1>3. workers[w].height \in Heights /\ workers[w].next \in Nat
  BY <1>2 DEF Workers
<1> QED BY <1>2, <1>3, ConstantsAssumption DEF Heights

LEMMA SentTypes ==
  ASSUME Types
  PROVE  /\ sent \in Seq(Events) /\ Len(sent) \in Nat /\ DOMAIN sent = 1..Len(sent)
         /\ taken \in Nat /\ taken <= Len(sent)
         /\ \A k \in DOMAIN sent : sent[k] \in Events
<1>1. sent \in Seq(Events) /\ taken \in 0..Len(sent)
  BY DEF Types
<1> HIDE DEF Events
<1> QED BY <1>1

(* A worker's send, in the same terms.                                     *)
LEMMA SendFacts ==
  ASSUME Types, NEW h, NEW i, NEW b, sent' = Append(sent, EventOf(h, i, b))
  PROVE  /\ DOMAIN sent' = 1..(Len(sent) + 1)
         /\ \A k \in DOMAIN sent : sent'[k] = sent[k]
         /\ sent'[Len(sent) + 1].TxID = <<h, i>>
         /\ sent'[Len(sent) + 1].BlockNum = b
         /\ sent'[Len(sent) + 1].Index = i
<1> DEFINE e == EventOf(h, i, b)
<1>1. sent \in Seq(Events) /\ sent' = Append(sent, e)
  BY SentTypes
<1>2. e.TxID = <<h, i>> /\ e.BlockNum = b /\ e.Index = i
  BY DEF EventOf
<1> HIDE DEF e
<1>3. DOMAIN sent' = 1..(Len(sent) + 1) /\ sent'[Len(sent) + 1] = e
      /\ \A k \in DOMAIN sent : sent'[k] = sent[k]
  BY <1>1
<1> QED BY <1>2, <1>3

-----------------------------------------------------------------------------
(* Events name the block and the receipt of their transaction.             *)

LEMMA PlacedStep == WatcherInv /\ EventsPlaced /\ [Next]_vars => EventsPlaced'
<1> SUFFICES ASSUME WatcherInv, EventsPlaced, [Next]_vars PROVE EventsPlaced'
  OBVIOUS
<1>0. Types
  BY DEF WatcherInv, ScanInv
<1>1. ASSUME NEW w \in DOMAIN workers, UpdateEOSPushEvent(w) PROVE EventsPlaced'
  <2> DEFINE h == workers[w].height
  <2>1. PICK i \in Nat : i \in PushIndexes[h] /\ sent' = Append(sent, EventOf(h, i, h))
    BY <1>0, <1>1, ReportFacts
  <2>2. /\ DOMAIN sent' = 1..(Len(sent) + 1)
        /\ \A k \in DOMAIN sent : sent'[k] = sent[k]
        /\ sent'[Len(sent) + 1].TxID = <<h, i>>
        /\ sent'[Len(sent) + 1].BlockNum = h
        /\ sent'[Len(sent) + 1].Index = i
    BY <1>0, <2>1, SendFacts
  <2>3. DOMAIN sent = 1..Len(sent) /\ Len(sent) \in Nat
    BY <1>0, SentTypes
  <2>4. ASSUME NEW k \in DOMAIN sent'
        PROVE  /\ sent'[k].TxID = <<sent'[k].BlockNum, sent'[k].Index>>
               /\ sent'[k].Index \in PushIndexes[sent'[k].BlockNum]
    <3>1. k \in DOMAIN sent \/ k = Len(sent) + 1
      BY <2>2, <2>3
    <3> QED BY <2>1, <2>2, <3>1 DEF EventsPlaced
  <2> QED BY <2>4 DEF EventsPlaced
<1>2. CASE sent' = sent \/ sent' = <<>>
  BY <1>2 DEF EventsPlaced
<1>3. ASSUME NEW w \in DOMAIN workers, AcquireSlot(w) \/ FetchBlock(w) \/ ReleaseSlot(w)
      PROVE  sent' = sent
  BY <1>3 DEF AcquireSlot, FetchBlock, ReleaseSlot, channel
<1>4. ASSUME \/ AdvanceChain \/ StartWatch \/ (\E n \in 0..lib : UpdateInfo(n)) \/ CaughtUp
             \/ SlotFree \/ PutHeight \/ SpawnWorker \/ AdvanceScan \/ Receive \/ Crash
             \/ UNCHANGED vars
      PROVE  sent' = sent \/ sent' = <<>>
  BY <1>4 DEF AdvanceChain, StartWatch, UpdateInfo, CaughtUp, SlotFree, PutHeight, PutHeightWith,
     SpawnWorker, AdvanceScan, AdvanceScanWith, Receive, Crash, vars, channel
<1> QED
  BY <1>1, <1>2, <1>3, <1>4 DEF Next, Scanner, Worker

(***************************************************************************)
(* Every event names the block and the receipt its transaction is in:      *)
(* UpdateEOSPushEvent's scanBlockResp.BlockNum and index.                  *)
(***************************************************************************)
THEOREM PlacedCorrect == Spec => []EventsPlaced
<1>1. Init => EventsPlaced
  BY DEF Init, EventsPlaced
<1> QED
  BY <1>1, WatcherInvInit, WatcherInvStep, PlacedStep, PTL DEF Spec

-----------------------------------------------------------------------------
(* Nothing below the persisted height is forgotten.                        *)

(* Receipt i of block h needs nothing more: it is delivered, in the buffer *)
(* of eventChan, with a worker, accounted for as lost, or to be skipped.   *)
Queued(h, i) == \E k \in DOMAIN sent : k > taken /\ sent[k].TxID = <<h, i>>

WithWorker(h, i) == \E w \in DOMAIN workers : workers[w].height = h /\ i \in Pending(w)

Safe(h, i) ==
  \/ <<h, i>> \in delivered
  \/ Queued(h, i)
  \/ WithWorker(h, i)
  \/ <<h, i>> \in lost
  \/ i < StartIndex

ReceivedDelivered == \A k \in DOMAIN sent : k <= taken => sent[k].TxID \in delivered

DoneAreFinished ==
  \A w \in DOMAIN workers : workers[w].pc = "done" =>
    \A j \in PushIndexes[workers[w].height] : j < workers[w].next

(* The heights this run need not scan, because an earlier one did.         *)
Behind(h) == From <= h /\ (h < db \/ (pc # "down" /\ h < first))

BehindIsSafe == \A h \in Heights : Behind(h) => \A i \in PushIndexes[h] : Safe(h, i)

CrashInv == ReceivedDelivered /\ DoneAreFinished /\ BehindIsSafe

LEMMA CrashInvInit == Init => CrashInv
<1> SUFFICES ASSUME Init PROVE CrashInv
  OBVIOUS
<1>1. From >= 1 /\ From \in Nat
  BY ConstantsAssumption DEF From
<1>2. ReceivedDelivered /\ DoneAreFinished
  BY DEF Init, ReceivedDelivered, DoneAreFinished
<1>3. \A h \in Heights : ~ Behind(h)
  BY <1>1, ConstantsAssumption DEF Init, Behind, Heights
<1> QED BY <1>2, <1>3 DEF CrashInv, BehindIsSafe

(* Every receipt of a block that has a worker is safe.                     *)
LEMMA WorkerIsSafe ==
  ASSUME WatcherInv, ReceivedDelivered, DoneAreFinished, NEW w \in DOMAIN workers,
         NEW i \in PushIndexes[workers[w].height]
  PROVE  Safe(workers[w].height, i)
<1> DEFINE h == workers[w].height
<1>0. Types /\ WorkersSent
  BY DEF WatcherInv, ScanInv, FeedInv
<1>1. workers[w].next \in Nat /\ i \in Nat
  BY <1>0, WorkerTypes
<1>2. workers[w].pc \in WorkerPcs
  <2>1. workers \in Seq(Workers)
    BY <1>0 DEF Types
  <2>2. workers[w] \in Workers
    BY <2>1
  <2> QED BY <2>2 DEF Workers
<1>3. CASE \/ workers[w].pc \in {"start", "fetch"}
           \/ workers[w].pc = "report" /\ i >= workers[w].next
  <2>1. i \in Pending(w)
    BY <1>3 DEF Pending
  <2> QED BY <2>1 DEF Safe, WithWorker
<1>4. CASE Passed(w) /\ i < workers[w].next
  <2>1. InSent(sent, h, i) \/ i < StartIndex
    BY <1>0, <1>4 DEF WorkersSent
  <2>2. CASE InSent(sent, h, i)
    <3>1. PICK k \in DOMAIN sent : sent[k].TxID = <<h, i>>
      BY <2>2 DEF InSent
    <3>2. k \in Nat /\ taken \in Nat
      BY <1>0, SentTypes
    <3>3. CASE k <= taken
      BY <3>1, <3>3 DEF ReceivedDelivered, Safe
    <3>4. CASE k > taken
      BY <3>1, <3>4 DEF Queued, Safe
    <3> QED BY <3>2, <3>3, <3>4
  <2> QED BY <2>1, <2>2 DEF Safe
<1>5. CASE workers[w].pc = "done"
  BY <1>4, <1>5 DEF DoneAreFinished, Passed
<1>6. CASE workers[w].pc = "report"
  <2>1. i >= workers[w].next \/ i < workers[w].next
    BY <1>1
  <2> QED BY <1>3, <1>4, <1>6, <2>1 DEF Passed
<1>7. workers[w].pc \in {"start", "fetch"} \/ workers[w].pc = "report" \/ workers[w].pc = "done"
  BY <1>2 DEF WorkerPcs
<1> QED
  BY <1>3, <1>5, <1>6, <1>7

(* A safe receipt that is still on its way when the process dies is lost.  *)
LEMMA SafeIsCovered ==
  ASSUME Types, NEW h, NEW i, Safe(h, i)
  PROVE  \/ <<h, i>> \in delivered \cup QueuedTx \cup PendingTx \cup lost
         \/ i < StartIndex
<1>1. CASE Queued(h, i)
  <2>1. PICK k \in DOMAIN sent : k > taken /\ sent[k].TxID = <<h, i>>
    BY <1>1 DEF Queued
  <2>2. k \in taken + 1 .. Len(sent)
    BY <2>1, SentTypes
  <2> QED BY <2>1, <2>2 DEF QueuedTx
<1>2. CASE WithWorker(h, i)
  BY <1>2 DEF WithWorker, PendingTx
<1> QED BY <1>1, <1>2 DEF Safe

(* A worker's step keeps every receipt safe.                               *)
LEMMA SafeWorker ==
  ASSUME WatcherInv, NEW w \in DOMAIN workers, Worker(w),
         NEW h \in Heights, NEW i \in PushIndexes[h], Safe(h, i)
  PROVE  Safe(h, i)'
<1>0. Types /\ ScanInv /\ IndexInv
  BY DEF WatcherInv, ScanInv, FeedInv
<1>1. UNCHANGED <<taken, delivered, lost>>
  BY WorkerFrame DEF history
<1>2. PICK p \in WorkerPcs, n \in Nat : WorkerSteps(w, p, n)
  BY <1>0, WorkerIsStep
<1>3. /\ DOMAIN workers' = DOMAIN workers
      /\ \A v \in DOMAIN workers : /\ workers'[v].height = workers[v].height
                                   /\ v # w => workers'[v] = workers[v]
      /\ workers'[w].pc = p /\ workers'[w].next = n
  BY <1>0, <1>2, WorkerStepFacts DEF Types
<1>4. i \in Nat
  BY ConstantsAssumption
<1>5. CASE <<h, i>> \in delivered \/ <<h, i>> \in lost \/ i < StartIndex
  BY <1>1, <1>5 DEF Safe
<1>6. CASE Queued(h, i)
  <2>1. PICK k \in DOMAIN sent : k > taken /\ sent[k].TxID = <<h, i>>
    BY <1>6 DEF Queued
  <2>2. k \in DOMAIN sent' /\ sent'[k] = sent[k]
    <3>1. CASE UpdateEOSPushEvent(w)
      <4>1. PICK j \in Nat : sent' = Append(sent, EventOf(workers[w].height, j, workers[w].height))
        BY <1>0, <3>1, ReportFacts
      <4>2. DOMAIN sent' = 1..(Len(sent) + 1) /\ \A l \in DOMAIN sent : sent'[l] = sent[l]
        BY <1>0, <4>1, SendFacts
      <4> QED BY <1>0, <2>1, <4>2, SentTypes
    <3>2. CASE AcquireSlot(w) \/ FetchBlock(w) \/ ReleaseSlot(w)
      BY <2>1, <3>2 DEF AcquireSlot, FetchBlock, ReleaseSlot, channel
    <3> QED BY <3>1, <3>2 DEF Worker
  <2>3. Queued(h, i)'
    BY <1>1, <2>1, <2>2 DEF Queued
  <2> QED BY <2>3 DEF Safe
<1>7. CASE WithWorker(h, i)
  <2>1. PICK v \in DOMAIN workers : workers[v].height = h /\ i \in Pending(v)
    BY <1>7 DEF WithWorker
  <2>2. CASE v # w
    <3>1. i \in Pending(v)'
      BY <1>3, <2>1, <2>2 DEF Pending
    <3> QED BY <1>3, <2>1, <3>1 DEF Safe, WithWorker
  <2>3. CASE v = w /\ AcquireSlot(w)
    <3>1. workers'[w].pc = "fetch"
      <4>1. workers[w] \in Workers
        <5>1. workers \in Seq(Workers)
          BY <1>0 DEF Types
        <5> QED BY <5>1
      <4> QED BY <2>3, <4>1 DEF AcquireSlot, Workers
    <3>2. i \in Pending(w)'
      BY <1>3, <2>1, <2>3, <3>1 DEF Pending
    <3> QED BY <1>3, <2>1, <2>3, <3>2 DEF Safe, WithWorker
  <2>4. CASE v = w /\ FetchBlock(w)
    <3>1. workers'[w].pc = "report" /\ workers'[w].next = scanBlockIndex
      <4>1. workers[w] \in Workers
        <5>1. workers \in Seq(Workers)
          BY <1>0 DEF Types
        <5> QED BY <5>1
      <4> QED BY <2>4, <4>1 DEF FetchBlock, Workers
    <3>2. scanBlockIndex \in Nat /\ StartIndex \in Nat
      BY <1>0, ConstantsAssumption DEF Types
    <3>3. CASE i >= scanBlockIndex
      <4>1. i \in Pending(w)'
        BY <1>3, <2>1, <2>4, <3>1, <3>3 DEF Pending
      <4> QED BY <1>3, <2>1, <2>4, <4>1 DEF Safe, WithWorker
    <3>4. CASE i < scanBlockIndex
      <4>1. i < StartIndex
        BY <1>0, <1>4, <3>2, <3>4 DEF IndexInv
      <4> QED BY <4>1 DEF Safe
    <3> QED BY <1>4, <3>2, <3>3, <3>4
  <2>5. CASE v = w /\ UpdateEOSPushEvent(w)
    <3>1. PICK j \in Nat : /\ j \in PushIndexes[h] /\ j >= workers[w].next
                           /\ \A l \in PushIndexes[h] : l < j => l < workers[w].next
                           /\ sent' = Append(sent, EventOf(h, j, h))
                           /\ workers[w].pc = "report"
                           /\ WorkerSteps(w, "report", j + 1)
      BY <1>0, <2>1, <2>5, ReportFacts
    <3>2. workers'[w].pc = "report" /\ workers'[w].next = j + 1
      BY <1>0, <3>1, WorkerStepFacts DEF Types, WorkerPcs
    <3>3. workers[w].next \in Nat /\ i >= workers[w].next
      BY <1>0, <2>1, <2>5, <3>1, WorkerTypes DEF Pending
    <3>4. CASE i = j
      <4>1. DOMAIN sent' = 1..(Len(sent) + 1) /\ sent'[Len(sent) + 1].TxID = <<h, j>>
        BY <1>0, <3>1, SendFacts
      <4>2. Len(sent) + 1 \in DOMAIN sent' /\ Len(sent) + 1 > taken
        BY <1>0, <4>1, SentTypes
      <4>3. Queued(h, i)'
        BY <1>1, <3>4, <4>1, <4>2 DEF Queued
      <4> QED BY <4>3 DEF Safe
    <3>5. CASE i # j
      <4>1. i >= j + 1
        BY <1>4, <3>1, <3>3, <3>5
      <4>2. i \in Pending(w)'
        BY <1>3, <2>1, <2>5, <3>2, <4>1 DEF Pending
      <4> QED BY <1>3, <2>1, <2>5, <4>2 DEF Safe, WithWorker
    <3> QED BY <3>4, <3>5
  <2>6. CASE v = w /\ ReleaseSlot(w)
    BY <2>1, <2>6 DEF ReleaseSlot
  <2> QED BY <2>2, <2>3, <2>4, <2>5, <2>6 DEF Worker
<1> QED BY <1>5, <1>6, <1>7 DEF Safe

(* Every step keeps every receipt safe.                                    *)
LEMMA SafeStep ==
  ASSUME WatcherInv, [Next]_vars, NEW h \in Heights, NEW i \in PushIndexes[h], Safe(h, i)
  PROVE  Safe(h, i)'
<1>0. Types /\ ScannerBounds
  BY DEF WatcherInv, ScanInv
<1>1. ASSUME NEW w \in DOMAIN workers, Worker(w) PROVE Safe(h, i)'
  BY <1>1, SafeWorker
<1>2. CASE SpawnWorker
  <2>1. UNCHANGED <<sent, taken, delivered, lost>>
    BY <1>2 DEF SpawnWorker, channel, history
  <2>2. /\ DOMAIN workers = 1..Len(workers) /\ DOMAIN workers' = 1..Len(workers) + 1
        /\ Len(workers) \in Nat
        /\ \A v \in DOMAIN workers : workers'[v] = workers[v]
    BY <1>0, <1>2 DEF SpawnWorker, Types
  <2>3. \A v \in DOMAIN workers : v \in DOMAIN workers' /\ Pending(v)' = Pending(v)
    BY <2>2 DEF Pending
  <2> QED BY <2>1, <2>2, <2>3 DEF Safe, Queued, WithWorker
<1>3. CASE Receive
  <2>1. /\ taken' = taken + 1 /\ sent' = sent /\ workers' = workers /\ lost' = lost
        /\ delivered' = delivered \cup {sent[taken + 1].TxID}
    BY <1>3 DEF Receive, history
  <2>2. CASE Queued(h, i)
    <3>1. PICK k \in DOMAIN sent : k > taken /\ sent[k].TxID = <<h, i>>
      BY <2>2 DEF Queued
    <3>2. k \in Nat /\ taken \in Nat
      BY <1>0, SentTypes
    <3>3. CASE k = taken + 1
      BY <2>1, <3>1, <3>3 DEF Safe
    <3>4. CASE k > taken + 1
      BY <2>1, <3>1, <3>4 DEF Safe, Queued
    <3> QED BY <3>1, <3>2, <3>3, <3>4
  <2>3. CASE ~ Queued(h, i)
    BY <2>1, <2>3 DEF Safe, WithWorker, Pending
  <2> QED BY <2>2, <2>3
<1>4. CASE Crash
  <2>1. lost' = lost \cup PendingTx \cup QueuedTx /\ delivered' = delivered
    BY <1>4 DEF Crash
  <2>2. <<h, i>> \in delivered \cup QueuedTx \cup PendingTx \cup lost \/ i < StartIndex
    BY <1>0, SafeIsCovered
  <2> QED BY <2>1, <2>2 DEF Safe
<1>5. ASSUME \/ AdvanceChain \/ StartWatch \/ (\E n \in 0..lib : UpdateInfo(n)) \/ CaughtUp
             \/ SlotFree \/ PutHeight \/ AdvanceScan \/ UNCHANGED vars
      PROVE  Safe(h, i)'
  <2>1. UNCHANGED <<workers, sent, taken, delivered, lost>>
    BY <1>5 DEF AdvanceChain, StartWatch, UpdateInfo, CaughtUp, SlotFree, PutHeight,
       PutHeightWith, AdvanceScan, AdvanceScanWith, vars, channel, history
  <2> QED BY <2>1 DEF Safe, Queued, WithWorker, Pending
<1> QED
  BY <1>1, <1>2, <1>3, <1>4, <1>5 DEF Next, Scanner

LEMMA ReceivedDeliveredStep ==
  WatcherInv /\ ReceivedDelivered /\ [Next]_vars => ReceivedDelivered'
<1> SUFFICES ASSUME WatcherInv, ReceivedDelivered, [Next]_vars PROVE ReceivedDelivered'
  OBVIOUS
<1>0. Types
  BY DEF WatcherInv, ScanInv
<1>1. DOMAIN sent = 1..Len(sent) /\ Len(sent) \in Nat /\ taken \in Nat /\ taken <= Len(sent)
  BY <1>0, SentTypes
<1>2. ASSUME NEW w \in DOMAIN workers, UpdateEOSPushEvent(w) PROVE ReceivedDelivered'
  <2>1. PICK i \in Nat : sent' = Append(sent, EventOf(workers[w].height, i, workers[w].height))
    BY <1>0, <1>2, ReportFacts
  <2>2. DOMAIN sent' = 1..(Len(sent) + 1) /\ \A k \in DOMAIN sent : sent'[k] = sent[k]
    BY <1>0, <2>1, SendFacts
  <2>3. taken' = taken /\ delivered' = delivered
    BY <1>2, WorkerFrame DEF Worker
  <2>4. \A k \in DOMAIN sent' : k <= taken => k \in DOMAIN sent
    BY <1>1, <2>2
  <2> QED BY <2>2, <2>3, <2>4 DEF ReceivedDelivered
<1>3. CASE Receive
  <2>1. /\ taken' = taken + 1 /\ sent' = sent
        /\ delivered' = delivered \cup {sent[taken + 1].TxID}
    BY <1>3 DEF Receive
  <2>2. \A k \in DOMAIN sent : k <= taken + 1 => k <= taken \/ k = taken + 1
    BY <1>1
  <2> QED BY <2>1, <2>2 DEF ReceivedDelivered
<1>4. CASE Crash
  BY <1>4 DEF Crash, ReceivedDelivered
<1>5. CASE UNCHANGED <<sent, taken, delivered>>
  BY <1>5 DEF ReceivedDelivered
<1>6. ASSUME NEW w \in DOMAIN workers, AcquireSlot(w) \/ FetchBlock(w) \/ ReleaseSlot(w)
      PROVE  UNCHANGED <<sent, taken, delivered>>
  BY <1>6 DEF AcquireSlot, FetchBlock, ReleaseSlot, channel
<1>7. ASSUME \/ AdvanceChain \/ StartWatch \/ (\E n \in 0..lib : UpdateInfo(n)) \/ CaughtUp
             \/ SlotFree \/ PutHeight \/ SpawnWorker \/ AdvanceScan \/ UNCHANGED vars
      PROVE  UNCHANGED <<sent, taken, delivered>>
  BY <1>7 DEF AdvanceChain, StartWatch, UpdateInfo, CaughtUp, SlotFree, PutHeight, PutHeightWith,
     SpawnWorker, AdvanceScan, AdvanceScanWith, vars, channel
<1> QED
  BY <1>2, <1>3, <1>4, <1>5, <1>6, <1>7 DEF Next, Scanner, Worker

LEMMA DoneAreFinishedStep ==
  WatcherInv /\ DoneAreFinished /\ [Next]_vars => DoneAreFinished'
<1> SUFFICES ASSUME WatcherInv, DoneAreFinished, [Next]_vars PROVE DoneAreFinished'
  OBVIOUS
<1>0. Types /\ workers \in Seq(Workers)
  BY DEF WatcherInv, ScanInv, Types
<1>1. ASSUME NEW w \in DOMAIN workers, Worker(w) PROVE DoneAreFinished'
  <2>1. PICK p \in WorkerPcs, n \in Nat : WorkerSteps(w, p, n)
    BY <1>0, <1>1, WorkerIsStep
  <2>2. /\ DOMAIN workers' = DOMAIN workers
        /\ \A v \in DOMAIN workers : /\ workers'[v].height = workers[v].height
                                     /\ v # w => workers'[v] = workers[v]
    BY <1>0, <2>1, WorkerStepFacts
  <2>3. workers[w] \in Workers
    BY <1>0
  <2>4. CASE ReleaseSlot(w)
    <3>1. Pending(w) = {} /\ workers[w].pc = "report" /\ workers'[w].next = workers[w].next
      BY <1>0, <2>3, <2>4 DEF ReleaseSlot, Workers
    <3>2. workers[w].next \in Nat /\ PushIndexes[workers[w].height] \subseteq Nat
      BY <1>0, WorkerTypes
    <3>3. \A j \in PushIndexes[workers[w].height] : j < workers[w].next
      BY <3>1, <3>2 DEF Pending
    <3> QED BY <2>2, <3>1, <3>3 DEF DoneAreFinished
  <2>5. CASE AcquireSlot(w) \/ FetchBlock(w) \/ UpdateEOSPushEvent(w)
    <3>1. CASE AcquireSlot(w)
      <4>1. workers'[w].pc = "fetch"
        BY <1>0, <2>3, <3>1 DEF AcquireSlot, Workers
      <4> QED BY <2>2, <4>1 DEF DoneAreFinished
    <3>2. CASE FetchBlock(w)
      <4>1. workers'[w].pc = "report"
        BY <1>0, <2>3, <3>2 DEF FetchBlock, Workers
      <4> QED BY <2>2, <4>1 DEF DoneAreFinished
    <3>3. CASE UpdateEOSPushEvent(w)
      <4>1. PICK i \in Nat : WorkerSteps(w, "report", i + 1)
        BY <1>0, <3>3, ReportFacts
      <4>2. workers'[w].pc = "report"
        BY <1>0, <4>1, WorkerStepFacts DEF WorkerPcs
      <4> QED BY <2>2, <4>2 DEF DoneAreFinished
    <3> QED BY <2>5, <3>1, <3>2, <3>3
  <2> QED BY <1>1, <2>4, <2>5 DEF Worker
<1>2. CASE SpawnWorker
  <2>1. /\ DOMAIN workers = 1..Len(workers) /\ DOMAIN workers' = 1..Len(workers) + 1
        /\ Len(workers) \in Nat
        /\ \A v \in DOMAIN workers : workers'[v] = workers[v]
        /\ workers'[Len(workers) + 1] = NewWorker
    BY <1>0, <1>2 DEF SpawnWorker
  <2>2. NewWorker.pc = "start"
    BY DEF NewWorker
  <2>3. \A v \in DOMAIN workers' : v \in DOMAIN workers \/ v = Len(workers) + 1
    BY <2>1
  <2> QED BY <2>1, <2>2, <2>3 DEF DoneAreFinished
<1>3. CASE workers' = workers \/ workers' = <<>>
  BY <1>3 DEF DoneAreFinished
<1>4. ASSUME \/ AdvanceChain \/ StartWatch \/ (\E n \in 0..lib : UpdateInfo(n)) \/ CaughtUp
             \/ SlotFree \/ PutHeight \/ AdvanceScan \/ Receive \/ Crash \/ UNCHANGED vars
      PROVE  workers' = workers \/ workers' = <<>>
  BY <1>4 DEF AdvanceChain, StartWatch, UpdateInfo, CaughtUp, SlotFree, PutHeight, PutHeightWith,
     AdvanceScan, AdvanceScanWith, Receive, Crash, vars
<1> QED
  BY <1>1, <1>2, <1>3, <1>4 DEF Next, Scanner

(* The blocks between the run's first and the scanner have workers.        *)
LEMMA ScannedHaveWorkers ==
  ASSUME WatcherInv, pc # "down", NEW h \in Nat, first <= h, h < ScanBlockHeight
  PROVE  \E w \in DOMAIN workers : workers[w].height = h
<1>0. Types /\ ScanIsContiguous
  BY DEF WatcherInv, ScanInv
<1>1. /\ DOMAIN workers = 1..Len(workers) /\ Len(workers) \in Nat
      /\ first \in Nat /\ ScanBlockHeight \in Nat
  <2>1. workers \in Seq(Workers) /\ first \in Nat /\ ScanBlockHeight \in Nat
    BY <1>0 DEF Types
  <2> HIDE DEF Workers
  <2> QED BY <2>1
<1>2. Len(workers) >= ScanBlockHeight - first
  BY <1>0, <1>1 DEF ScanIsContiguous, Spawned
<1>3. h - first + 1 \in DOMAIN workers
  BY <1>1, <1>2
<1>4. workers[h - first + 1].height = h
  <2>1. workers[h - first + 1].height = first + (h - first + 1) - 1
    BY <1>0, <1>3 DEF ScanIsContiguous
  <2> QED BY <1>1, <2>1
<1> QED BY <1>3, <1>4

LEMMA BehindIsSafeStep ==
  WatcherInv /\ CrashInv /\ [Next]_vars => BehindIsSafe'
<1> SUFFICES ASSUME WatcherInv, CrashInv, [Next]_vars,
                    NEW h \in Heights, Behind(h)', NEW i \in PushIndexes[h]
             PROVE  Safe(h, i)'
  BY DEF BehindIsSafe
<1>0. Types /\ ScannerBounds /\ ReceivedDelivered /\ DoneAreFinished /\ BehindIsSafe
  BY DEF WatcherInv, ScanInv, CrashInv
<1>1. h \in Nat /\ db \in Nat /\ first \in Nat /\ From \in Nat
  BY <1>0, ConstantsAssumption DEF Types, Heights, From
<1>2. SUFFICES Safe(h, i)
  BY SafeStep
<1>3. CASE Behind(h)
  BY <1>0, <1>3 DEF BehindIsSafe
<1>4. CASE PutHeight
  <2>1. db' \in {ScanBlockHeight, db} /\ first' = first /\ pc = "put"
    BY <1>4 DEF PutHeight, PutHeightWith, history
  <2>2. CASE ~ Behind(h)
    <3>1. first <= h /\ h < ScanBlockHeight /\ pc # "down"
      BY <1>1, <2>1, <2>2 DEF Behind, From
    <3>2. PICK w \in DOMAIN workers : workers[w].height = h
      BY <1>1, <3>1, ScannedHaveWorkers
    <3> QED BY <1>0, <3>2, WorkerIsSafe
  <2> QED BY <1>3, <2>2
<1>5. CASE StartWatch
  <2>1. PICK stored \in StoredHeight : first' = Larger(stored, From)
    BY <1>5 DEF StartWatch
  <2>2. stored \in {0, db} /\ db' = db
    BY <1>5 DEF StoredHeight, StartWatch
  <2>3. Behind(h)
    BY <1>1, <2>1, <2>2 DEF Behind, Larger, From
  <2> QED BY <1>3, <2>3
<1>6. CASE Crash
  <2>1. Behind(h)
    BY <1>6 DEF Crash, Behind, From
  <2> QED BY <1>3, <2>1
<1>7. ASSUME UNCHANGED <<db, first>>, pc = "down" => pc' = "down" PROVE Safe(h, i)
  <2>1. Behind(h)
    BY <1>7 DEF Behind, From
  <2> QED BY <1>3, <2>1
<1>8. ASSUME NEW w \in DOMAIN workers, Worker(w)
      PROVE  UNCHANGED <<db, first>> /\ (pc = "down" => pc' = "down")
  BY <1>8, WorkerFrame DEF scanner, history
<1>9. ASSUME \/ AdvanceChain \/ (\E n \in 0..lib : UpdateInfo(n)) \/ CaughtUp \/ SlotFree
             \/ SpawnWorker \/ AdvanceScan \/ Receive \/ UNCHANGED vars
      PROVE  UNCHANGED <<db, first>> /\ (pc = "down" => pc' = "down")
  BY <1>9 DEF AdvanceChain, UpdateInfo, CaughtUp, SlotFree, SpawnWorker, AdvanceScan,
     AdvanceScanWith, Receive, vars, scanner, history
<1> QED
  BY <1>4, <1>5, <1>6, <1>7, <1>8, <1>9 DEF Next, Scanner

LEMMA CoveredFollows == WatcherInv /\ CrashInv => CoveredBelowCursor
<1> SUFFICES ASSUME WatcherInv, CrashInv, NEW h \in From .. db - 1, h \in Heights,
                    NEW i \in PushIndexes[h]
             PROVE  \/ <<h, i>> \in delivered \cup QueuedTx \cup PendingTx \cup lost
                    \/ i < StartIndex
  BY DEF CoveredBelowCursor
<1>1. Types /\ BehindIsSafe
  BY DEF WatcherInv, ScanInv, CrashInv
<1>2. From \in Nat /\ db \in Nat
  BY <1>1, ConstantsAssumption DEF From, Types
<1>3. From <= h /\ h < db
  BY <1>2
<1>4. Safe(h, i)
  BY <1>1, <1>3 DEF BehindIsSafe, Behind
<1> QED BY <1>1, <1>4, SafeIsCovered

(***************************************************************************)
(* Whatever crashes and failed writes happen, no event below the persisted *)
(* height is forgotten but those a crash caught on their way: StartWatch   *)
(* persists a height only when every block below it has a worker.          *)
(***************************************************************************)
THEOREM CoveredCorrect == Spec => []CoveredBelowCursor
<1>1. WatcherInv /\ CrashInv /\ [Next]_vars => CrashInv'
  BY ReceivedDeliveredStep, DoneAreFinishedStep, BehindIsSafeStep DEF CrashInv
<1> QED
  BY <1>1, WatcherInvInit, WatcherInvStep, CrashInvInit, CoveredFollows, PTL DEF Spec

-----------------------------------------------------------------------------
(* A run repeats only the block it began at.                               *)

(* With a reliable store, everything received is at most at the persisted  *)
(* height, and so is every block that has a worker.                        *)
ReplayInv ==
  /\ \A t \in delivered : t[1] <= db
  /\ pc # "down" => db <= ScanBlockHeight /\ \A t \in before : t[1] <= first
  /\ \A w \in DOMAIN workers : workers[w].height <= db
  /\ pc = "spawn" => db = ScanBlockHeight

LEMMA ReplayStep ==
  ASSUME ~ StoreMayFail, WatcherInv, ReplayInv, [Next]_vars
  PROVE  ReplayInv'
<1>0. Types /\ ScannerBounds /\ ScanIsContiguous /\ SentByWorkers
  BY DEF WatcherInv, ScanInv, FeedInv
<1>1. /\ DOMAIN workers = 1..Len(workers) /\ Len(workers) \in Nat
      /\ first \in Nat /\ ScanBlockHeight \in Nat /\ db \in Nat
      /\ From \in Nat
  <2>1. workers \in Seq(Workers) /\ first \in Nat /\ ScanBlockHeight \in Nat /\ db \in Nat
    BY <1>0 DEF Types
  <2> HIDE DEF Workers
  <2> QED BY <2>1, ConstantsAssumption DEF From
<1>a. \A t \in delivered : t[1] \in Nat
  <2>1. \A t \in TxIDs : t[1] \in Nat
    BY ConstantsAssumption DEF TxIDs, Heights
  <2> QED BY <1>0, <2>1 DEF Types
<1>2. ASSUME NEW w \in DOMAIN workers, Worker(w) PROVE ReplayInv'
  <2>1. UNCHANGED <<db, pc, first, ScanBlockHeight, delivered, before>>
    BY <1>2, WorkerFrame DEF scanner, history
  <2>2. PICK p \in WorkerPcs, n \in Nat : WorkerSteps(w, p, n)
    BY <1>0, <1>2, WorkerIsStep
  <2>3. /\ DOMAIN workers' = DOMAIN workers
        /\ \A v \in DOMAIN workers : workers'[v].height = workers[v].height
    BY <1>0, <2>2, WorkerStepFacts DEF Types
  <2> QED BY <2>1, <2>3 DEF ReplayInv
<1>3. CASE StartWatch
  <2>1. /\ ScanBlockHeight' = first'
        /\ first' = Larger(db, From) /\ before' = delivered /\ delivered' = delivered
        /\ db' = db /\ workers' = workers /\ pc' = "info" /\ pc = "down"
    BY <1>3 DEF StartWatch, StoredHeight
  <2>2. db <= first' /\ first' \in Nat
    BY <1>1, <2>1 DEF Larger
  <2>3. \A t \in delivered : t[1] \in Nat /\ t[1] <= db
    BY <1>a DEF ReplayInv
  <2>4. \A t \in delivered : t[1] <= first'
    BY <1>1, <2>2, <2>3
  <2> QED BY <2>1, <2>2, <2>4 DEF ReplayInv
<1>4. CASE PutHeight
  <2>1. /\ db' = ScanBlockHeight /\ pc = "put" /\ pc' = "spawn"
        /\ UNCHANGED <<workers, delivered, before, first, ScanBlockHeight>>
    BY <1>4 DEF PutHeight, PutHeightWith, history
  <2>2. Len(workers) = ScanBlockHeight - first
    BY <1>0, <1>1, <2>1 DEF ScanIsContiguous, Spawned
  <2>3. \A w \in DOMAIN workers : workers[w].height = first + w - 1
    BY <1>0, <2>1 DEF ScanIsContiguous
  <2>4. \A w \in DOMAIN workers : workers[w].height <= ScanBlockHeight
    BY <1>1, <2>2, <2>3
  <2>5. \A t \in delivered : t[1] <= ScanBlockHeight
    <3>1. db <= ScanBlockHeight /\ \A t \in delivered : t[1] <= db
      BY <2>1 DEF ReplayInv
    <3> QED BY <1>1, <1>a, <3>1
  <2>6. \A w \in DOMAIN workers' : workers'[w].height <= db'
    BY <2>1, <2>4
  <2>7. \A t \in delivered' : t[1] <= db'
    BY <2>1, <2>5
  <2>8. /\ db' = ScanBlockHeight' /\ db' <= ScanBlockHeight'
        /\ \A t \in before' : t[1] <= first'
    BY <1>1, <2>1 DEF ReplayInv
  <2> QED BY <2>6, <2>7, <2>8 DEF ReplayInv
<1>5. CASE SpawnWorker
  <2>1. /\ pc = "spawn" /\ pc' = "advance" /\ db = ScanBlockHeight
        /\ UNCHANGED <<db, delivered, before, first, ScanBlockHeight>>
    BY <1>5 DEF SpawnWorker, history, ReplayInv
  <2>2. /\ DOMAIN workers' = 1..Len(workers) + 1
        /\ \A v \in DOMAIN workers : workers'[v] = workers[v]
        /\ workers'[Len(workers) + 1] = NewWorker
    BY <1>0, <1>5 DEF SpawnWorker, Types
  <2>3. NewWorker.height = ScanBlockHeight
    BY DEF NewWorker
  <2>4. ASSUME NEW v \in DOMAIN workers' PROVE workers'[v].height <= db
    <3>1. CASE v \in DOMAIN workers
      BY <2>2, <3>1 DEF ReplayInv
    <3>2. CASE v = Len(workers) + 1
      BY <1>1, <2>1, <2>2, <2>3, <3>2
    <3> QED BY <1>1, <2>2, <3>1, <3>2
  <2>5. \A v \in DOMAIN workers' : workers'[v].height <= db'
    BY <2>1, <2>4
  <2>6. /\ \A t \in delivered' : t[1] <= db'
        /\ db' = ScanBlockHeight'
        /\ \A t \in before' : t[1] <= first'
    BY <2>1 DEF ReplayInv
  <2>7. db' <= ScanBlockHeight'
    BY <1>1, <2>1
  <2> QED BY <2>1, <2>5, <2>6, <2>7 DEF ReplayInv
<1>6. CASE AdvanceScan
  <2>1. /\ pc = "advance" /\ pc' = "loop" /\ ScanBlockHeight' = ScanBlockHeight + 1
        /\ UNCHANGED <<db, delivered, before, first, workers>>
    BY <1>6 DEF AdvanceScan, AdvanceScanWith, history
  <2> QED BY <1>1, <2>1 DEF ReplayInv
<1>7. CASE Receive
  <2>1. /\ delivered' = delivered \cup {sent[taken + 1].TxID} /\ taken + 1 \in DOMAIN sent
        /\ UNCHANGED <<db, pc, before, first, workers, ScanBlockHeight>>
    BY <1>0, <1>7, SentTypes DEF Receive, scanner, history
  <2>2. sent[taken + 1].TxID[1] <= db
    BY <1>0, <2>1 DEF SentByWorkers, ReplayInv
  <2>3. \A t \in delivered' : t[1] <= db'
    BY <2>1, <2>2 DEF ReplayInv
  <2>4. /\ pc' # "down" => db' <= ScanBlockHeight' /\ \A t \in before' : t[1] <= first'
        /\ pc' = "spawn" => db' = ScanBlockHeight'
    BY <2>1 DEF ReplayInv
  <2>5. \A w \in DOMAIN workers' : workers'[w].height <= db'
    BY <2>1 DEF ReplayInv
  <2> QED BY <2>3, <2>4, <2>5 DEF ReplayInv
<1>8. CASE Crash
  BY <1>8 DEF Crash, ReplayInv
<1>9. CASE \/ AdvanceChain \/ (\E n \in 0..lib : UpdateInfo(n)) \/ CaughtUp \/ SlotFree
           \/ UNCHANGED vars
  <2>1. /\ UNCHANGED <<db, delivered, before, first, workers, ScanBlockHeight>>
        /\ pc = "down" => pc' = "down"
        /\ pc' = "spawn" => pc = "spawn"
    BY <1>9 DEF AdvanceChain, UpdateInfo, CaughtUp, SlotFree, vars, scanner, history
  <2> QED BY <2>1 DEF ReplayInv
<1> QED
  BY <1>2, <1>3, <1>4, <1>5, <1>6, <1>7, <1>8, <1>9 DEF Next, Scanner

LEMMA ReplayFollows == WatcherInv /\ ReplayInv => ReplayOneBlock
<1> SUFFICES ASSUME WatcherInv, ReplayInv, NEW k \in DOMAIN sent, sent[k].TxID \in before
             PROVE  sent[k].TxID[1] = first
  BY DEF ReplayOneBlock
<1>0. Types /\ ScannerBounds /\ ScanIsContiguous /\ SentByWorkers
  BY DEF WatcherInv, ScanInv, FeedInv
<1>1. pc # "down"
  BY <1>0 DEF ScannerBounds
<1>2. PICK w \in DOMAIN workers : sent[k].TxID[1] = workers[w].height
  BY <1>0 DEF SentByWorkers
<1>3. sent[k].TxID[1] <= first
  BY <1>1 DEF ReplayInv
<1>4. workers[w].height = first + w - 1 /\ w \in Nat /\ w >= 1 /\ first \in Nat
  BY <1>0, <1>1, WorkerTypes DEF ScanIsContiguous, Types
<1> QED BY <1>2, <1>3, <1>4

(***************************************************************************)
(* With a leveldb that does not fail, a run sends again only events of the *)
(* block at which it began, the persisted height.                          *)
(***************************************************************************)
THEOREM ReplayCorrect == Spec => []ReplayOneBlock
<1> DEFINE Inv == WatcherInv /\ (~ StoreMayFail => ReplayInv)
<1>1. Init => ReplayInv
  BY DEF Init, ReplayInv
<1>2. Init => Inv
  BY <1>1, WatcherInvInit
<1>3. Inv /\ [Next]_vars => Inv'
  BY WatcherInvStep, ReplayStep
<1>4. Inv => ReplayOneBlock
  BY ReplayFollows DEF ReplayOneBlock
<1> HIDE DEF Inv
<1> QED
  BY <1>2, <1>3, <1>4, PTL DEF Spec
=============================================================================
