--------------------------- MODULE EOSWatcherMain ---------------------------
(***************************************************************************)
(* The watcher of eoswatcher/eoswatchermain.go: the block scan whose       *)
(* events carry the number of the block they were found in.                *)
(***************************************************************************)
EXTENDS BlockScan

(* UpdateEOSPushEvent stamps the event with scanBlockResp.BlockNum.        *)
UpdateEOSPushEventStale(w) == ReportEvent(w, ScanBlockHeight) \* mutation: the scanner's height

UpdateEOSPushEvent(w) == ReportEvent(w, workers[w].height)

Scanner ==
  \/ \E n \in 0..lib : UpdateInfo(n)
  \/ CaughtUp
  \/ SlotFree
  \/ PutHeight
  \/ SpawnWorker
  \/ AdvanceScan

Worker(w) ==
  \/ AcquireSlot(w)
  \/ FetchBlock(w)
  \/ UpdateEOSPushEvent(w)
  \/ ReleaseSlot(w)

Next ==
  \/ AdvanceChain
  \/ StartWatch
  \/ Scanner
  \/ \E w \in DOMAIN workers : Worker(w)
  \/ Receive
  \/ Crash

Spec == Init /\ [][Next]_vars

(***************************************************************************)
(* Fairness.  Goroutines that can run do run, the supervisor restarts a    *)
(* dead process, the gateway reads its channel, the node answers, and,     *)
(* asked again and again, the node at times answers with the chain's       *)
(* latest irreversible block.  Blocks need not become irreversible and     *)
(* crashes need not happen.                                                *)
(***************************************************************************)
Fairness ==
  /\ WF_vars(StartWatch)
  /\ WF_vars(Scanner)
  /\ SF_vars(UpdateInfo(lib))
  /\ \A w \in Heights : WF_vars(w \in DOMAIN workers /\ Worker(w))
  /\ WF_vars(Receive)

FairSpec == Spec /\ Fairness

-----------------------------------------------------------------------------
(* The watcher implements the event feed.                                  *)
ImplementsFeed == Feed!FeedSpec

(***************************************************************************)
(* Every event of a block that becomes irreversible and has a successor    *)
(* reaches the gateway, unless a crash caught it on its way or the caller  *)
(* asked to skip it.                                                       *)
(***************************************************************************)
EveryEventArrives ==
  \A h \in From .. MaxHeight - 1 : \A i \in PushIndexes[h] :
    lib > h ~> (<<h, i>> \in delivered \cup lost \/ i < StartIndex)
=============================================================================
