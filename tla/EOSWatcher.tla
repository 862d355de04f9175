----------------------------- MODULE EOSWatcher -----------------------------
(***************************************************************************)
(* The first watcher, eoswatcher/eoswatcher.go.  Its StartWatch is that of *)
(* the others; its events carry ew.ScanBlockHeight, the field the scanner  *)
(* is incrementing meanwhile, as their block number.                       *)
(***************************************************************************)
EXTENDS BlockScan

(***************************************************************************)
(* The field is read without synchronisation while the event is built and  *)
(* the event may then wait for room in eventChan: the number is any value  *)
(* the field has had since the worker was started.                         *)
(***************************************************************************)
UpdateEOSPushEventUnordered(w) == \* mutation: receipts in any order
  \E n \in workers[w].height .. ScanBlockHeight : ReportAnyEvent(w, n)

UpdateEOSPushEvent(w) ==
  \E n \in workers[w].height .. ScanBlockHeight : ReportEvent(w, n)

Next ==
  \/ AdvanceChain
  \/ StartWatch
  \/ \E n \in 0..lib : UpdateInfo(n)
  \/ CaughtUp
  \/ SlotFree
  \/ PutHeight
  \/ SpawnWorker
  \/ AdvanceScan
  \/ \E w \in DOMAIN workers :
       \/ AcquireSlot(w)
       \/ FetchBlock(w)
       \/ UpdateEOSPushEvent(w)
       \/ ReleaseSlot(w)
  \/ Receive
  \/ Crash

Spec == Init /\ [][Next]_vars

(* Whatever block number they carry, the events are those of the feed.     *)
ImplementsFeed == Feed!FeedSpec
=============================================================================
