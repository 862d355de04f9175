------------------------ MODULE FirstWatcherActions ------------------------
(***************************************************************************)
(* The first watcher, eoswatcher/eoswatcher.go, under its setters: they    *)
(* assign the field and register nothing, so action types are known only   *)
(* for the constructor's arguments.  Its destroy actions carry a number    *)
(* instead of a quantity, so every one of them is of the token.            *)
(***************************************************************************)
EXTENDS ActionScan

UpdateActionAccount(a) == Call(<<Assign("ActionAccount", a)>>)

UpdateActionNameDestroy(n) == Call(<<Assign("ActionNameDestroy", n)>>)

UpdateActionNameCreate(n) == Call(<<Assign("ActionNameCreate", n)>>)

Setter ==
  \/ \E a \in Accounts : UpdateActionAccount(a)
  \/ \E n \in Names : UpdateActionNameDestroy(n) \/ UpdateActionNameCreate(n)

(* Events carry the height the scanner has reached (see EOSWatcher).       *)
UpdateEOSPushEvent(w) ==
  \/ Unpack(w)
  \/ CompareAccount(w)
  \/ CompareName(w)
  \/ CastFails(w)
  \/ \E n \in workers[w].height .. ScanBlockHeight : Report(w, n)

(* The look-up decodes JSON by field names and needs no registered type.   *)
GetEventByTxid == AskEvent \/ AskAccount \/ AskDestroy \/ AskCreate

Next ==
  \/ Outside
  \/ ScanLoop
  \/ SetterStep
  \/ Setter
  \/ \E w \in DOMAIN workers : UpdateEOSPushEvent(w) \/ RequestBlock(w) \/ FinishBlock(w)
  \/ GetEventByTxid
  \/ Restart

Spec == WatchInit /\ [][Next]_allVars

(***************************************************************************)
(* Whatever the setters did, only the constructor's destroy action is ever *)
(* reported, and that one only while it is the watched pair, or a setter   *)
(* ran between the comparisons: a pair set later is never reported.        *)
(***************************************************************************)
OnlyFirstReported == \A k \in DOMAIN sent : PairOf(sent[k].TxID) = DestroyPair(First)
=============================================================================
