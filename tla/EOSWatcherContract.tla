------------------------- MODULE EOSWatcherContract -------------------------
(***************************************************************************)
(* The watcher of eoswatcher/eoswatchercontract.go: the scan of ActionScan *)
(* with setters that register the new action types, events that carry the  *)
(* number of their block.                                                  *)
(***************************************************************************)
EXTENDS ActionScan

UpdateActionAccount(a) ==
  Call(<<Assign("ActionAccount", a), Register("ActionNameDestroy", "Solvent"),
         Register("ActionNameCreate", "Issue")>>)

UpdateActionNameDestroyOnly(n) == \* mutation: the type is not registered
  Call(<<Assign("ActionNameDestroy", n)>>)

UpdateActionNameDestroy(n) ==
  Call(<<Assign("ActionNameDestroy", n), Register("ActionNameDestroy", "Solvent")>>)

UpdateActionNameCreate(n) ==
  Call(<<Assign("ActionNameCreate", n), Register("ActionNameCreate", "Issue")>>)

Setter ==
  \/ \E a \in Accounts : UpdateActionAccount(a)
  \/ \E n \in Names : UpdateActionNameDestroy(n) \/ UpdateActionNameCreate(n)

UpdateEOSPushEvent(w) ==
  \/ Unpack(w)
  \/ CompareAccount(w)
  \/ CompareName(w)
  \/ CastFails(w)
  \/ Report(w, workers[w].height)

GetEventByTxid == AskEvent \/ AskAccount \/ AskDestroy \/ AskCreate

Next ==
  \/ Outside
  \/ ScanLoop
  \/ SetterStep
  \/ Setter
  \/ \E w \in DOMAIN workers : UpdateEOSPushEvent(w) \/ RequestBlock(w) \/ FinishBlock(w)
  \/ GetEventByTxid
  \/ Restart

Spec == WatchInit /\ [][Next]_allVars
=============================================================================
