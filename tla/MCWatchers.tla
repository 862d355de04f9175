----------------------------- MODULE MCWatchers -----------------------------
(***************************************************************************)
(* The two watchers of one contract, one of them in a behaviour: the       *)
(* contract watcher and the first watcher under their setters, and the     *)
(* first watcher's scan with two slots, where it decides nothing.          *)
(***************************************************************************)
EXTENDS ActionScan, TLC

VARIABLE watcher

Contract == INSTANCE EOSWatcherContract WITH MayAsk <- FALSE
AskedContract == INSTANCE EOSWatcherContract WITH MaxChanges <- 1, MaxCrashes <- 0
FirstActions == INSTANCE FirstWatcherActions WITH MaxChanges <- 1, MaxCrashes <- 0

ScanIndexes == [h \in 1..3 |-> CASE h = 1 -> {0, 2} [] h = 2 -> {1} [] OTHER -> {0}]

FirstScan ==
  INSTANCE EOSWatcher WITH
    MaxHeight <- 3, PushIndexes <- ScanIndexes, ChannelCount <- 2, Lag <- 1,
    StoreMayFail <- FALSE, MaxCrashes <- 1

MCInit ==
  /\ watcher \in {"contract", "askedContract", "first", "firstScan"}
  /\ WatchInit

MCNext ==
  /\ UNCHANGED watcher
  /\ \/ watcher = "contract" /\ Contract!Next
     \/ watcher = "askedContract" /\ AskedContract!Next
     \/ watcher = "first" /\ FirstActions!Next
     \/ watcher = "firstScan" /\ FirstScan!Next /\ UNCHANGED watching

MCSpec == MCInit /\ [][MCNext]_<<allVars, watcher>>

-----------------------------------------------------------------------------
(***************************************************************************)
(* A worker may compare the account before a setter and the name after     *)
(* another, but what it reports was the destroy action of a configuration  *)
(* of this process; of the first watcher, whose setters register nothing,  *)
(* it is the constructor's.                                                *)
(***************************************************************************)
ReportedWasWatched ==
  /\ watcher # "firstScan" => WatchTypeOK /\ ReportedWasConfigured
  /\ watcher = "first" => FirstActions!OnlyFirstReported

IsContract == watcher \in {"contract", "askedContract"}

(* Once a setter of the contract watcher has returned, the watched destroy *)
(* action can be decoded.                                                  *)
ContractSettled == IsContract => SettledIsRegistered

(* Without a setter between a worker's comparisons the contract watcher's  *)
(* decision is exactly the one that the watched pair calls for.            *)
CalmDecision == [][IsContract => DecidesCalmly]_<<allVars, watcher>>

(* A look-up that no setter disturbs confirms what the scan has reported.  *)
LookupConfirms == watcher # "firstScan" => LookupConfirmsScan

(* The first watcher's scan implements the event feed, whatever block      *)
(* number its events carry.                                                *)
Scanning == watcher = "firstScan"

FirstFeed ==
  INSTANCE EventFeed WITH
    MaxHeight <- 3, PushIndexes <- ScanIndexes,
    final <- IF Scanning THEN lib ELSE 0,
    feed <- IF Scanning THEN [k \in DOMAIN sent |-> sent[k].TxID] ELSE <<>>,
    origin <- IF Scanning THEN first ELSE 0

FirstImplementsFeed == FirstFeed!FeedSpec

-----------------------------------------------------------------------------
MCFirst == [ActionAccount |-> "old", ActionNameDestroy |-> "solvent", ActionNameCreate |-> "issue"]
MCAccounts == {"old", "new"}
MCNames == {"solvent", "issue", "burn"}

(* Block 1 has two receipts, later blocks one.                             *)
MCPushIndexes == [h \in 1..MaxHeight |-> IF h = 1 THEN {0, 1} ELSE {0}]

Act(account, name, ours) == [account |-> account, name |-> name, ours |-> ours]

MCAction ==
  (<<1, 0>> :> Act("old", "burn", TRUE) @@ <<1, 1>> :> Act("old", "solvent", TRUE)
   @@ <<2, 0>> :> Act("old", "issue", FALSE) @@ <<3, 0>> :> Act("new", "solvent", FALSE))
=============================================================================
