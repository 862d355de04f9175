------------------------------ MODULE EosStore ------------------------------
(***************************************************************************)
(* tools/eosstore: Start runs an EosWatcher, a clean-up goroutine and the  *)
(* consumer of the watcher's two block channels.  A confirmed transfer is  *)
(* pushed to the gateway and then written to ElasticSearch, an unconfirmed *)
(* one is only written.  ElasticSearch, redis and what the gateway took    *)
(* survive a crash.                                                        *)
(***************************************************************************)
EXTENDS EosManager

CONSTANTS
  GateCap,  (* capacity of irTxChanForGate, 1000 in the code                  *)
  EsMayFail (* whether requests to ElasticSearch may fail                     *)

ASSUME StoreAssumption == GateCap \in Nat \ {0} /\ EsMayFail \in BOOLEAN

VARIABLES
  main,     (* where Start stands                                             *)
  cleaner,  (* where the goroutine of ScanIrreversibleOfUnconfirmTx stands    *)
  consumer, (* where the consumer stands: [at, next], with its block in hand  *)
  hand,
  index,    (* the documents of each ElasticSearch index                      *)
  leftover, (* whether the shared bulk still holds an earlier request         *)
  gate,     (* everything pushed on irTxChanForGate in this run               *)
  taken,    (* how much of it the gateway has taken                           *)
  (* history *)
  cut,      (* heights whose processing ended early in this run               *)
  finished, (* heights processed to the end or cut, in this run               *)
  dropped   (* places of "gate" whose document was refused, unnoticed         *)

manager == <<redis, pc, position, block, record>>
storeVars == <<managerVars, main, cleaner, consumer, hand, index, leftover, gate, taken, cut, finished, dropped>>

(* The name written and deleted from, the name the clean-up reads, and one *)
(* for the indices of the months.                                          *)
Written == "eos-tranx-gate-unconfirm"
Scanned == "eos-tranx-unconfirm"
Confirmed == "eos-tranx-gate-YYYYMM"

Doc(h, t) == [height |-> h, tx |-> t.tx, id |-> t.id]

-----------------------------------------------------------------------------
(* Start calls WatchAllBlock and then ScanIrreversibleOfUnconfirmTx; each  *)
(* starts a goroutine and waits on a WaitGroup that the goroutine itself   *)
(* increments: the wait returns only while the goroutine has not run yet,  *)
(* and otherwise for ever, as the goroutine never ends.                    *)
Start ==
  /\ main = "off"
  /\ pc = "down"
  /\ main' = "watchAllBlock"
  /\ pc' = "born"
  /\ UNCHANGED <<chain, redis, position, block, channels, record>>
  /\ UNCHANGED <<cleaner, consumer, hand, index, leftover, gate, taken, cut, finished, dropped>>

WatchAllBlockReturns ==
  /\ main = "watchAllBlock"
  /\ pc = "born"
  /\ main' = "scanUnconfirm"
  /\ cleaner' = "born"
  /\ UNCHANGED <<managerVars, consumer, hand, index, leftover, gate, taken, cut, finished, dropped>>

ScanUnconfirmReturns ==
  /\ main = "scanUnconfirm"
  /\ cleaner = "born"
  /\ main' = "running"
  /\ consumer' = [at |-> "select", next |-> 0]
  /\ UNCHANGED <<managerVars, cleaner, hand, index, leftover, gate, taken, cut, finished, dropped>>

CleanerBegins ==
  /\ cleaner = "born"
  /\ cleaner' = "loop"
  /\ UNCHANGED <<managerVars, main, consumer, hand, index, leftover, gate, taken, cut, finished, dropped>>

(* Deletion is by transaction id, from the index Written.                  *)
DeleteUnconfirmTx(txs) == [index EXCEPT ![Written] = {d \in @ : d.tx \notin txs}]

(* ScanIrreversibleOfUnconfirmTx: the hits come from the index Scanned.     *)
CleanUp ==
  /\ cleaner = "loop"
  /\ \E n \in Answers \cup {0} :
       index' = DeleteUnconfirmTx({d.tx : d \in {hit \in index[Scanned] : n >= hit.height}})
  /\ UNCHANGED <<managerVars, main, cleaner, consumer, hand, leftover, gate, taken, cut, finished, dropped>>

-----------------------------------------------------------------------------
(***************************************************************************)
(* UpdateTxInfo writes the document of a transaction, keyed by its id.     *)
(* Creating the index or its alias may fail before the bulk is touched.    *)
(* A request that fails stays in the bulk, although the server may have    *)
(* carried it out; with a request left over every later call fails.  The   *)
(* response to a request that succeeds is thrown away: the server may have *)
(* refused the document ("refused"), and the caller is told it is written. *)
(***************************************************************************)
Outcomes == {"written", "refused", "failed"}

Upsert(name, doc) ==
  [index EXCEPT ![name] = {d \in @ : d.tx # doc.tx} \cup {doc}]

UpdateTxInfoIgnoringErrors(name, doc, outcome) == \* mutation: a failed request counts as done
  outcome = "written" /\ index' \in {index, Upsert(name, doc)} /\ leftover' = FALSE

UpdateTxInfo(name, doc, outcome) ==
  \/ outcome = "written" /\ ~ leftover /\ index' = Upsert(name, doc) /\ UNCHANGED leftover
  \/ outcome = "refused" /\ EsMayFail /\ ~ leftover /\ UNCHANGED <<index, leftover>>
  \/ outcome = "failed" /\ (EsMayFail \/ leftover) /\ UNCHANGED <<index, leftover>>
  \/ /\ outcome = "failed" /\ EsMayFail /\ ~ leftover
     /\ leftover' = TRUE
     /\ index' \in {index, Upsert(name, doc)}

Current == hand.transfers[consumer.next]

Done == consumer' = [at |-> "select", next |-> 0]

(* The consumer's select receives from either channel.                     *)
TakeConfirmed ==
  /\ consumer.at = "select"
  /\ irreversibleBlockChan # <<>>
  /\ hand' = Head(irreversibleBlockChan)
  /\ irreversibleBlockChan' = Tail(irreversibleBlockChan)
  /\ consumed' = consumed \cup {hand'.height}
  /\ consumer' = [at |-> "confirm", next |-> 1]
  /\ UNCHANGED <<chain, redis, pc, position, block, unConfirmBlockChan, start, out, everSent, failed>>
  /\ UNCHANGED <<main, cleaner, index, leftover, gate, taken, cut, finished, dropped>>

TakeUnconfirmedAsConfirmed == \* mutation: reversible blocks go to processConfirmBlock
  /\ consumer.at = "select"
  /\ unConfirmBlockChan # <<>>
  /\ hand' = Head(unConfirmBlockChan)
  /\ unConfirmBlockChan' = Tail(unConfirmBlockChan)
  /\ consumer' = [at |-> "confirm", next |-> 1]
  /\ UNCHANGED <<chain, redis, pc, position, block, irreversibleBlockChan, record>>
  /\ UNCHANGED <<main, cleaner, index, leftover, gate, taken, cut, finished, dropped>>

TakeUnconfirmed ==
  /\ consumer.at = "select"
  /\ unConfirmBlockChan # <<>>
  /\ hand' = Head(unConfirmBlockChan)
  /\ unConfirmBlockChan' = Tail(unConfirmBlockChan)
  /\ consumer' = [at |-> "unconfirm", next |-> 1]
  /\ UNCHANGED <<chain, redis, pc, position, block, irreversibleBlockChan, record>>
  /\ UNCHANGED <<main, cleaner, index, leftover, gate, taken, cut, finished, dropped>>

PushUnbounded == \* mutation: irTxChanForGate has no capacity
  /\ consumer.at = "confirm"
  /\ consumer.next <= Len(hand.transfers) /\ Current.ok
  /\ gate' = Append(gate, [height |-> hand.height, transfer |-> Current])
  /\ consumer' = [consumer EXCEPT !.at = "save"]
  /\ UNCHANGED <<managerVars, main, cleaner, hand, index, leftover, taken, cut, finished, dropped>>

(* processConfirmBlock: push the next transfer, and only then save it; the *)
(* rest of the block is dropped when one cannot be decoded or saved.       *)
PushTransfer ==
  /\ consumer.at = "confirm"
  /\ consumer.next <= Len(hand.transfers) /\ Current.ok
  /\ Len(gate) - taken < GateCap
  /\ gate' = Append(gate, [height |-> hand.height, transfer |-> Current])
  /\ consumer' = [consumer EXCEPT !.at = "save"]
  /\ UNCHANGED <<managerVars, main, cleaner, hand, index, leftover, taken, cut, finished, dropped>>

SaveConfirmedOrStop == \* mutation: the consumer ends when a transfer cannot be saved
  /\ consumer.at = "save"
  /\ \E outcome \in Outcomes :
       /\ UpdateTxInfo(Confirmed, Doc(hand.height, Current), outcome)
       /\ consumer' = IF outcome = "failed" THEN [at |-> "off", next |-> 0]
                      ELSE [at |-> "confirm", next |-> consumer.next + 1]
  /\ UNCHANGED <<managerVars, main, cleaner, hand, gate, taken, cut, finished, dropped>>

SaveConfirmed ==
  /\ consumer.at = "save"
  /\ \E outcome \in Outcomes :
       /\ UpdateTxInfo(Confirmed, Doc(hand.height, Current), outcome)
       /\ IF outcome = "failed"
          THEN /\ Done
               /\ cut' = cut \cup {hand.height}
               /\ finished' = finished \cup {hand.height}
          ELSE /\ consumer' = [at |-> "confirm", next |-> consumer.next + 1]
               /\ UNCHANGED <<cut, finished>>
       /\ dropped' = IF outcome = "refused" THEN dropped \cup {Len(gate)} ELSE dropped
  /\ UNCHANGED <<managerVars, main, cleaner, hand, gate, taken>>

EndEarly == \* mutation: the last transfer of a block is not reached
  /\ consumer.at = "confirm"
  /\ consumer.next < Len(hand.transfers) => ~ Current.ok
  /\ Done
  /\ cut' = IF consumer.next < Len(hand.transfers) THEN cut \cup {hand.height} ELSE cut
  /\ finished' = finished \cup {hand.height}
  /\ UNCHANGED <<managerVars, main, cleaner, hand, index, leftover, gate, taken, dropped>>

EndConfirmed ==
  /\ consumer.at = "confirm"
  /\ consumer.next <= Len(hand.transfers) => ~ Current.ok
  /\ Done
  /\ cut' = IF consumer.next <= Len(hand.transfers) THEN cut \cup {hand.height} ELSE cut
  /\ finished' = finished \cup {hand.height}
  /\ UNCHANGED <<managerVars, main, cleaner, hand, index, leftover, gate, taken, dropped>>

(* processUnconfirmBlock: the same without the gateway.                    *)
SaveUnconfirmed ==
  /\ consumer.at = "unconfirm"
  /\ consumer.next <= Len(hand.transfers) /\ Current.ok
  /\ \E outcome \in Outcomes :
       /\ UpdateTxInfo(Written, Doc(hand.height, Current), outcome)
       /\ IF outcome = "failed" THEN Done ELSE consumer' = [consumer EXCEPT !.next = @ + 1]
  /\ UNCHANGED <<managerVars, main, cleaner, hand, gate, taken, cut, finished, dropped>>

EndUnconfirmed ==
  /\ consumer.at = "unconfirm"
  /\ consumer.next <= Len(hand.transfers) => ~ Current.ok
  /\ Done
  /\ UNCHANGED <<managerVars, main, cleaner, hand, index, leftover, gate, taken, cut, finished, dropped>>

Consumer ==
  \/ TakeConfirmed \/ TakeUnconfirmed
  \/ PushTransfer \/ SaveConfirmed \/ EndConfirmed
  \/ SaveUnconfirmed \/ EndUnconfirmed

(* The gateway, external: it takes from GetIrTxChan.                       *)
GatewayTakes ==
  /\ taken < Len(gate)
  /\ taken' = taken + 1
  /\ UNCHANGED <<managerVars, main, cleaner, consumer, hand, index, leftover, gate, cut, finished, dropped>>

-----------------------------------------------------------------------------
StoreIdle ==
  UNCHANGED <<main, cleaner, consumer, hand, index, leftover, gate, taken, cut, finished, dropped>>

Crash ==
  /\ ManagerCrash
  /\ main' = "off" /\ cleaner' = "off"
  /\ consumer' = [at |-> "off", next |-> 0] /\ hand' = NoBlock
  /\ leftover' = FALSE
  /\ gate' = <<>> /\ taken' = 0 /\ cut' = {} /\ finished' = {} /\ dropped' = {}
  /\ UNCHANGED index

Init ==
  /\ ManagerInit
  /\ main = "off" /\ cleaner = "off"
  /\ consumer = [at |-> "off", next |-> 0] /\ hand = NoBlock
  /\ index = [name \in {Written, Scanned, Confirmed} |-> {}]
  /\ leftover = FALSE
  /\ gate = <<>> /\ taken = 0 /\ cut = {} /\ finished = {} /\ dropped = {}

Next ==
  \/ AdvanceChain /\ StoreIdle
  \/ Watcher /\ StoreIdle
  \/ Start
  \/ WatchAllBlockReturns
  \/ ScanUnconfirmReturns
  \/ CleanerBegins
  \/ CleanUp
  \/ Consumer
  \/ GatewayTakes
  \/ Crash

Spec == Init /\ [][Next]_storeVars

(***************************************************************************)
(* Fairness: every goroutine runs, the select does not favour one channel  *)
(* for ever (Go chooses among the ready ones at random), the gateway takes *)
(* what it is sent, and the node at times answers with the latest block.   *)
(***************************************************************************)
Fairness ==
  /\ WF_storeVars(Start)
  /\ WF_storeVars(WatchAllBlockReturns)
  /\ WF_storeVars(ScanUnconfirmReturns)
  /\ WF_storeVars(CleanerBegins)
  /\ WF_storeVars(CleanUp)
  /\ WF_storeVars(Watcher /\ StoreIdle)
  /\ SF_storeVars(GetInfo(lib) /\ StoreIdle)
  /\ WF_storeVars(Consumer)
  /\ SF_storeVars(TakeConfirmed)
  /\ WF_storeVars(GatewayTakes)

FairSpec == Spec /\ Fairness

-----------------------------------------------------------------------------
Docs == [height : Heights, tx : Nat, id : Nat]

TypeOK ==
  /\ ManagerTypeOK
  /\ main \in {"off", "watchAllBlock", "scanUnconfirm", "running"}
  /\ cleaner \in {"off", "born", "loop"}
  /\ consumer \in [at : {"off", "select", "confirm", "save", "unconfirm"}, next : Nat]
  /\ hand \in Blocks \cup {NoBlock}
  /\ DOMAIN index = {Written, Scanned, Confirmed}
  /\ \A name \in DOMAIN index : index[name] \subseteq Docs
  /\ leftover \in BOOLEAN
  /\ \A k \in DOMAIN gate : gate[k].height \in Heights
  /\ taken \in 0 .. Len(gate) /\ Len(gate) - taken <= GateCap
  /\ cut \subseteq finished /\ finished \subseteq consumed
  /\ dropped \subseteq 1 .. Len(gate)

Pushed(h, t) == \E k \in DOMAIN gate : gate[k].height = h /\ gate[k].transfer.id = t.id

(* The gateway's channel implements the feed: chain order, nothing undone, *)
(* nothing twice, no holes within a block.                                 *)
Feed == INSTANCE ConfirmedFeed WITH
          final <- lib,
          feed <- [k \in DOMAIN gate |-> <<gate[k].height, gate[k].transfer.id>>]

ImplementsConfirmedFeed == Feed!FeedSpec

(***************************************************************************)
(* A block whose processing was not cut short has all its transfers        *)
(* pushed, but those that its receipts do not hold in a readable form.     *)
(***************************************************************************)
WholeUnlessCut ==
  \A h \in finished \ cut : \A i \in DOMAIN Transfers[h] :
    Pushed(h, Transfers[h][i]) \/ Transfers[h][i].receipt # "packed"

(***************************************************************************)
(* Storing trails pushing by one transfer at most: of every transfer that  *)
(* was pushed the index has the document, or that of a later one of its    *)
(* transaction that was pushed too.  Three are excepted: the one being     *)
(* saved, the last one pushed of a block that was cut short, and those     *)
(* whose document ElasticSearch refused in a request that succeeded, which *)
(* the code does not notice.                                               *)
(***************************************************************************)
Stored(k) ==
  \E j \in k .. Len(gate) :
    /\ gate[j].transfer.tx = gate[k].transfer.tx
    /\ Doc(gate[j].height, gate[j].transfer) \in index[Confirmed]

LastOfCut(k) ==
  gate[k].height \in cut /\ \A j \in k + 1 .. Len(gate) : gate[j].height # gate[k].height

StoredUnlessCut ==
  \A k \in DOMAIN gate :
    Stored(k) \/ LastOfCut(k) \/ k \in dropped \/ (k = Len(gate) /\ consumer.at = "save")

(***************************************************************************)
(* While the program runs: every block that becomes irreversible, from the *)
(* first one asked for on, is sent in the end or was requested and failed, *)
(* whatever the consumer meets.                                            *)
(***************************************************************************)
EveryBlockIsTried ==
  \A h \in 1 .. MaxHeight - 1 : h >= ArgHeight =>
    (main = "running" /\ lib > h ~> main = "off" \/ h \in everSent \cup failed)

(***************************************************************************)
(* While the program runs: the first transfer of every irreversible block  *)
(* that this run scans and whose request does not fail reaches the         *)
(* gateway, even when the writes to ElasticSearch fail and the rest of the *)
(* block is dropped.                                                       *)
(***************************************************************************)
FirstArrived(h) == \E k \in 1..taken : gate[k].height = h /\ gate[k].transfer.id = Transfers[h][1].id

HasFirst(h) == Transfers[h] # <<>> /\ Transfers[h][1].receipt = "packed" /\ Transfers[h][1].ok

FirstTransfersArrive ==
  \A h \in {g \in 1 .. MaxHeight - 1 : HasFirst(g)} :
    (main = "running" /\ lib > h ~> main = "off" \/ h < start \/ h \in failed \/ FirstArrived(h))

(***************************************************************************)
(* "send the irreversible transaction to the gateway" (the comment in      *)
(* processConfirmBlock): a processed block has its transfers pushed.       *)
(***************************************************************************)
EveryTransferPushed ==
  \A h \in finished : \A i \in DOMAIN Transfers[h] :
    Transfers[h][i].ok /\ Transfers[h][i].receipt = "packed" => Pushed(h, Transfers[h][i])
=============================================================================
