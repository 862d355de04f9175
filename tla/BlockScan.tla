----------------------------- MODULE BlockScan -----------------------------
(***************************************************************************)
(* The block scan shared by the three watchers of eoswatcher/: StartWatch  *)
(* and the goroutines it starts.  The three copies of StartWatch are the   *)
(* same code; the watchers differ in the event a worker sends, so this     *)
(* module leaves the watchers to combine its actions.                      *)
(*                                                                         *)
(* One scanner goroutine walks the block heights below the last            *)
(* irreversible block, writes the height it is about to scan to leveldb    *)
(* and starts one worker goroutine per block.  A worker takes a slot of    *)
(* tmpChannel, requests its block, sends one event per matching            *)
(* transaction on eventChan, and gives the slot back.  The process may     *)
(* crash at any step; only leveldb and what the gateway received survive.  *)
(***************************************************************************)
EXTENDS Integers, Sequences, FiniteSets

CONSTANTS
  MaxHeight,    (* the chain stops growing here (bound of the model)         *)
  PushIndexes,  (* per height, the receipt indexes that carry an event       *)
  ChannelCount, (* the argument channelCount of StartWatch                   *)
  EventCap,     (* the capacity the gateway gave eventChan                   *)
  StartHeight,  (* the argument scanBlockHeight of StartWatch                *)
  StartIndex,   (* the argument scanBlockIndex of StartWatch                 *)
  Lag,          (* how far the head block is ahead of the irreversible one   *)
  StoreMayFail, (* whether leveldb operations may return an error            *)
  MaxCrashes    (* number of crashes considered (bound of the model)         *)

Heights == 1..MaxHeight

ASSUME ConstantsAssumption ==
  /\ MaxHeight \in Nat \ {0}
  /\ PushIndexes \in [Heights -> SUBSET Nat]
  /\ ChannelCount \in Nat \ {0}
  /\ EventCap \in Nat \ {0}
  /\ StartHeight \in Nat
  /\ StartIndex \in Nat
  /\ Lag \in Nat
  /\ StoreMayFail \in BOOLEAN
  /\ MaxCrashes \in Nat

VARIABLES
  lib,                      (* the chain's last irreversible block number    *)
  db,                       (* leveldb's ScanBlockHeight, 0 when missing     *)
  pc,                       (* where the scanner goroutine stands            *)
  ScanBlockHeight,          (* fields of the watcher                         *)
  HeadBlockNum,
  LastIrreversibleBlockNum,
  scanBlockIndex,           (* StartWatch's parameter, captured by workers   *)
  tmpChannel,               (* which slot channel the scanner now uses       *)
  slots,                    (* len of every slot channel                     *)
  workers,                  (* the worker goroutines, in the order started   *)
  sent,                     (* everything sent on eventChan in this run      *)
  taken,                    (* how much of it the gateway has received       *)
  (* history *)
  first,                    (* the height at which this run began            *)
  delivered,                (* transactions the gateway ever received        *)
  before,                   (* those received before this run began          *)
  lost,                     (* transactions a crash caught on their way      *)
  crashes                   (* number of crashes so far                      *)

scanner == <<pc, ScanBlockHeight, HeadBlockNum, LastIrreversibleBlockNum,
             scanBlockIndex, tmpChannel>>
channel == <<sent, taken>>
history == <<first, before, lost, crashes>>
vars == <<lib, db, scanner, slots, workers, channel, delivered, history>>

(***************************************************************************)
(* A slot channel is named by the number of workers that had been started  *)
(* when it was made: two channels of one name never both have a worker.    *)
(***************************************************************************)
ChannelNames == 0..MaxHeight

(* A transaction is named by its place on the chain.                       *)
TxIDs == {<<h, i>> : h \in Heights, i \in UNION {PushIndexes[h] : h \in Heights}}

EventOf(h, i, blockNum) == [TxID |-> <<h, i>>, BlockNum |-> blockNum, Index |-> i]

WorkerPcs == {"start", "fetch", "report", "done"}
Holding == {"fetch", "report"}

Larger(a, b) == IF a > b THEN a ELSE b

(* The receipts of its block that worker w has yet to turn into events.    *)
Pending(w) ==
  {i \in PushIndexes[workers[w].height] :
     \/ workers[w].pc \in {"start", "fetch"}
     \/ workers[w].pc = "report" /\ i >= workers[w].next}

PendingTx == UNION {{<<workers[w].height, i>> : i \in Pending(w)} : w \in DOMAIN workers}

(* What is in the buffer of eventChan.                                     *)
QueuedTx == {sent[k].TxID : k \in taken + 1 .. Len(sent)}

-----------------------------------------------------------------------------
(* The chain, external to the program: blocks become irreversible.         *)
AdvanceChain ==
  /\ lib < MaxHeight
  /\ lib' = lib + 1
  /\ UNCHANGED <<db, scanner, slots, workers, channel, delivered, history>>

(***************************************************************************)
(* NewEosWatcherMain and StartWatch: read the persisted height (0 when it  *)
(* cannot be read), take the larger of it and the argument, and start the  *)
(* scanner with fresh memory and a fresh eventChan.                        *)
(***************************************************************************)
From == IF StartHeight <= 0 THEN 1 ELSE StartHeight

StoredHeight == IF StoreMayFail THEN {0, db} ELSE {db}

StartWatch ==
  /\ pc = "down"
  /\ pc' = "info"
  /\ \E stored \in StoredHeight :
       /\ ScanBlockHeight' = Larger(stored, From)
       /\ first' = Larger(stored, From)
  /\ scanBlockIndex' = StartIndex
  /\ before' = delivered
  /\ UNCHANGED <<lib, db, HeadBlockNum, LastIrreversibleBlockNum, tmpChannel, slots,
                 workers, channel, delivered, lost, crashes>>

(***************************************************************************)
(* UpdateInfo, then make(tmpChannel).  A request that fails is retried and *)
(* changes nothing.  The node that answers may be behind: any irreversible *)
(* block number up to the chain's.                                         *)
(***************************************************************************)
UpdateInfoHead(n) == \* mutation: scan up to the head block
  /\ pc = "info"
  /\ n \in 0..lib
  /\ LastIrreversibleBlockNum' = n + Lag
  /\ HeadBlockNum' = n + Lag
  /\ tmpChannel' = Len(workers)
  /\ slots' = [slots EXCEPT ![Len(workers)] = 0]
  /\ pc' = "loop"
  /\ UNCHANGED <<lib, db, ScanBlockHeight, scanBlockIndex, workers, channel,
                 delivered, history>>

UpdateInfo(n) ==
  /\ pc = "info"
  /\ n \in 0..lib
  /\ LastIrreversibleBlockNum' = n
  /\ HeadBlockNum' = n + Lag
  /\ tmpChannel' = Len(workers)
  /\ slots' = [slots EXCEPT ![Len(workers)] = 0]
  /\ pc' = "loop"
  /\ UNCHANGED <<lib, db, ScanBlockHeight, scanBlockIndex, workers, channel,
                 delivered, history>>

(* The scan reached the last irreversible block: sleep, ask the node again. *)
CaughtUp ==
  /\ pc = "loop"
  /\ ScanBlockHeight >= LastIrreversibleBlockNum
  /\ pc' = "info"
  /\ UNCHANGED <<lib, db, ScanBlockHeight, HeadBlockNum, LastIrreversibleBlockNum,
                 scanBlockIndex, tmpChannel, slots, workers, channel, delivered, history>>

(* The wait for a slot; while tmpChannel is full the scanner polls.        *)
SlotFree ==
  /\ pc = "loop"
  /\ ScanBlockHeight < LastIrreversibleBlockNum
  /\ slots[tmpChannel] < ChannelCount
  /\ pc' = "put"
  /\ UNCHANGED <<lib, db, ScanBlockHeight, HeadBlockNum, LastIrreversibleBlockNum,
                 scanBlockIndex, tmpChannel, slots, workers, channel, delivered, history>>

(* DB.Put of the height about to be scanned; its error is only logged.     *)
PutHeightWith(height) ==
  /\ pc = "put"
  /\ \/ db' = height
     \/ StoreMayFail /\ UNCHANGED db
  /\ pc' = "spawn"
  /\ UNCHANGED <<lib, ScanBlockHeight, HeadBlockNum, LastIrreversibleBlockNum,
                 scanBlockIndex, tmpChannel, slots, workers, channel, delivered, history>>

PutNextHeight == PutHeightWith(ScanBlockHeight + 1) \* mutation: one block ahead
PutLastHeight == PutHeightWith(ScanBlockHeight - 1) \* mutation: one block behind

PutHeight == PutHeightWith(ScanBlockHeight)

(* The go statement.  The worker is given the height by value; the slot    *)
(* channel it captures is the one of this round of the outer loop.         *)
NewWorker == [height |-> ScanBlockHeight, chan |-> tmpChannel, pc |-> "start", next |-> 0]

SpawnWorker ==
  /\ pc = "spawn"
  /\ workers' = Append(workers, NewWorker)
  /\ pc' = "advance"
  /\ UNCHANGED <<lib, db, ScanBlockHeight, HeadBlockNum, LastIrreversibleBlockNum,
                 scanBlockIndex, tmpChannel, slots, channel, delivered, history>>

(* ScanBlockHeight++ and the reset of scanBlockIndex, after the go         *)
(* statement: a worker may read the index before or after the reset.       *)
AdvanceScanWith(height, index) ==
  /\ pc = "advance"
  /\ ScanBlockHeight' = height
  /\ scanBlockIndex' = index
  /\ pc' = "loop"
  /\ UNCHANGED <<lib, db, HeadBlockNum, LastIrreversibleBlockNum, tmpChannel, slots,
                 workers, channel, delivered, history>>

AdvanceScanTwice == AdvanceScanWith(ScanBlockHeight + 2, 0) \* mutation: a block left out
AdvanceScanKeepIndex == AdvanceScanWith(ScanBlockHeight + 1, scanBlockIndex) \* mutation: no reset

AdvanceScan == AdvanceScanWith(ScanBlockHeight + 1, 0)

-----------------------------------------------------------------------------
(* The worker goroutine.                                                   *)

(* tmpChannel <- struct{}{}: blocks while the worker's channel is full.    *)
AcquireSlotUnbounded(w) == \* mutation: the send does not block
  /\ workers[w].pc = "start"
  /\ slots' = [slots EXCEPT ![workers[w].chan] = @ + 1]
  /\ workers' = [workers EXCEPT ![w].pc = "fetch"]
  /\ UNCHANGED <<lib, db, scanner, channel, delivered, history>>

AcquireSlot(w) ==
  /\ workers[w].pc = "start"
  /\ slots[workers[w].chan] < ChannelCount
  /\ slots' = [slots EXCEPT ![workers[w].chan] = @ + 1]
  /\ workers' = [workers EXCEPT ![w].pc = "fetch"]
  /\ UNCHANGED <<lib, db, scanner, channel, delivered, history>>

(* UpdateBlock returns (a failed request is retried and changes nothing);  *)
(* the argument scanBlockIndex is read only now, from the captured         *)
(* variable.  Receipts below it are skipped.                               *)
FetchBlock(w) ==
  /\ workers[w].pc = "fetch"
  /\ workers' = [workers EXCEPT ![w].pc = "report", ![w].next = scanBlockIndex]
  /\ UNCHANGED <<lib, db, scanner, slots, channel, delivered, history>>

(* UpdateEOSPushEvent: the next matching receipt, in receipt order, goes   *)
(* to eventChan, which blocks while its buffer is full.  The receipts in   *)
(* between carry no event and are passed over in the same step.            *)
ReportAnyEvent(w, blockNum) == \* mutation: receipts in any order
  /\ workers[w].pc = "report"
  /\ Len(sent) - taken < EventCap
  /\ \E i \in Pending(w) :
       /\ sent' = Append(sent, EventOf(workers[w].height, i, blockNum))
       /\ workers' = [workers EXCEPT ![w].next = i + 1]
  /\ UNCHANGED <<lib, db, scanner, slots, taken, delivered, history>>

ReportEvent(w, blockNum) ==
  /\ workers[w].pc = "report"
  /\ Len(sent) - taken < EventCap
  /\ \E i \in Pending(w) :
       /\ \A j \in Pending(w) : i <= j
       /\ sent' = Append(sent, EventOf(workers[w].height, i, blockNum))
       /\ workers' = [workers EXCEPT ![w].next = i + 1]
  /\ UNCHANGED <<lib, db, scanner, slots, taken, delivered, history>>

(* The block is finished: <-tmpChannel gives the slot back.                *)
LeakSlot(w) == \* mutation: the slot is not given back
  /\ workers[w].pc = "report"
  /\ Pending(w) = {}
  /\ workers' = [workers EXCEPT ![w].pc = "done"]
  /\ UNCHANGED <<lib, db, scanner, slots, channel, delivered, history>>

ReleaseSlot(w) ==
  /\ workers[w].pc = "report"
  /\ Pending(w) = {}
  /\ workers' = [workers EXCEPT ![w].pc = "done"]
  /\ slots' = [slots EXCEPT ![workers[w].chan] = @ - 1]
  /\ UNCHANGED <<lib, db, scanner, channel, delivered, history>>

-----------------------------------------------------------------------------
(* The gateway, external to the program: it receives from eventChan and    *)
(* keeps what it received across crashes of the watcher.                   *)
Receive ==
  /\ taken < Len(sent)
  /\ taken' = taken + 1
  /\ delivered' = delivered \cup {sent[taken + 1].TxID}
  /\ UNCHANGED <<lib, db, scanner, slots, workers, sent, history>>

(* The process dies: every goroutine and the buffer of eventChan are gone. *)
Crash ==
  /\ pc # "down"
  /\ crashes < MaxCrashes
  /\ crashes' = crashes + 1
  /\ lost' = lost \cup PendingTx \cup QueuedTx
  /\ pc' = "down"
  /\ ScanBlockHeight' = 0
  /\ HeadBlockNum' = 0
  /\ LastIrreversibleBlockNum' = 0
  /\ scanBlockIndex' = 0
  /\ tmpChannel' = 0
  /\ slots' = [c \in ChannelNames |-> 0]
  /\ workers' = <<>>
  /\ sent' = <<>>
  /\ taken' = 0
  /\ UNCHANGED <<lib, db, delivered, first, before>>

Init ==
  /\ lib = 0
  /\ db = 0
  /\ pc = "down"
  /\ ScanBlockHeight = 0
  /\ HeadBlockNum = 0
  /\ LastIrreversibleBlockNum = 0
  /\ scanBlockIndex = 0
  /\ tmpChannel = 0
  /\ slots = [c \in ChannelNames |-> 0]
  /\ workers = <<>>
  /\ sent = <<>>
  /\ taken = 0
  /\ first = 0
  /\ delivered = {}
  /\ before = {}
  /\ lost = {}
  /\ crashes = 0

-----------------------------------------------------------------------------
Workers == [height : Heights, chan : ChannelNames, pc : WorkerPcs, next : Nat]

Events == [TxID : TxIDs, BlockNum : Nat, Index : Nat]

TypeOK ==
  /\ lib \in 0..MaxHeight
  /\ db \in Nat
  /\ pc \in {"down", "info", "loop", "put", "spawn", "advance"}
  /\ ScanBlockHeight \in Nat
  /\ HeadBlockNum \in Nat
  /\ LastIrreversibleBlockNum \in 0..MaxHeight
  /\ scanBlockIndex \in Nat
  /\ tmpChannel \in ChannelNames
  /\ slots \in [ChannelNames -> 0..ChannelCount]
  /\ workers \in Seq(Workers)
  /\ sent \in Seq(Events)
  /\ taken \in 0..Len(sent)
  /\ first \in Nat
  /\ delivered \subseteq TxIDs
  /\ before \subseteq TxIDs
  /\ lost \subseteq TxIDs
  /\ crashes \in 0..MaxCrashes

(***************************************************************************)
(* Within a run no block is left out and none is given to two workers: the *)
(* workers started so far have the heights first, first + 1, ... up to the *)
(* one before the block to scan next.                                      *)
(***************************************************************************)
Spawned == ScanBlockHeight - first + (IF pc = "advance" THEN 1 ELSE 0)

ScanIsContiguous ==
  pc # "down" =>
    /\ Len(workers) = Spawned
    /\ \A w \in DOMAIN workers : workers[w].height = first + w - 1

(* Only blocks below the chain's last irreversible block are ever scanned, *)
(* however far the node's head is ahead and however stale its answers are. *)
OnlyIrreversible == \A w \in DOMAIN workers : workers[w].height < lib

(***************************************************************************)
(* The slots of a channel are in the hands of as many live workers: none   *)
(* leaks, none is given back twice, and so at most ChannelCount workers of *)
(* one round of the outer loop request or report a block at a time.        *)
(***************************************************************************)
Holders(c) == {w \in DOMAIN workers : workers[w].chan = c /\ workers[w].pc \in Holding}

SlotsAccounted == \A c \in ChannelNames : slots[c] = Cardinality(Holders(c))

(***************************************************************************)
(* Nothing below the persisted height is forgotten: each of its events has *)
(* been received, is in the channel, is in the hands of a live worker, was *)
(* in one of those two places when the process crashed, or was skipped on  *)
(* the caller's StartIndex.  In particular the height is never persisted   *)
(* ahead of the hand-over of the blocks below it.                          *)
(***************************************************************************)
CoveredBelowCursor ==
  \A h \in From .. db - 1 : h \in Heights =>
    \A i \in PushIndexes[h] :
      \/ <<h, i>> \in delivered \cup QueuedTx \cup PendingTx \cup lost
      \/ i < StartIndex

(***************************************************************************)
(* With a reliable leveldb a new run sends an event again only for the one *)
(* block at which it began: the persisted height.                          *)
(***************************************************************************)
ReplayOneBlock ==
  ~ StoreMayFail => \A k \in DOMAIN sent : sent[k].TxID \in before => sent[k].TxID[1] = first

(***************************************************************************)
(* An event names the block and the receipt its transaction is in, and     *)
(* these are what the gateway will find on the chain.                      *)
(***************************************************************************)
EventsPlaced == \A k \in DOMAIN sent :
  /\ sent[k].TxID = <<sent[k].BlockNum, sent[k].Index>>
  /\ sent[k].Index \in PushIndexes[sent[k].BlockNum]

(***************************************************************************)
(* The captured scanBlockIndex, read by a worker some time after its start *)
(* and unprotected, can only affect the first block of a run.              *)
(***************************************************************************)
SkipsOnlyInFirstBlock ==
  [][\A w \in DOMAIN workers :
       FetchBlock(w) /\ workers'[w].next > 0 => workers[w].height = first]_vars

(***************************************************************************)
(* "create 50 goroutines to request blocks", "no idle goroutine in the     *)
(* pool: wait" (the comments in StartWatch): at most ChannelCount blocks   *)
(* are requested or reported at a time.                                    *)
(***************************************************************************)
PoolBound == Cardinality(UNION {Holders(c) : c \in ChannelNames}) <= ChannelCount

(* The abstract event feed, of which each watcher is an implementation.     *)
Feed == INSTANCE EventFeed WITH
          final <- lib,
          feed <- [k \in DOMAIN sent |-> sent[k].TxID],
          origin <- first
=============================================================================
