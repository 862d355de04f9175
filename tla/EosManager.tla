----------------------------- MODULE EosManager -----------------------------
(***************************************************************************)
(* tools/eosmanager: WatchAllBlock, the goroutine that copies the chain to *)
(* two channels, one for irreversible blocks and one for reversible ones,  *)
(* with the requests it makes to the node and the height it keeps in       *)
(* redis.  Redis is read when the program starts with height 0; only redis *)
(* and what was received from the channels survive a crash.                *)
(***************************************************************************)
EXTENDS Integers, Sequences, FiniteSets

CONSTANTS
  MaxHeight,  (* the chain stops becoming irreversible here (bound)           *)
  Lag,        (* how far the head block is ahead of the irreversible one      *)
  Transfers,  (* per height, the watched transfers of the chain's block       *)
  Orphans,    (* per height, those of a block that is undone later            *)
  ChanCap,    (* capacity of the two block channels, 250 in the code          *)
  SaveEvery,  (* distance between saved heights, 1000 in the code             *)
  ArgHeight,  (* the argument scanHeight of NewEosWatcher                     *)
  StaleNodes, (* whether a request may be answered by a node that is behind   *)
  BlocksFail, (* whether a request for a block may fail                       *)
  MaxCrashes  (* number of crashes considered (bound)                         *)

Heights == 1 .. MaxHeight + Lag

(***************************************************************************)
(* A transfer: the place of its action (id), its transaction, how the      *)
(* receipt of that lists it, and whether its data decodes.  The receipt    *)
(* holds the transaction ("packed") or its id ("id"), and of a transaction *)
(* looked up by id only the first trace is kept: "lost" are later traces   *)
(* of one, and the transfers of a packed one whose JSON does not parse.    *)
(***************************************************************************)
Transfer == [id : Nat, tx : Nat, receipt : {"packed", "id", "lost"}, ok : BOOLEAN]

ASSUME ManagerAssumption ==
  /\ MaxHeight \in Nat /\ ArgHeight \in Nat /\ MaxCrashes \in Nat
  /\ Lag \in Nat \ {0} /\ ChanCap \in Nat \ {0} /\ SaveEvery \in Nat \ {0}
  /\ StaleNodes \in BOOLEAN /\ BlocksFail \in BOOLEAN
  /\ Transfers \in [Heights -> Seq(Transfer)]
  /\ Orphans \in [Heights -> Seq(Transfer)]
  /\ \A h \in Heights : \A i, j \in DOMAIN Transfers[h] :
       Transfers[h][i].id = Transfers[h][j].id => i = j

VARIABLES
  lib,                   (* the chain's last irreversible block               *)
  redis,                 (* the key eosscanirheight, 0 when missing           *)
  pc,                    (* where WatchAllBlock's goroutine stands            *)
  scanHeight,            (* fields of EosWatcher                              *)
  scanIrHeight,
  lastIr,                (* the inner lastIrreversibleBlockHeight             *)
  block,                 (* blockData, the block waiting to be sent           *)
  irreversibleBlockChan,
  unConfirmBlockChan,
  (* history *)
  start,                 (* scanIrHeight when this run began                  *)
  out,                   (* heights sent on irreversibleBlockChan in this run *)
  everSent,              (* heights ever sent on it                           *)
  failed,                (* heights whose request ever failed                 *)
  consumed,              (* heights ever received from it                     *)
  crashes

chain == <<lib, crashes>>
position == <<scanHeight, scanIrHeight, lastIr>>
channels == <<irreversibleBlockChan, unConfirmBlockChan>>
record == <<start, out, everSent, failed, consumed>>
managerVars == <<chain, redis, pc, position, block, channels, record>>

NoBlock == [height |-> 0, transfers |-> <<>>]

-----------------------------------------------------------------------------
AdvanceChain ==
  /\ lib < MaxHeight
  /\ lib' = lib + 1
  /\ UNCHANGED <<crashes, redis, pc, position, block, channels, record>>

(* What a node may answer: get_info names its own last irreversible block. *)
Answers == IF StaleNodes THEN 0..lib ELSE {lib}

(***************************************************************************)
(* GetBlockByID and BlockRespDecodeTrx: a receipt that holds only an id is *)
(* looked up with another request, and left out when that request fails;   *)
(* what is lost in decoding is left out always.  An answer without traces  *)
(* ends the program, which is one of the crashes.                          *)
(***************************************************************************)
LeftOut(t, found) == t.receipt = "lost" \/ (t.receipt = "id" /\ t.tx \notin found)

Appended(soFar, t, found) == IF LeftOut(t, found) THEN soFar ELSE Append(soFar, t)

TempTransactions(transfers, found) ==
  LET upTo[i \in 0 .. Len(transfers)] ==
        IF i = 0 THEN <<>> ELSE Appended(upTo[i - 1], transfers[i], found)
  IN  upTo[Len(transfers)]

BlockRespDecodeTrx(h, transfers) ==
  {[height |-> h, transfers |-> TempTransactions(transfers, found)] :
     found \in SUBSET {transfers[i].tx : i \in DOMAIN transfers}}

(* "go func() ...": the goroutine exists and has not run yet.              *)
WatchAllBlock ==
  /\ pc = "down"
  /\ pc' = "born"
  /\ UNCHANGED <<chain, redis, position, block, channels, record>>

(* Redis answers with the saved height, or 0 on any error; an error of SET *)
(* is logged and changes nothing.                                          *)
GetScanHeightFromRedis == {redis, 0}

UpdateScanHeightToRedis(height) == {redis, height}

(* The goroutine begins; redis is asked only when no height was passed in. *)
StartAtNewest == \* mutation: the scan begins at the irreversible block of now
  /\ pc = "born"
  /\ scanIrHeight' = lib /\ start' = lib
  /\ scanHeight' = ArgHeight
  /\ pc' = "outer"
  /\ UNCHANGED <<chain, redis, lastIr, block, channels, out, everSent, failed, consumed>>

BeginScan ==
  /\ pc = "born"
  /\ \E n \in (IF ArgHeight = 0 THEN GetScanHeightFromRedis ELSE {ArgHeight}) :
       scanIrHeight' = n /\ start' = n
  /\ scanHeight' = ArgHeight
  /\ pc' = "outer"
  /\ UNCHANGED <<chain, redis, lastIr, block, channels, out, everSent, failed, consumed>>

(* The outer loop goes on only when the node is ahead; 0 is its error.     *)
GetIrreversibleBlockHeight ==
  /\ pc = "outer"
  /\ \E n \in Answers \cup {0} : n > scanIrHeight
  /\ pc' = "info"
  /\ UNCHANGED <<chain, redis, position, block, channels, record>>

(* "watcher sleeping...., restart 1s later": the node is not ahead.         *)
Sleep ==
  /\ pc = "outer"
  /\ \E n \in Answers \cup {0} : n <= scanIrHeight
  /\ UNCHANGED managerVars

(* The inner GetInfo chooses between the two branches.                     *)
GetInfoFails ==
  /\ pc = "info"
  /\ pc' = "outer"
  /\ UNCHANGED <<chain, redis, position, block, channels, record>>

GetInfoHead(n) == \* mutation: blocks up to the head are taken for irreversible
  /\ pc = "info"
  /\ lastIr' = n + Lag
  /\ pc' = IF scanIrHeight < n + Lag THEN "fetch" ELSE "outer"
  /\ UNCHANGED <<chain, redis, scanHeight, scanIrHeight, block, channels, record>>

GetInfo(n) ==
  /\ pc = "info"
  /\ lastIr' = n
  /\ IF scanIrHeight < n THEN pc' = "fetch" /\ UNCHANGED scanHeight
     ELSE IF scanIrHeight = n /\ scanHeight < n + Lag
     THEN /\ pc' = "fetchReversible"
          /\ scanHeight' = IF scanHeight <= scanIrHeight THEN scanIrHeight + 1 ELSE scanHeight
     ELSE pc' = "outer" /\ UNCHANGED scanHeight
  /\ UNCHANGED <<chain, redis, scanIrHeight, block, channels, record>>

(* After a block the inner loops go on until the irreversible one.         *)
After(height, loop) == IF height >= lastIr THEN "outer" ELSE loop

GetBlock ==
  /\ pc = "fetch"
  /\ scanIrHeight > 0
  /\ block' \in BlockRespDecodeTrx(scanIrHeight, Transfers[scanIrHeight])
  /\ pc' = "send"
  /\ UNCHANGED <<chain, redis, position, channels, record>>

(* A failed request moves on to the next height; there is no block 0.      *)
GetBlockFails ==
  /\ pc = "fetch"
  /\ BlocksFail \/ scanIrHeight = 0
  /\ failed' = failed \cup {scanIrHeight}
  /\ scanIrHeight' = scanIrHeight + 1
  /\ pc' = After(scanIrHeight + 1, "info")
  /\ UNCHANGED <<chain, redis, scanHeight, lastIr, block, channels, start, out, everSent, consumed>>

SendIrreversible ==
  /\ pc = "send"
  /\ Len(irreversibleBlockChan) < ChanCap
  /\ irreversibleBlockChan' = Append(irreversibleBlockChan, block)
  /\ block' = NoBlock
  /\ out' = Append(out, scanIrHeight)
  /\ everSent' = everSent \cup {scanIrHeight}
  /\ pc' = "save"
  /\ UNCHANGED <<chain, redis, position, unConfirmBlockChan, start, failed, consumed>>

(* Every SaveEvery blocks the height is saved, after the block was sent.    *)
SaveNext == \* mutation: the height after the block is saved
  /\ pc = "save"
  /\ redis' \in IF scanIrHeight % SaveEvery = 0 THEN UpdateScanHeightToRedis(scanIrHeight + 1) ELSE {redis}
  /\ scanIrHeight' = scanIrHeight + 1
  /\ pc' = After(scanIrHeight + 1, "fetch")
  /\ UNCHANGED <<chain, scanHeight, lastIr, block, channels, record>>

SaveHeight ==
  /\ pc = "save"
  /\ redis' \in IF scanIrHeight % SaveEvery = 0 THEN UpdateScanHeightToRedis(scanIrHeight) ELSE {redis}
  /\ scanIrHeight' = scanIrHeight + 1
  /\ pc' = After(scanIrHeight + 1, "fetch")
  /\ UNCHANGED <<chain, scanHeight, lastIr, block, channels, record>>

GetReversibleBlock ==
  /\ pc = "fetchReversible"
  /\ \E content \in {Transfers[scanHeight], Orphans[scanHeight]} :
       block' \in BlockRespDecodeTrx(scanHeight, content)
  /\ pc' = "sendReversible"
  /\ UNCHANGED <<chain, redis, position, channels, record>>

GetReversibleBlockFails ==
  /\ pc = "fetchReversible"
  /\ BlocksFail
  /\ scanHeight' = scanHeight + 1
  /\ pc' = "outer"
  /\ UNCHANGED <<chain, redis, scanIrHeight, lastIr, block, channels, record>>

(* scanHeight is not advanced.                                             *)
SendReversible ==
  /\ pc = "sendReversible"
  /\ Len(unConfirmBlockChan) < ChanCap
  /\ unConfirmBlockChan' = Append(unConfirmBlockChan, block)
  /\ block' = NoBlock
  /\ pc' = "outer"
  /\ UNCHANGED <<chain, redis, position, irreversibleBlockChan, record>>

Watcher ==
  \/ BeginScan
  \/ GetIrreversibleBlockHeight
  \/ Sleep
  \/ GetInfoFails
  \/ \E n \in Answers : GetInfo(n)
  \/ GetBlock
  \/ GetBlockFails
  \/ SendIrreversible
  \/ SaveHeight
  \/ GetReversibleBlock
  \/ GetReversibleBlockFails
  \/ SendReversible

ManagerCrash ==
  /\ pc # "down"
  /\ crashes < MaxCrashes
  /\ crashes' = crashes + 1
  /\ pc' = "down"
  /\ scanHeight' = 0 /\ scanIrHeight' = 0 /\ lastIr' = 0 /\ start' = 0
  /\ block' = NoBlock
  /\ irreversibleBlockChan' = <<>> /\ unConfirmBlockChan' = <<>>
  /\ out' = <<>>
  /\ UNCHANGED <<lib, redis, everSent, failed, consumed>>

ManagerInit ==
  /\ lib = 0 /\ redis = 0 /\ pc = "down"
  /\ scanHeight = 0 /\ scanIrHeight = 0 /\ lastIr = 0
  /\ block = NoBlock
  /\ irreversibleBlockChan = <<>> /\ unConfirmBlockChan = <<>>
  /\ start = 0 /\ out = <<>> /\ everSent = {} /\ failed = {} /\ consumed = {}
  /\ crashes = 0

-----------------------------------------------------------------------------
Blocks == UNION {BlockRespDecodeTrx(h, Transfers[h]) \cup BlockRespDecodeTrx(h, Orphans[h]) : h \in Heights}

ManagerTypeOK ==
  /\ lib \in 0..MaxHeight
  /\ redis \in Nat
  /\ pc \in {"down", "born", "outer", "info", "fetch", "send", "save",
             "fetchReversible", "sendReversible"}
  /\ scanHeight \in Nat /\ scanIrHeight \in Nat /\ lastIr \in 0..MaxHeight /\ start \in Nat
  /\ block \in Blocks \cup {NoBlock}
  /\ irreversibleBlockChan \in Seq(Blocks) /\ Len(irreversibleBlockChan) <= ChanCap
  /\ unConfirmBlockChan \in Seq(Blocks) /\ Len(unConfirmBlockChan) <= ChanCap
  /\ out \in Seq(Heights)
  /\ everSent \subseteq Heights /\ failed \subseteq Nat /\ consumed \subseteq Heights
  /\ crashes \in 0..MaxCrashes

(***************************************************************************)
(* Irreversible blocks are sent in ascending order, each once per run, and *)
(* none before the chain has passed it, however stale the node's answers.  *)
(***************************************************************************)
SentInOrder == \A k \in DOMAIN out :
  /\ start <= out[k] /\ out[k] < lib
  /\ k > 1 => out[k - 1] < out[k]

(***************************************************************************)
(* Every height the scan has passed, in this run or, below the height in   *)
(* redis, in an earlier one, was sent or is one whose request failed.      *)
(***************************************************************************)
PassedOnlyAfterRequest ==
  /\ pc \notin {"down", "born"} =>
       \A h \in start .. scanIrHeight - 1 : (\E k \in DOMAIN out : out[k] = h) \/ h \in failed
  /\ ArgHeight = 0 => \A h \in 1 .. redis - 1 : h \in everSent \cup failed

(* In order and without a gap but for failed requests.                     *)
ScanInOrder == SentInOrder /\ PassedOnlyAfterRequest

(***************************************************************************)
(* What a crash can take when every run goes on from the height in redis:  *)
(* of the blocks below that height, which no later run sends again, those  *)
(* never received and not waiting in the channel were caught in the        *)
(* channel's buffer, at most all of it but the block whose height was      *)
(* saved, once per crash.                                                  *)
(***************************************************************************)
Waiting == {irreversibleBlockChan[k].height : k \in DOMAIN irreversibleBlockChan}

LostBelowRedis == ArgHeight = 0 =>
  Cardinality((1 .. redis - 1) \ (consumed \cup failed \cup Waiting)) <= crashes * (ChanCap - 1)
=============================================================================
