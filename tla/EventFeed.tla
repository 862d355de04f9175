----------------------------- MODULE EventFeed -----------------------------
(***************************************************************************)
(* What a watcher promises the gateway: during one run, the event of every *)
(* matching transaction of an irreversible block is put on the channel at  *)
(* most once, and the events of one block come in the block's order with   *)
(* none left out.  Blocks may be interleaved in any order.  A new run may  *)
(* start over.                                                             *)
(***************************************************************************)
EXTENDS Integers, Sequences

CONSTANTS
  MaxHeight,   (* the chain stops growing here                               *)
  PushIndexes, (* per height, the receipt indexes that carry an event        *)
  StartIndex   (* where the first block of a run may be entered              *)

VARIABLES
  final, (* the last irreversible block                                      *)
  feed,  (* the transactions put on the channel in this run, as <<height, i>> *)
  origin (* the height at which this run began                               *)

feedVars == <<final, feed, origin>>

InFeed(h, i) == \E k \in DOMAIN feed : feed[k] = <<h, i>>

(* Receipt i of block h may be entered without what precedes it only in    *)
(* the first block of the run, and only at StartIndex.                     *)
Skipped(h, i) == h = origin /\ i < StartIndex

FeedInit == final = 0 /\ feed = <<>> /\ origin = 0

Extend == final < MaxHeight /\ final' = final + 1 /\ UNCHANGED <<feed, origin>>

Emit(h, i) ==
  /\ origin <= h
  /\ h < final
  /\ i \in PushIndexes[h]
  /\ ~ \E j \in PushIndexes[h] : j >= i /\ InFeed(h, j)
  /\ \A j \in PushIndexes[h] : j < i => InFeed(h, j) \/ Skipped(h, j)
  /\ feed' = Append(feed, <<h, i>>)
  /\ UNCHANGED <<final, origin>>

Forget == feed' = <<>> /\ UNCHANGED <<final, origin>>

Begin == feed = <<>> /\ origin' \in Nat /\ UNCHANGED <<final, feed>>

FeedNext ==
  \/ Extend
  \/ \E h \in 1..MaxHeight : \E i \in PushIndexes[h] : Emit(h, i)
  \/ Forget
  \/ Begin

FeedSpec == FeedInit /\ [][FeedNext]_feedVars
=============================================================================
