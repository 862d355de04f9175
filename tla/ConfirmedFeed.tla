--------------------------- MODULE ConfirmedFeed ---------------------------
(***************************************************************************)
(* What EosStore promises a gateway: during one run the watched transfers  *)
(* of irreversible blocks, in the order of the chain and each at most      *)
(* once.  Whole blocks and the end of a block may be missing, but within a *)
(* block nothing is left out before a transfer that is pushed, except what *)
(* its receipt does not hold or does not hold in a readable form.          *)
(***************************************************************************)
EXTENDS Integers, Sequences

CONSTANTS Heights, Transfers

VARIABLES
  final, (* the last irreversible block                                      *)
  feed   (* the transfers pushed in this run, as <<height, id>>              *)

feedVars == <<final, feed>>

FeedInit == final = 0 /\ feed = <<>>

Extend == final' = final + 1 /\ feed' = feed

Fed(h, t) == \E k \in DOMAIN feed : feed[k] = <<h, t.id>>

Emit(h, i) ==
  /\ h < final
  /\ \A k \in DOMAIN feed : feed[k][1] <= h
  /\ \A j \in i .. Len(Transfers[h]) : ~ Fed(h, Transfers[h][j])
  /\ \A j \in 1 .. i - 1 : Fed(h, Transfers[h][j]) \/ Transfers[h][j].receipt # "packed"
  /\ Transfers[h][i].ok
  /\ feed' = Append(feed, <<h, Transfers[h][i].id>>)
  /\ final' = final

Forget == feed' = <<>> /\ final' = final

FeedNext == Extend \/ Forget \/ \E h \in Heights : \E i \in DOMAIN Transfers[h] : Emit(h, i)

FeedSpec == FeedInit /\ [][FeedNext]_feedVars
=============================================================================
