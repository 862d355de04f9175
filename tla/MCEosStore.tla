----------------------------- MODULE MCEosStore -----------------------------
EXTENDS EosStore

Watched(id, tx, receipt, ok) == [id |-> id, tx |-> tx, receipt |-> receipt, ok |-> ok]

(* Block 1: a transfer, a transaction of two known by its id only, and     *)
(* another.  Block 2: a transaction with two transfers, then a transfer    *)
(* that cannot be decoded before one that can.                             *)
MCTransfers ==
  [h \in Heights |->
     CASE h = 1 -> <<Watched(1, 1, "packed", TRUE), Watched(2, 2, "id", TRUE),
                     Watched(9, 2, "lost", TRUE), Watched(3, 3, "packed", TRUE)>>
       [] h = 2 -> <<Watched(4, 4, "packed", TRUE), Watched(5, 4, "packed", TRUE),
                     Watched(6, 6, "packed", FALSE), Watched(7, 7, "packed", TRUE)>>
       [] OTHER -> <<>>]

(* The same without what cannot be decoded.                                *)
MCDecodable ==
  [h \in Heights |-> SelectSeq(MCTransfers[h], LAMBDA t : t.ok /\ t.id # 7)]

(* An undone block 2 had a transfer of its own.                            *)
MCOrphans == [h \in Heights |-> IF h = 2 THEN <<Watched(8, 8, "packed", TRUE)>> ELSE <<>>]

(* Two blocks of one transfer each.                                        *)
MCShort ==
  [h \in Heights |-> IF h <= 2 THEN <<Watched(h, h, "packed", TRUE)>> ELSE <<>>]

MCNone == [h \in Heights |-> <<>>]
=============================================================================
