-------------------------- MODULE MCEOSWatcherMain --------------------------
EXTENDS EOSWatcherMain

Parse == INSTANCE PushEvents

Token == [ActionAccount |-> "tok", ActionNameDestroy |-> "solvent",
          ActionNameCreate |-> "issue", Symbol |-> "WBTC", Precision |-> 8]

(* A receipt with one action of the token's contract.                      *)
Receipt(name, packed) ==
  [packed |-> packed, unpacks |-> TRUE, standard |-> TRUE, actions |-> 1,
   account |-> "tok", name |-> name, from |-> "user", to |-> "gateway",
   quantity |-> [Symbol |-> "WBTC", Precision |-> 8]]

Destroy == Receipt("solvent", TRUE)
Create == Receipt("issue", TRUE)
Inline == Receipt("solvent", FALSE)

MCBlock(h) ==
  CASE h = 1 -> <<Destroy, Create, Destroy>>
    [] h = 2 -> <<Inline, Destroy>>
    [] h = 3 -> <<>>
    [] OTHER -> <<Destroy>>

(* Block 1 has two events with a receipt between that carries none, block  *)
(* 2 has one, block 3 none, later blocks one each.                         *)
MCPushIndexes ==
  [h \in 1..MaxHeight |->
     CASE h = 1 -> {0, 2} [] h = 2 -> {1} [] h = 3 -> {} [] OTHER -> {0}]

(* They are what the parser finds in the blocks; Go counts receipts from 0. *)
ASSUME IndexesAreParsed ==
  \A h \in 1..MaxHeight :
    MCPushIndexes[h] = {i \in 0 .. Len(MCBlock(h)) - 1 :
                          Parse!UpdateEOSPushEvent(MCBlock(h)[i + 1], <<Token>>, "gateway") # Parse!NoEvent}
=============================================================================
