----------------------------- MODULE MultiSign -----------------------------
(***************************************************************************)
(* The program tools/multisig/cmd: multiSignTxPKM asks four keys for their *)
(* signature of one transfer, sends it with the signatures of the keys 1,  *)
(* 2 and 4, and then sends "a transaction with the same body and other     *)
(* signatures", those of 1, 2 and 3.  Errors are logged and the program    *)
(* goes on, except that a failed merge or push ends it.                    *)
(***************************************************************************)
EXTENDS Signing

VARIABLES
  pc,       (* the next call: build, sign, recover, merge, send, over        *)
  key,      (* the key it is about, 1 to 4                                   *)
  round,    (* the first or the second merge and push                        *)
  tx,       (* the transaction, or Nil                                       *)
  sign,     (* the variables sign1 to sign4                                  *)
  packedTx, (* what is to be pushed                                          *)
  pushed,   (* everything pushed                                             *)
  executed  (* ids of the transactions the chain executed                    *)

vars == <<pc, key, round, tx, sign, packedTx, pushed, executed>>

KeyNames == <<"k1", "k2", "k3", "k4">>

Init ==
  /\ pc = "build"
  /\ key = 1
  /\ round = 1
  /\ tx = Nil
  /\ sign = [k \in 1..4 |-> Nil]
  /\ packedTx = Nil
  /\ pushed = <<>>
  /\ executed = {}

(* BuildTokenTransferTx returns nil when the node cannot be asked; the     *)
(* error is logged.                                                        *)
Build ==
  /\ pc = "build"
  /\ tx' \in {Nil, NewTransaction(1)}
  /\ pc' = "sign"
  /\ UNCHANGED <<key, round, sign, packedTx, pushed, executed>>

SignKey ==
  /\ pc = "sign"
  /\ \E result \in PKMSign(tx, KeyNames[key]) :
       IF result = Panic
       THEN pc' = "over" /\ UNCHANGED sign
       ELSE pc' = "recover" /\ sign' = [sign EXCEPT ![key] = result]
  /\ UNCHANGED <<key, round, tx, packedTx, pushed, executed>>

RecoverKey ==
  /\ pc = "recover"
  /\ \E result \in GetPublickeyFromTx(tx, sign[key]) :
       IF result = Panic
       THEN pc' = "over" /\ UNCHANGED key
       ELSE IF key = 4
            THEN pc' = "merge" /\ UNCHANGED key
            ELSE pc' = "sign" /\ key' = key + 1
  /\ UNCHANGED <<round, tx, sign, packedTx, pushed, executed>>

Chosen == IF round = 1 THEN <<1, 2, 4>> ELSE <<1, 2, 3>>

Merge ==
  /\ pc = "merge"
  /\ LET merged == MergeSignedTx(tx, [k \in 1..3 |-> sign[Chosen[k]]])
     IN IF merged = Panic
        THEN pc' = "over" /\ UNCHANGED <<tx, packedTx>>
        ELSE /\ tx' = merged
             /\ \/ pc' = "send" /\ packedTx' = merged
                \/ pc' = "over" /\ UNCHANGED packedTx (* packing failed      *)
  /\ UNCHANGED <<key, round, sign, pushed, executed>>

(* The push may not reach the node, and its answer may not reach us.       *)
Send ==
  /\ pc = "send"
  /\ pushed' = Append(pushed, packedTx)
  /\ \/ /\ Accepts(packedTx, executed)
        /\ executed' = executed \cup {packedTx.id}
        /\ \/ round = 1 /\ pc' = "merge" /\ round' = 2
           \/ pc' = "over" /\ UNCHANGED round
     \/ pc' = "over" /\ UNCHANGED <<round, executed>>
  /\ UNCHANGED <<key, tx, sign, packedTx>>

Over == pc = "over" /\ UNCHANGED vars

Next == Build \/ SignKey \/ RecoverKey \/ Merge \/ Send \/ Over

Spec == Init /\ [][Next]_vars

-----------------------------------------------------------------------------
TypeOK ==
  /\ pc \in {"build", "sign", "recover", "merge", "send", "over"}
  /\ key \in 1..4
  /\ round \in 1..2
  /\ tx.kind \in {"nil", "tx"}
  /\ \A k \in 1..4 : sign[k].kind \in {"nil", "signature"}
  /\ Len(pushed) <= round
  /\ executed \subseteq {1}

(***************************************************************************)
(* Although errors are only logged, a transaction is never pushed with a   *)
(* signature short: a missing one stops the program before.                *)
(***************************************************************************)
NothingPartialPushed ==
  \A k \in DOMAIN pushed : Len(pushed[k].signatures) >= 3

(***************************************************************************)
(* Nothing is merged a second time unless the first push was executed: no  *)
(* signature is offered to the chain again after a failure.                *)
(***************************************************************************)
SecondOnlyAfterFirst == round = 2 => executed = {1} /\ pushed # <<>> /\ Authorised(pushed[1])
=============================================================================
