------------------------------ MODULE Signing ------------------------------
(***************************************************************************)
(* Collecting the signatures of a transaction of a multi-signature account *)
(* and sending it: the functions of tools/multisig/sign.go, which the      *)
(* watchers repeat, and the call of the key service in tools/utils.        *)
(*                                                                         *)
(* A transaction is its id, which its body determines, and the signatures  *)
(* appended to it so far.  A signature is the key and the id it was made   *)
(* for.  A function that can fail is the set of its outcomes: a result,    *)
(* Nil for an error returned, Panic for a nil pointer or nil error used.   *)
(***************************************************************************)
EXTENDS Integers, Sequences, FiniteSets, SequencesExt

CONSTANTS
  Keys,      (* the keys of the account's authority, each of weight 1        *)
  Threshold  (* how many of them a transaction needs                         *)

ASSUME SigningAssumption ==
  /\ IsFiniteSet(Keys)
  /\ "none" \notin Keys
  /\ Threshold \in 1 .. Cardinality(Keys)

Nil == [kind |-> "nil"]
Panic == [kind |-> "panic"]

SignatureOf(key, id) == [kind |-> "signature", key |-> key, id |-> id]

(* What an answer of code 0 whose content is not a signature decodes to.   *)
Garbled == [kind |-> "signature", key |-> "none", id |-> 0]

(***************************************************************************)
(* Sign: the key service may be out of reach, refuse (a code other than    *)
(* 0), send a content that is no signature, or send something that is not  *)
(* JSON; in the last case the code logs the error of the call before,      *)
(* which is nil.                                                           *)
(***************************************************************************)
Sign(id, key) == {SignatureOf(key, id), Garbled, Nil, Panic}

(* PKMSign: marshal, ask the node for the chain id, ask the key service.   *)
PKMSign(tx, key) == IF tx = Nil THEN {Panic} ELSE {Nil} \cup Sign(tx.id, key)

(* GetPublickeyFromTx: the node is asked first, so its failure hides that  *)
(* there is no signature.                                                  *)
GetPublickeyFromTx(tx, sig) ==
  IF tx = Nil THEN {Panic}
  ELSE {Nil} \cup (IF sig = Nil THEN {Panic} ELSE {[kind |-> "key"]})

(***************************************************************************)
(* MergeSignedTx dereferences every signature and appends it to the        *)
(* transaction of the caller, which therefore keeps it.                    *)
(***************************************************************************)
MergeSkippingNil(tx, sigs) == \* mutation: signatures that are missing are skipped
  [tx EXCEPT !.signatures = @ \o SelectSeq(sigs, LAMBDA s : s # Nil)]

MergeTwice(tx, sigs) == \* mutation: the signatures are appended twice
  IF tx = Nil \/ Contains(sigs, Nil) THEN Panic
  ELSE [tx EXCEPT !.signatures = @ \o sigs \o sigs]

MergeReplacing(tx, sigs) == \* mutation: the signatures of an earlier merge are dropped
  IF tx = Nil \/ Contains(sigs, Nil) THEN Panic ELSE [tx EXCEPT !.signatures = sigs]

MergeSignedTx(tx, sigs) ==
  IF tx = Nil \/ Contains(sigs, Nil) THEN Panic
  ELSE [tx EXCEPT !.signatures = @ \o sigs]

NewTransaction(id) == [kind |-> "tx", id |-> id, signatures |-> <<>>]

(* nodeos, external: all signatures are of the body and no two are the     *)
(* same, their keys reach the threshold, and the body is not executed yet. *)
Authorised(tx) ==
  /\ \A k \in DOMAIN tx.signatures :
       tx.signatures[k].id = tx.id /\ tx.signatures[k].key \in Keys
  /\ IsInjective(tx.signatures)
  /\ Len(tx.signatures) >= Threshold

Accepts(tx, executed) == tx.id \notin executed /\ Authorised(tx)
=============================================================================
