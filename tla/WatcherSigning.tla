--------------------------- MODULE WatcherSigning ---------------------------
(***************************************************************************)
(* The signing interface of the watchers (EOSWatcherInterface) as a        *)
(* gateway uses it: one node creates a transaction with CreateTx, every    *)
(* node signs it with PKMSign by the key of its PubKeyHash, one node       *)
(* merges enough signatures and sends the result.  After a failed push it  *)
(* may send the packed transaction again or merge again first.  Meanwhile  *)
(* UpdatePubKeyHash changes the key of a node.                             *)
(*                                                                         *)
(* The gateway is external; it calls the functions in this order and does  *)
(* not merge what is no signature.  The duration that it passes to         *)
(* CreateTx, which a node caps, runs on meanwhile: nothing in the watchers *)
(* stops a transaction from expiring before it is signed and sent.         *)
(***************************************************************************)
EXTENDS Signing

CONSTANTS
  Signers,    (* the watchers                                                *)
  HashOf,     (* per watcher the PubKeyHash its constructor was given        *)
  NextHash,   (* per watcher the one it may be changed to                    *)
  MaxSends    (* number of pushes of a gateway that merges again (bound)     *)

ASSUME SignersAssumption ==
  /\ IsFiniteSet(Signers)
  /\ HashOf \in [Signers -> Keys]
  /\ NextHash \in [Signers -> Keys]
  /\ MaxSends \in Nat

VARIABLES
  remerge,    (* whether the gateway merges again before it sends again      *)
  tx,         (* the transaction that is signed, or Nil                      *)
  expired,    (* whether its expiration has passed                           *)
  PubKeyHash, (* per watcher the field                                       *)
  asked,      (* per watcher the keys that were configured since its PKMSign *)
              (* asked the node, {} when none is under way                   *)
  signature,  (* per watcher what its last PKMSign returned                  *)
  basis,      (* history: the keys configured during that call               *)
  packedTx,   (* the packed transaction, or Nil                              *)
  merges,     (* history: how often signatures were merged                   *)
  sends,      (* how often it was pushed                                     *)
  answer,     (* what SendTx returned last                                   *)
  executed    (* ids of the transactions the chain executed                  *)

vars == <<remerge, tx, expired, PubKeyHash, asked, signature, basis, packedTx, merges, sends, answer, executed>>

Init ==
  /\ remerge \in BOOLEAN
  /\ tx = Nil /\ expired = FALSE
  /\ PubKeyHash = HashOf
  /\ asked = [s \in Signers |-> {}]
  /\ signature = [s \in Signers |-> Nil]
  /\ basis = [s \in Signers |-> {}]
  /\ packedTx = Nil
  /\ merges = 0
  /\ sends = 0
  /\ answer = "none"
  /\ executed = {}

(* With the node out of reach infoResp is nil and used: the process dies   *)
(* with nothing done, and is started again.                                *)
CreateTx ==
  /\ tx = Nil
  /\ tx' = NewTransaction(1)
  /\ UNCHANGED <<remerge, expired, PubKeyHash, asked, signature, basis, packedTx, merges, sends, answer, executed>>

(* SetExpiration(duration): the time given in CreateTx is over.             *)
Expire ==
  /\ tx # Nil /\ ~ expired
  /\ expired' = TRUE
  /\ UNCHANGED <<remerge, tx, PubKeyHash, asked, signature, basis, packedTx, merges, sends, answer, executed>>

UpdatePubKeyHash(s) ==
  /\ PubKeyHash[s] # NextHash[s]
  /\ PubKeyHash' = [PubKeyHash EXCEPT ![s] = NextHash[s]]
  /\ asked' = [asked EXCEPT ![s] = IF @ = {} THEN {} ELSE @ \cup {NextHash[s]}]
  /\ UNCHANGED <<remerge, tx, expired, signature, basis, packedTx, merges, sends, answer, executed>>

(* PKMSign up to the answer of GetInfo.                                    *)
AskChainId(s) ==
  /\ tx # Nil
  /\ asked[s] = {}
  /\ signature[s].kind = "nil" \/ signature[s] = Garbled
  /\ asked' = [asked EXCEPT ![s] = {PubKeyHash[s]}]
  /\ UNCHANGED <<remerge, tx, expired, PubKeyHash, signature, basis, packedTx, merges, sends, answer, executed>>

AskAnyKeyService(s) == \* mutation: the hash of another watcher
  /\ asked[s] # {}
  /\ \E other \in Signers : \E result \in PKMSign(tx, HashOf[other]) \ {Panic} :
       signature' = [signature EXCEPT ![s] = result]
  /\ basis' = [basis EXCEPT ![s] = asked[s]]
  /\ asked' = [asked EXCEPT ![s] = {}]
  /\ UNCHANGED <<remerge, tx, expired, PubKeyHash, packedTx, merges, sends, answer, executed>>

(* The key service is asked with the hash the field has now.  A panic      *)
(* takes the watcher down; it comes back with the constructor's hash.      *)
AskKeyService(s) ==
  /\ asked[s] # {}
  /\ \E result \in PKMSign(tx, PubKeyHash[s]) :
       /\ signature' = [signature EXCEPT ![s] = IF result = Panic THEN Nil ELSE result]
       /\ PubKeyHash' = IF result = Panic THEN [PubKeyHash EXCEPT ![s] = HashOf[s]] ELSE PubKeyHash
  /\ basis' = [basis EXCEPT ![s] = asked[s]]
  /\ asked' = [asked EXCEPT ![s] = {}]
  /\ UNCHANGED <<remerge, tx, expired, packedTx, merges, sends, answer, executed>>

(* The watchers whose signatures are merged: the gateway recovered their   *)
(* keys with GetPublickeyFromTx and found different ones of the account.   *)
Usable(S) ==
  /\ \A s \in S : signature[s] # Nil /\ signature[s].key \in Keys
  /\ \A s, t \in S : s # t => signature[s].key # signature[t].key

MergeOf(S) ==
  LET merged == MergeSignedTx(tx, SetToSeq({signature[s] : s \in S}))
  IN /\ tx' = merged
     /\ packedTx' = merged
     /\ merges' = merges + 1

Merge ==
  /\ tx # Nil
  /\ \/ packedTx = Nil
     \/ remerge /\ answer = "error" /\ sends = merges /\ merges < MaxSends
  /\ \E S \in SUBSET Signers :
       /\ Cardinality(S) >= Threshold
       /\ Usable(S)
       /\ MergeOf(S)
  /\ UNCHANGED <<remerge, expired, PubKeyHash, asked, signature, basis, sends, answer, executed>>

(* SendTx: nil and the error when the push or its answer is lost, or when  *)
(* the node refuses, as it does for ever what has expired.  Without merging *)
(* again pushes are not counted.                                           *)
Send ==
  /\ packedTx # Nil
  /\ answer # "ok"
  /\ remerge => sends < merges
  /\ sends' = IF remerge THEN sends + 1 ELSE sends
  /\ \/ /\ Accepts(packedTx, executed) /\ ~ expired
        /\ executed' = executed \cup {packedTx.id}
        /\ answer' \in {"ok", "error"}
     \/ UNCHANGED executed /\ answer' = "error"
  /\ UNCHANGED <<remerge, tx, expired, PubKeyHash, asked, signature, basis, packedTx, merges>>

Sign1(s) == AskChainId(s) \/ AskKeyService(s)

Next ==
  \/ CreateTx
  \/ Expire
  \/ \E s \in Signers : UpdatePubKeyHash(s) \/ Sign1(s)
  \/ Merge
  \/ Send

Spec == Init /\ [][Next]_vars

(***************************************************************************)
(* Fairness.  The watchers sign when asked, and asked again and again the  *)
(* key service at times signs; the gateway merges and sends, and sent      *)
(* again and again a push at times reaches the node.  Nothing is assumed   *)
(* of when the transaction expires.                                        *)
(***************************************************************************)
Signs(s) == AskKeyService(s) /\ signature'[s] = SignatureOf(PubKeyHash[s], tx.id)

Reaches == Send /\ executed' # executed

Fairness ==
  /\ WF_vars(CreateTx)
  /\ \A s \in Signers : WF_vars(Sign1(s)) /\ SF_vars(Signs(s))
  /\ WF_vars(Merge)
  /\ SF_vars(Reaches)

FairSpec == Spec /\ Fairness

-----------------------------------------------------------------------------
TypeOK ==
  /\ remerge \in BOOLEAN
  /\ tx.kind \in {"nil", "tx"}
  /\ expired \in BOOLEAN
  /\ PubKeyHash \in [Signers -> Keys]
  /\ asked \in [Signers -> SUBSET Keys]
  /\ \A s \in Signers : asked[s] # {} => PubKeyHash[s] \in asked[s] /\ tx # Nil
  /\ packedTx = Nil \/ packedTx = tx
  /\ sends <= merges
  /\ answer \in {"none", "ok", "error"}

(***************************************************************************)
(* The key is read after the node has answered: a signature is by a key    *)
(* that was configured at its watcher while PKMSign ran, and is of the     *)
(* transaction that was created.                                           *)
(***************************************************************************)
SignedByConfigured ==
  \A s \in Signers : signature[s] \notin {Nil, Garbled} =>
    signature[s].key \in basis[s] /\ signature[s].id = tx.id

(***************************************************************************)
(* A transaction is executed only by a push whose signatures were merged   *)
(* once: MergeSignedTx keeps the signatures of an earlier merge, so what   *)
(* is merged again is refused, and only sending again can succeed.         *)
(***************************************************************************)
ExecutedUnlessRemerged ==
  [][executed' # executed => merges = 1 /\ Authorised(packedTx)]_vars

(***************************************************************************)
(* By sending the packed transaction again until it is answered, the       *)
(* gateway gets a created transaction executed, unless it merges again or  *)
(* the transaction expires first.                                          *)
(***************************************************************************)
CreatedIsExecuted == tx # Nil ~> executed # {} \/ merges > 1 \/ expired
=============================================================================
