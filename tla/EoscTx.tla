------------------------------- MODULE EoscTx -------------------------------
(***************************************************************************)
(* How eosc makes, signs, writes and pushes a transaction: the pipeline of *)
(* eosc/cmd/common.go that every command with an action ends in, and the   *)
(* commands `tx sign` and `tx push` that go on with a written one.         *)
(*                                                                         *)
(* A transaction is known by a number, its body; a signature is the key,   *)
(* the body and the chain id it was made with.  A file is a signed         *)
(* transaction with the chain id noted beside it.                          *)
(***************************************************************************)
EXTENDS Integers, Sequences, FiniteSets

CONSTANTS
  Chains,      (* chain ids; a chain stands for its API URL too              *)
  Keys,        (* keys of the account's authority, each of weight 1          *)
  Threshold,   (* how many signatures a transaction needs                    *)
  Wallets,     (* vault files and wallet URLs                                *)
  KeysOf,      (* KeysOf[w]: the keys in a wallet                            *)
  Files,
  MaxBodies    (* bound: transactions made                                   *)

EoscTxAssumption ==
  /\ Wallets # {} /\ KeysOf \in [Wallets -> SUBSET Keys]
  /\ Threshold \in Nat \ {0} /\ MaxBodies \in Nat

VARIABLES
  madeFor,     (* madeFor[b]: the chain id that body b was made with         *)
  files,       (* the transaction files, or NoFile                           *)
  executed     (* executed[c]: the bodies that were executed on chain c      *)

vars == <<madeFor, files, executed>>

None == "none"
NoFile == [body |-> 0, signatures |-> {}, chain |-> None]
File(body, signatures, chain) == [body |-> body, signatures |-> signatures, chain |-> chain]
Signature(key, body, chain) == [key |-> key, body |-> body, chain |-> chain]

(***************************************************************************)
(* The flags: the node, the wallets (one vault, or wallet URLs), public    *)
(* keys to sign with, a chain id, whether to sign, the file to write to.   *)
(***************************************************************************)
Flags == [api : Chains, wallets : {W \in SUBSET Wallets : W # {}}, keys : SUBSET Keys,
          chain : Chains \cup {None}, skip : BOOLEAN, write : Files \cup {None}]

(* get_required_keys picks among the wallet's keys, or fails.              *)
RequiredKeys(flags, available) ==
  IF flags.keys # {} THEN {flags.keys}
  ELSE {K \in SUBSET available : Cardinality(K) = Threshold}

(***************************************************************************)
(* The signatures optionallySignTransaction may return; it returns none    *)
(* when the command exits: attachWallet refuses more than one wallet, and  *)
(* signing fails when keys it needs are not in the wallet.                 *)
(***************************************************************************)
optionallySignTransaction(flags, body, chain) ==
  IF flags.skip THEN {{}}
  ELSE {{Signature(k, body, chain) : k \in K} :
         K \in {R \in UNION {RequiredKeys(flags, KeysOf[w]) : w \in flags.wallets} :
                  \E w \in flags.wallets : flags.wallets = {w} /\ R \subseteq KeysOf[w]}}

(* nodeos takes no signature that does not recover to a key it needs.      *)
Accepts(chain, body, signatures) ==
  /\ body \notin executed[chain]
  /\ \A s \in signatures : s.body = body /\ s.chain = chain
  /\ Cardinality(signatures) >= Threshold

(* The push may fail, and its answer may be lost when it did not.          *)
pushTransaction(chain, body, signatures) ==
  \/ UNCHANGED executed
  \/ Accepts(chain, body, signatures) /\ executed' = [executed EXCEPT ![chain] = @ \cup {body}]

(* Writing to a file comes before pushing, and a push needs a signing.     *)
optionallyPushTransaction(flags, body, signatures, chain) ==
  \/ /\ flags.write # None
     /\ files' = [files EXCEPT ![flags.write] = File(body, signatures, chain)]
     /\ UNCHANGED executed
  \/ /\ flags.write = None /\ ~ flags.skip
     /\ pushTransaction(flags.api, body, signatures)
     /\ UNCHANGED files

Init ==
  /\ madeFor = <<>>
  /\ files = [f \in Files |-> NoFile]
  /\ executed = [c \in Chains |-> {}]

(***************************************************************************)
(* pushEOSCActions: the chain id and the reference block are those of the  *)
(* flags or the node's, so every call makes another body.                  *)
(***************************************************************************)
pushEOSCActions(flags) ==
  LET chain == IF flags.chain # None THEN flags.chain ELSE flags.api
      body == Len(madeFor) + 1 IN
  /\ Len(madeFor) < MaxBodies
  /\ madeFor' = Append(madeFor, chain)
  /\ \E signatures \in optionallySignTransaction(flags, body, chain) :
       optionallyPushTransaction(flags, body, signatures, chain)

(* A file may also come from elsewhere, without a chain id in it.          *)
GivenFile(f) ==
  /\ Len(madeFor) < MaxBodies
  /\ madeFor' = Append(madeFor, None)
  /\ files' = [files EXCEPT ![f] = File(Len(madeFor'), {}, None)]
  /\ UNCHANGED executed

ChainOfFlagsFirst(file, flags) == \* mutation: the flag takes precedence over the file
  IF flags.chain # None THEN flags.chain ELSE IF file.chain # None THEN file.chain ELSE flags.api

ChainOf(file, flags) ==
  IF file.chain # None THEN file.chain ELSE IF flags.chain # None THEN flags.chain ELSE flags.api

(***************************************************************************)
(* tx sign decodes the file as a Transaction, which has no signatures: the *)
(* ones of the file are dropped.                                           *)
(***************************************************************************)
TxSign(f, flags) ==
  /\ files[f].body # 0
  /\ LET chain == ChainOf(files[f], flags) IN
     \E signatures \in optionallySignTransaction(flags, files[f].body, chain) :
       optionallyPushTransaction(flags, files[f].body, signatures, chain)
  /\ UNCHANGED madeFor

TxPush(f, api) ==
  /\ files[f].body # 0
  /\ pushTransaction(api, files[f].body, files[f].signatures)
  /\ UNCHANGED <<madeFor, files>>

Next ==
  \/ \E flags \in Flags : pushEOSCActions(flags) \/ \E f \in Files : TxSign(f, flags)
  \/ \E f \in Files : GivenFile(f) \/ \E c \in Chains : TxPush(f, c)

Spec == Init /\ [][Next]_vars

-----------------------------------------------------------------------------
AllSignatures == [key : Keys, body : 1 .. Len(madeFor), chain : Chains]

(* Types; a file holds a transaction that was made, and an executed one    *)
(* was made.                                                               *)
TypeOK ==
  /\ madeFor \in Seq(Chains \cup {None}) /\ Len(madeFor) <= MaxBodies
  /\ \A f \in Files : files[f] = NoFile \/
       /\ files[f].body \in DOMAIN madeFor /\ files[f].chain \in Chains \cup {None}
       /\ files[f].signatures \subseteq AllSignatures
  /\ executed \in [Chains -> SUBSET DOMAIN madeFor]

(* A transaction is executed on no chain but the one it was made for,      *)
(* through whatever files it went and whichever nodes and chain ids later  *)
(* commands named.                                                         *)
ExecutedWhereMade ==
  \A c \in Chains : \A b \in executed[c] : madeFor[b] \in {c, None}

(* The signatures in a file are for its transaction and the chain id noted *)
(* in it, and their keys were together in one wallet.                      *)
FilesAreConsistent ==
  \A f \in Files :
    /\ \A s \in files[f].signatures : s.body = files[f].body /\ s.chain = files[f].chain
    /\ \E w \in Wallets : {s.key : s \in files[f].signatures} \subseteq KeysOf[w]

(* Transactions go only where they are meant to, through whatever files.   *)
TransactionsSound == TypeOK /\ ExecutedWhereMade /\ FilesAreConsistent
=============================================================================
