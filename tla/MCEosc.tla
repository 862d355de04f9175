------------------------------- MODULE MCEosc -------------------------------
(***************************************************************************)
(* The programs of eosc and its packages, one of them in a behaviour: the  *)
(* wallet file, the envelope encryption, the forum's votes and their       *)
(* tally, the pipeline of transactions, and the sale of an account.        *)
(***************************************************************************)
EXTENDS Vault, TLC

CONSTANTS
  KMSBoxers, KeyPath, MaxDEKs,                                                \* envelope
  Voters, Stake, Asked, PageSize, MaxRows, Cap,                               \* forum
  Chains, Keys, Threshold, Wallets, KeysOf, Files, MaxBodies,                 \* transactions
  Prices, Funds, MaxChanges                                                   \* sale

VARIABLES
  program,
  kms, randoms, localDEK, localWrappedDEK, dekCache, pc, got, blobs, undecryptable, \* envelope
  table, tally, counted, rounds, answered,                                    \* forum
  madeFor, files, executed,                                                   \* transactions
  auth, extra, paid, command, proposal, held, sale                            \* sale

vaultVars == vars
envelopeVars == <<kms, randoms, localDEK, localWrappedDEK, dekCache, pc, got, blobs, undecryptable>>
forumVars == <<table, tally, counted, rounds, answered>>
transactionVars == <<madeFor, files, executed>>
saleVars == <<auth, extra, paid, command, proposal, held, sale>>

Envelope == INSTANCE Kms WITH MaxKeys <- MaxDEKs
Votes == INSTANCE Forum
Pipeline == INSTANCE EoscTx
Market == INSTANCE SellAccount WITH MaxKeys <- MaxChanges

ASSUME EoscAssumption ==
  /\ Envelope!KmsAssumption /\ Votes!ForumAssumption
  /\ Pipeline!EoscTxAssumption /\ Market!SellAccountAssumption

MCInit ==
  /\ program \in {"vault", "envelope", "forum", "transactions", "sale"}
  /\ Init
  /\ Envelope!Init
  /\ Votes!Init
  /\ Pipeline!Init
  /\ Market!Init
  /\ program # "sale" => extra = FALSE

MCNext ==
  /\ UNCHANGED program
  /\ \/ /\ program = "vault" /\ Next
        /\ UNCHANGED <<envelopeVars, forumVars, transactionVars, saleVars>>
     \/ /\ program = "envelope" /\ Envelope!Next
        /\ UNCHANGED <<vaultVars, forumVars, transactionVars, saleVars>>
     \/ /\ program = "forum" /\ Votes!Next
        /\ UNCHANGED <<vaultVars, envelopeVars, transactionVars, saleVars>>
     \/ /\ program = "transactions" /\ Pipeline!Next
        /\ UNCHANGED <<vaultVars, envelopeVars, forumVars, saleVars>>
     \/ /\ program = "sale" /\ Market!Next
        /\ UNCHANGED <<vaultVars, envelopeVars, forumVars, transactionVars>>

MCSpec ==
  MCInit /\ [][MCNext]_<<program, vaultVars, envelopeVars, forumVars, transactionVars, saleVars>>

-----------------------------------------------------------------------------
(* The small instance: two voters on two proposals make more rows than fit *)
(* in a page, one wallet has the keys a transaction needs, another a part  *)
(* of them, and of three boxers two share a key of KMS.                    *)
MCStake == "v1" :> 3 @@ "v2" :> 5
MCAsked == {-1, 1, 256}
MCKeyPath == "b1" :> "p" @@ "b2" :> "p" @@ "b3" :> "q"
MCKeysOf == "w1" :> {"k1", "k2"} @@ "w2" :> {"k2"}

-----------------------------------------------------------------------------
(* What was sealed opens with the key that KMS unwraps, and no two boxes   *)
(* are sealed with one key, over failures and wallets sealed again.        *)
EnvelopeSound == program = "envelope" => Envelope!EnvelopeSound

(* A tally that needed one answer is that of the rows in the answer.       *)
TallyIsAnswered == program = "forum" => Votes!TypeOK /\ Votes!TallyIsAnswered

(* A transaction is executed only on the chain it was made for, and what a *)
(* file holds belongs together.                                            *)
TransactionsSound == program = "transactions" => Pipeline!TransactionsSound

(* Either the seller has the account and no money, or the buyer has it and *)
(* has paid; it goes to authorities that the buyer has had.                *)
SaleSound == program = "sale" => Market!SaleSound
=============================================================================
