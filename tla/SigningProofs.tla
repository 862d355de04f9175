---------------------------- MODULE SigningProofs ----------------------------
(***************************************************************************)
(* Proofs about the signing of transactions: the watchers as a gateway     *)
(* uses them, for every number of watchers and keys and every threshold,   *)
(* and the program of tools/multisig/cmd.                                  *)
(***************************************************************************)
EXTENDS MCSigning, FunctionTheorems, FiniteSetTheorems, SequenceTheorems, TLAPS

(* The signatures there can be of the one transaction.                     *)
Signature == {SignatureOf(k, 1) : k \in Keys}

Txs == [kind : {"tx"}, id : {1}, signatures : Seq(Signature)]

LEMMA SignatureFacts ==
  /\ \A x \in Signature : x.kind = "signature" /\ x.key \in Keys /\ x.id = 1
  /\ \A x \in Signature : x \notin {Nil, Garbled, Panic}
  /\ Nil \notin {Garbled, Panic} /\ Garbled # Panic
  /\ Garbled.kind = "signature" /\ Garbled.key \notin Keys /\ Nil.kind = "nil"
<1>1. \A x \in Signature : x.kind = "signature" /\ x.key \in Keys /\ x.id = 1
  BY DEF Signature, SignatureOf
<1>2. Nil.kind = "nil" /\ Panic.kind = "panic" /\ Garbled.kind = "signature" /\ Garbled.key = "none"
  BY DEF Nil, Panic, Garbled
<1>3. "none" \notin Keys
  BY SigningAssumption
<1> HIDE DEF Signature, Nil, Panic, Garbled
<1> QED BY <1>1, <1>2, <1>3

LEMMA TxFacts == \A t \in Txs : t \notin {Nil, Panic} /\ t.kind = "tx" /\ t.id = 1
BY DEF Txs, Nil, Panic

(* The list that SetToSeq makes of a finite set has its elements.          *)
LEMMA ListOfSet ==
  ASSUME NEW S, IsFiniteSet(S)
  PROVE  /\ SetToSeq(S) \in Seq(S)
         /\ \A x \in S : \E k \in 1 .. Len(SetToSeq(S)) : SetToSeq(S)[k] = x
<1> DEFINE n == Cardinality(S)
<1>1. n \in Nat /\ ExistsBijection(1..n, S)
  BY FS_CardinalityType
<1>2. PICK g : g \in Bijection(1..n, S)
  BY <1>1 DEF ExistsBijection
<1>3. g \in [1..n -> S] /\ IsInjective(g)
  BY <1>2 DEF Bijection, Injection
<1>4. SetToSeq(S) \in [1..n -> S] /\ IsInjective(SetToSeq(S))
  BY <1>3, Zenon DEF SetToSeq
<1>5. IsFiniteSet(1..n) /\ Cardinality(1..n) = n
  BY <1>1, FS_Interval
<1>6. SetToSeq(S) \in Injection(1..n, S)
  BY <1>4 DEF Injection
<1>7. SetToSeq(S) \in Surjection(1..n, S)
  BY <1>5, <1>6, FS_Injection
<1> HIDE DEF n
<1>8. SetToSeq(S) \in Seq(S) /\ Len(SetToSeq(S)) = n
  BY <1>1, <1>4
<1> QED BY <1>7, <1>8 DEF Surjection

-----------------------------------------------------------------------------
(* The signers S have signed and their signatures are in the transaction.  *)
Within(S) ==
  \A s \in S : signature[s] \in Signature /\ \E k \in DOMAIN tx.signatures : tx.signatures[k] = signature[s]

Types ==
  /\ remerge \in BOOLEAN
  /\ tx \in Txs \cup {Nil} /\ expired \in BOOLEAN
  /\ PubKeyHash \in [Signers -> Keys]
  /\ asked \in [Signers -> SUBSET Keys]
  /\ signature \in [Signers -> Signature \cup {Nil, Garbled}]
  /\ basis \in [Signers -> SUBSET Keys]
  /\ packedTx = Nil \/ packedTx = tx
  /\ merges \in Nat /\ sends \in Nat /\ sends <= merges
  /\ answer \in {"none", "ok", "error"}

(* Nothing is asked, signed or merged before there is a transaction, and   *)
(* the key service is asked with a key configured since PKMSign began.     *)
Asked ==
  /\ tx = Nil => merges = 0 /\ \A s \in Signers : asked[s] = {} /\ signature[s] = Nil
  /\ \A s \in Signers : asked[s] # {} => PubKeyHash[s] \in asked[s] /\ signature[s] \in {Nil, Garbled}

(* What was merged stays in the transaction: a quorum's signatures, and    *)
(* after a second merge one of them twice.                                 *)
Merged ==
  /\ packedTx # Nil => merges >= 1
  /\ merges >= 1 => tx # Nil /\ \E S \in SUBSET Signers : Cardinality(S) >= Threshold /\ Within(S)
  /\ merges >= 2 => ~ IsInjective(tx.signatures)

SigningInv == Types /\ Asked /\ SignedByConfigured

(* Two quorums have a watcher in common.                                   *)
Overlapping == 2 * Threshold > Cardinality(Signers)

LEMMA SigningInvInit == Init => SigningInv /\ Merged
<1> SUFFICES ASSUME Init PROVE SigningInv /\ Merged
  OBVIOUS
<1>1. SigningInv
  <2>1. remerge \in BOOLEAN /\ expired \in BOOLEAN /\ tx \in Txs \cup {Nil} /\ packedTx = Nil
    BY Zenon DEF Init
  <2>3. PubKeyHash \in [Signers -> Keys] /\ asked \in [Signers -> SUBSET Keys]
    BY SignersAssumption DEF Init
  <2>4. signature \in [Signers -> Signature \cup {Nil, Garbled}] /\ basis \in [Signers -> SUBSET Keys]
    BY DEF Init
  <2>5. merges \in Nat /\ sends \in Nat /\ sends <= merges /\ answer \in {"none", "ok", "error"}
    BY DEF Init
  <2>6. Types
    BY <2>1, <2>3, <2>4, <2>5, Zenon DEF Types
  <2>2. Asked /\ SignedByConfigured
    BY DEF Init, Asked, SignedByConfigured
  <2> QED BY <2>2, <2>6 DEF SigningInv
<1>2. Merged
  BY DEF Init, Merged
<1> QED BY <1>1, <1>2

(* What is merged is the transaction with the signatures of S added.       *)
LEMMA MergeFacts ==
  ASSUME SigningInv, tx # Nil, NEW S \in SUBSET Signers, Usable(S), MergeOf(S)
  PROVE  /\ tx' \in Txs /\ packedTx' = tx' /\ merges' = merges + 1
         /\ \A s \in S : signature[s] \in Signature
         /\ Len(tx.signatures) \in Nat /\ Len(tx'.signatures) \in Nat
         /\ DOMAIN tx.signatures = 1 .. Len(tx.signatures)
         /\ DOMAIN tx'.signatures = 1 .. Len(tx'.signatures)
         /\ Len(tx.signatures) <= Len(tx'.signatures)
         /\ \A k \in 1 .. Len(tx.signatures) : tx'.signatures[k] = tx.signatures[k]
         /\ \A s \in S : \E k \in Len(tx.signatures) + 1 .. Len(tx'.signatures) :
              tx'.signatures[k] = signature[s]
<1> DEFINE new == {signature[s] : s \in S}
           list == SetToSeq(new)
<1>1. tx \in Txs /\ signature \in [Signers -> Signature \cup {Nil, Garbled}]
  BY DEF SigningInv, Types
<1>2. \A s \in S : signature[s] \in Signature
  BY <1>1, SignatureFacts DEF Usable
<1>3. new \subseteq Signature /\ IsFiniteSet(new)
  <2>1. IsFiniteSet(S)
    BY SignersAssumption, FS_Subset
  <2> DEFINE f == [s \in S |-> signature[s]]
  <2>2. f \in Surjection(S, new)
    BY DEF Surjection
  <2>3. IsFiniteSet(new)
    BY <2>1, <2>2, FS_Surjection
  <2> QED BY <1>2, <2>3
<1>4. list \in Seq(new) /\ \A x \in new : \E k \in 1 .. Len(list) : list[k] = x
  BY <1>3, ListOfSet
<1>5. tx' = MergeSignedTx(tx, list) /\ packedTx' = tx' /\ merges' = merges + 1
  BY DEF MergeOf
<1> HIDE DEF new, list
<1>6. list \in Seq(Signature) /\ tx.signatures \in Seq(Signature)
  BY <1>1, <1>3, <1>4 DEF Txs
<1>7. ~ Contains(list, Nil)
  BY <1>6, SignatureFacts DEF Contains
<1>8. tx' = [tx EXCEPT !.signatures = tx.signatures \o list]
  BY <1>1, <1>5, <1>7, TxFacts DEF MergeSignedTx
<1> DEFINE all == tx.signatures \o list
<1>9. /\ all \in Seq(Signature) /\ Len(all) = Len(tx.signatures) + Len(list)
      /\ Len(tx.signatures) \in Nat /\ Len(list) \in Nat
      /\ \A k \in 1 .. Len(tx.signatures) : all[k] = tx.signatures[k]
      /\ \A k \in 1 .. Len(list) : all[Len(tx.signatures) + k] = list[k]
  BY <1>6
<1>10. tx' \in Txs /\ tx'.signatures = all
  BY <1>1, <1>8, <1>9 DEF Txs
<1> HIDE DEF all
<1>11. ASSUME NEW s \in S
       PROVE  \E k \in Len(tx.signatures) + 1 .. Len(all) : all[k] = signature[s]
  <2>1. PICK k \in 1 .. Len(list) : list[k] = signature[s]
    BY <1>4 DEF new
  <2>2. Len(tx.signatures) + k \in Len(tx.signatures) + 1 .. Len(all)
    BY <1>9
  <2> QED BY <1>9, <2>1, <2>2
<1>12. DOMAIN tx.signatures = 1 .. Len(tx.signatures) /\ DOMAIN all = 1 .. Len(all)
  BY <1>6, <1>9
<1> QED BY <1>2, <1>5, <1>9, <1>10, <1>11, <1>12

(* What is in the transaction stays there.                                 *)
LEMMA MergeKeeps ==
  ASSUME SigningInv, Overlapping, tx # Nil, Merged, NEW S \in SUBSET Signers, Cardinality(S) >= Threshold,
         Usable(S), MergeOf(S), signature' = signature
  PROVE  Merged'
<1>1. /\ tx' \in Txs /\ packedTx' = tx' /\ merges' = merges + 1 /\ merges \in Nat
      /\ \A s \in S : signature[s] \in Signature
      /\ Len(tx.signatures) \in Nat /\ Len(tx'.signatures) \in Nat
      /\ DOMAIN tx.signatures = 1 .. Len(tx.signatures)
      /\ DOMAIN tx'.signatures = 1 .. Len(tx'.signatures)
      /\ Len(tx.signatures) <= Len(tx'.signatures)
      /\ \A k \in 1 .. Len(tx.signatures) : tx'.signatures[k] = tx.signatures[k]
      /\ \A s \in S : \E k \in Len(tx.signatures) + 1 .. Len(tx'.signatures) :
           tx'.signatures[k] = signature[s]
  BY MergeFacts DEF SigningInv, Types
<1>2. tx' # Nil
  BY <1>1, TxFacts
<1>3. Within(S)'
  <2>1. ASSUME NEW s \in S
        PROVE  signature[s] \in Signature /\ \E k \in DOMAIN tx'.signatures : tx'.signatures[k] = signature[s]
    <3>1. PICK k \in Len(tx.signatures) + 1 .. Len(tx'.signatures) : tx'.signatures[k] = signature[s]
      BY <1>1
    <3>2. k \in DOMAIN tx'.signatures
      BY <1>1
    <3> QED BY <1>1, <3>1, <3>2
  <2> QED BY <2>1 DEF Within
<1>4. ASSUME merges >= 1 PROVE ~ IsInjective(tx'.signatures)
  <2>1. PICK R \in SUBSET Signers : Cardinality(R) >= Threshold /\ Within(R)
    BY <1>4 DEF Merged
  <2>2. PICK s \in R : s \in S
    <3>1. IsFiniteSet(R) /\ IsFiniteSet(S) /\ Cardinality(R \cup S) <= Cardinality(Signers)
      BY SignersAssumption, FS_Subset
    <3>2. Cardinality(R \cup S) = Cardinality(R) + Cardinality(S) - Cardinality(R \cap S)
      BY <3>1, FS_Union
    <3>3. /\ Cardinality(R) \in Nat /\ Cardinality(S) \in Nat /\ Cardinality(Signers) \in Nat
          /\ Threshold \in Nat
      BY <3>1, SignersAssumption, SigningAssumption, FS_CardinalityType
    <3>4. R \cap S # {}
      <4> SUFFICES ASSUME R \cap S = {} PROVE FALSE
        OBVIOUS
      <4>1. Cardinality(R \cap S) = 0
        BY FS_EmptySet
      <4> QED BY <2>1, <3>1, <3>2, <3>3, <4>1 DEF Overlapping
    <3> QED BY <3>4
  <2>3. PICK j \in 1 .. Len(tx.signatures) : tx.signatures[j] = signature[s]
    BY <1>1, <2>1, <2>2 DEF Within
  <2>4. PICK k \in Len(tx.signatures) + 1 .. Len(tx'.signatures) : tx'.signatures[k] = signature[s]
    BY <1>1, <2>2
  <2>5. j \in DOMAIN tx'.signatures /\ k \in DOMAIN tx'.signatures /\ j # k
    BY <1>1
  <2>6. tx'.signatures[j] = tx'.signatures[k]
    BY <1>1, <2>3, <2>4
  <2> QED BY <2>5, <2>6 DEF IsInjective
<1>5. merges' >= 2 => merges >= 1
  BY <1>1
<1> QED BY <1>1, <1>2, <1>3, <1>4, <1>5 DEF Merged

(* A step that leaves the transaction, its signatures and the merges alone.*)
LEMMA MergedFrame ==
  ASSUME Merged, UNCHANGED <<tx, packedTx, merges>>,
         \A s \in Signers : signature[s] \in Signature => signature'[s] = signature[s]
  PROVE  Merged'
<1>1. ASSUME NEW S \in SUBSET Signers, Within(S) PROVE Within(S)'
  BY <1>1 DEF Within
<1> QED BY <1>1 DEF Merged

LEMMA SigningStep ==
  ASSUME SigningInv, [Next]_vars
  PROVE  SigningInv' /\ (Overlapping /\ Merged => Merged')
<1>0. Types /\ Asked /\ SignedByConfigured
  BY DEF SigningInv
<1>1. CASE CreateTx
  <2>1. NewTransaction(1) \in Txs
    BY DEF NewTransaction, Txs
  <2>2. NewTransaction(1) # Nil
    BY <2>1, TxFacts
  <2>3. merges = 0 /\ packedTx = Nil /\ tx' = NewTransaction(1) /\ \A s \in Signers : asked[s] = {} /\ signature[s] = Nil
    <3>1. merges = 0 /\ tx = Nil
      BY <1>0, <1>1 DEF CreateTx, Asked
    <3> QED BY <1>0, <1>1, <3>1 DEF CreateTx, Asked, Types
  <2>4. Types' /\ Asked' /\ SignedByConfigured'
    BY <1>0, <1>1, <2>1, <2>2, <2>3 DEF CreateTx, Types, Asked, SignedByConfigured
  <2>5. Merged'
    BY <1>1, <2>3 DEF CreateTx, Merged
  <2> QED BY <2>4, <2>5 DEF SigningInv
<1>2. ASSUME NEW s \in Signers, UpdatePubKeyHash(s) PROVE SigningInv' /\ (Merged => Merged')
  <2>1. Types' /\ Asked' /\ SignedByConfigured'
    BY <1>0, <1>2, SignersAssumption DEF UpdatePubKeyHash, Types, Asked, SignedByConfigured
  <2>2. Merged => Merged'
    BY <1>2, MergedFrame DEF UpdatePubKeyHash
  <2> QED BY <2>1, <2>2 DEF SigningInv
<1>3. ASSUME NEW s \in Signers, AskChainId(s) PROVE SigningInv' /\ (Merged => Merged')
  <2>1. Types' /\ Asked' /\ SignedByConfigured'
    BY <1>0, <1>3, SignatureFacts DEF AskChainId, Types, Asked, SignedByConfigured
  <2>2. Merged => Merged'
    BY <1>3, MergedFrame DEF AskChainId
  <2> QED BY <2>1, <2>2 DEF SigningInv
<1>4. ASSUME NEW s \in Signers, AskKeyService(s) PROVE SigningInv' /\ (Merged => Merged')
  <2>1. asked[s] # {} /\ tx \in Txs /\ tx # Nil /\ signature[s] \in {Nil, Garbled}
        /\ PubKeyHash[s] \in asked[s] /\ PubKeyHash[s] \in Keys /\ asked[s] \in SUBSET Keys
    BY <1>0, <1>4 DEF AskKeyService, Types, Asked
  <2>2. PKMSign(tx, PubKeyHash[s]) = {SignatureOf(PubKeyHash[s], 1), Garbled, Nil, Panic}
    BY <2>1, TxFacts DEF PKMSign, Sign
  <2>3. PICK result \in {SignatureOf(PubKeyHash[s], 1), Garbled, Nil, Panic} :
          /\ signature' = [signature EXCEPT ![s] = IF result = Panic THEN Nil ELSE result]
          /\ PubKeyHash' = IF result = Panic THEN [PubKeyHash EXCEPT ![s] = HashOf[s]] ELSE PubKeyHash
    BY <1>4, <2>2 DEF AskKeyService
  <2> DEFINE x == IF result = Panic THEN Nil ELSE result
  <2>4. SignatureOf(PubKeyHash[s], 1) \in Signature
    BY <2>1 DEF Signature
  <2>5. x \in Signature \cup {Nil, Garbled}
    BY <2>4
  <2>6. x \in Signature => x.key = PubKeyHash[s]
    BY <2>4, SignatureFacts DEF SignatureOf
  <2> HIDE DEF x
  <2>7. /\ signature' = [signature EXCEPT ![s] = x]
        /\ PubKeyHash' \in [Signers -> Keys] /\ \A t \in Signers : t # s => PubKeyHash'[t] = PubKeyHash[t]
    BY <1>0, <2>3, SignersAssumption DEF x, Types
  <2>8. /\ basis' = [basis EXCEPT ![s] = asked[s]] /\ asked' = [asked EXCEPT ![s] = {}]
        /\ UNCHANGED <<remerge, tx, expired, packedTx, merges, sends, answer, executed>>
    BY <1>4 DEF AskKeyService
  <2>9. Types'
    BY <1>0, <2>5, <2>7, <2>8 DEF Types
  <2>10. Asked'
    BY <1>0, <2>1, <2>7, <2>8 DEF Types, Asked
  <2>11. SignedByConfigured'
    <3>1. ASSUME NEW t \in Signers, signature'[t] \notin {Nil, Garbled}
          PROVE  signature'[t].key \in basis'[t] /\ signature'[t].id = tx'.id
      <4>1. CASE t = s
        <5>1. signature'[t] = x /\ basis'[t] = asked[s] /\ x \in Signature
          BY <1>0, <2>5, <2>7, <2>8, <3>1, <4>1 DEF Types
        <5> QED BY <2>1, <2>6, <2>8, <5>1, SignatureFacts, TxFacts
      <4>2. CASE t # s
        <5>1. signature'[t] = signature[t] /\ basis'[t] = basis[t]
          BY <1>0, <2>7, <2>8, <4>2 DEF Types
        <5> QED BY <1>0, <2>8, <3>1, <5>1 DEF SignedByConfigured
      <4> QED BY <4>1, <4>2
    <3> QED BY <3>1 DEF SignedByConfigured
  <2>12. Merged => Merged'
    BY <1>0, <2>1, <2>7, <2>8, MergedFrame, SignatureFacts DEF Types
  <2> QED BY <2>9, <2>10, <2>11, <2>12 DEF SigningInv
<1>5. CASE Merge
  <2>1. PICK S \in SUBSET Signers : Cardinality(S) >= Threshold /\ Usable(S) /\ MergeOf(S)
    BY <1>5 DEF Merge
  <2>2. tx # Nil /\ UNCHANGED <<remerge, expired, PubKeyHash, asked, signature, basis, sends, answer, executed>>
    BY <1>5 DEF Merge
  <2>3. tx' \in Txs /\ packedTx' = tx' /\ merges' = merges + 1
    BY <2>1, <2>2, MergeFacts
  <2>4. tx'.id = tx.id /\ tx' # Nil
    BY <1>0, <2>2, <2>3, TxFacts DEF Types
  <2>5. Types' /\ Asked' /\ SignedByConfigured'
    BY <1>0, <2>2, <2>3, <2>4 DEF Types, Asked, SignedByConfigured
  <2>6. Overlapping /\ Merged => Merged'
    BY <2>1, <2>2, MergeKeeps
  <2> QED BY <2>5, <2>6 DEF SigningInv
<1>6. CASE Send
  <2>1. UNCHANGED <<remerge, tx, expired, PubKeyHash, asked, signature, basis, packedTx, merges>>
    BY <1>6 DEF Send
  <2>2. sends' \in Nat /\ sends' <= merges
    BY <1>0, <1>6 DEF Send, Types
  <2>3. answer' \in {"none", "ok", "error"}
    BY <1>6 DEF Send
  <2>4. Types' /\ Asked' /\ SignedByConfigured'
    BY <1>0, <2>1, <2>2, <2>3 DEF Types, Asked, SignedByConfigured
  <2>5. Merged => Merged'
    BY <2>1, MergedFrame
  <2> QED BY <2>4, <2>5 DEF SigningInv
<1>7. CASE UNCHANGED vars
  <2>1. Types' /\ Asked' /\ SignedByConfigured'
    BY <1>0, <1>7 DEF vars, Types, Asked, SignedByConfigured
  <2>2. Merged => Merged'
    BY <1>7, MergedFrame DEF vars
  <2> QED BY <2>1, <2>2 DEF SigningInv
<1>8. CASE Expire
  <2>1. Types' /\ Asked' /\ SignedByConfigured'
    BY <1>0, <1>8 DEF Expire, Types, Asked, SignedByConfigured
  <2>2. Merged => Merged'
    BY <1>8, MergedFrame DEF Expire
  <2> QED BY <2>1, <2>2 DEF SigningInv
<1> QED BY <1>1, <1>2, <1>3, <1>4, <1>5, <1>6, <1>7, <1>8 DEF Next, Sign1

-----------------------------------------------------------------------------
(* The program of tools/multisig/cmd.                                      *)
MultiSignature == {SignatureOf(Multi!KeyNames[k], 1) : k \in 1..4} \cup {Garbled}

MultiTx == [kind : {"tx"}, id : {1}, signatures : Seq(MultiSignature)]

(* What is pushed carries the three signatures of a merge.                 *)
WholeTx == {t \in MultiTx : Len(t.signatures) >= 3}

MultiInv ==
  /\ pc \in {"build", "sign", "recover", "merge", "send", "over"}
  /\ key \in 1..4
  /\ round \in 1..2
  /\ sentTx \in MultiTx \cup {Nil}
  /\ sign \in [1..4 -> MultiSignature \cup {Nil}]
  /\ pc = "send" => sentPacked \in WholeTx
  /\ pushed \in Seq(WholeTx)
  /\ Len(pushed) <= round
  /\ pc # "over" => Len(pushed) = round - 1
  /\ sentExecuted \subseteq {1}
  /\ Multi!SecondOnlyAfterFirst

LEMMA MultiSignatureFacts ==
  /\ \A x \in MultiSignature : x.kind = "signature" /\ x # Nil /\ x # Panic
  /\ Nil.kind = "nil" /\ Nil # Panic
BY DEF MultiSignature, SignatureOf, Garbled, Nil, Panic

LEMMA MultiTxFacts == \A t \in MultiTx : t \notin {Nil, Panic} /\ t.kind = "tx" /\ t.id = 1
BY DEF MultiTx, Nil, Panic

LEMMA MultiNil == Multi!Nil = Nil /\ Multi!Panic = Panic
BY DEF Multi!Nil, Multi!Panic, Nil, Panic

LEMMA MultiInvInit == Multi!Init => MultiInv
<1> SUFFICES ASSUME Multi!Init PROVE MultiInv
  OBVIOUS
<1> QED BY MultiNil DEF Multi!Init, MultiInv, Multi!SecondOnlyAfterFirst

(* A merge that does not fail adds three signatures.                       *)
LEMMA MultiMergeFacts ==
  ASSUME MultiInv, NEW list \in [1..3 -> MultiSignature \cup {Nil}],
         NEW merged, merged = Multi!MergeSignedTx(sentTx, list), merged # Panic
  PROVE  merged \in WholeTx
<1>1. /\ sentTx # Nil /\ ~ Multi!Contains(list, Nil)
      /\ merged = [sentTx EXCEPT !.signatures = sentTx.signatures \o list]
  BY MultiNil DEF Multi!MergeSignedTx
<1>2. sentTx \in MultiTx
  BY <1>1 DEF MultiInv
<1>3. Len(list) = 3
  <2>1. list \in Seq(MultiSignature \cup {Nil})
    BY SeqDef
  <2> QED BY <2>1, LenProperties
<1>4. \A k \in 1..3 : list[k] # Nil
  BY <1>1, <1>3 DEF Multi!Contains
<1>5. list \in Seq(MultiSignature)
  <2>1. list \in [1..3 -> MultiSignature]
    BY <1>4
  <2> QED BY <2>1, SeqDef
<1>6. sentTx.signatures \in Seq(MultiSignature)
  BY <1>2 DEF MultiTx
<1> DEFINE all == sentTx.signatures \o list
<1>7. all \in Seq(MultiSignature) /\ Len(all) >= 3
  <2>1. all \in Seq(MultiSignature) /\ Len(all) = Len(sentTx.signatures) + Len(list)
    BY <1>5, <1>6, ConcatProperties
  <2>2. Len(sentTx.signatures) \in Nat
    BY <1>6
  <2> HIDE DEF all
  <2> QED BY <1>3, <2>1, <2>2
<1> HIDE DEF all
<1>8. merged \in MultiTx /\ merged.signatures = all
  BY <1>1, <1>2, <1>7 DEF MultiTx, all
<1> QED BY <1>7, <1>8 DEF WholeTx

LEMMA MultiStep == MultiInv /\ [Multi!Next]_multiVars => MultiInv'
<1> SUFFICES ASSUME MultiInv, [Multi!Next]_multiVars PROVE MultiInv'
  OBVIOUS
<1> USE MultiNil
<1>1. CASE Multi!Build
  <2> DEFINE new == Multi!NewTransaction(1)
  <2>0. new \in MultiTx
    BY DEF Multi!NewTransaction, MultiTx
  <2> HIDE DEF new
  <2>1. sentTx' \in MultiTx \cup {Nil}
    BY <1>1, <2>0 DEF Multi!Build, new
  <2> QED BY <1>1, <2>1 DEF Multi!Build, MultiInv, Multi!SecondOnlyAfterFirst
<1>2. CASE Multi!SignKey
  <2>1. PICK result \in Multi!PKMSign(sentTx, Multi!KeyNames[key]) :
          IF result = Panic
          THEN pc' = "over" /\ UNCHANGED sign
          ELSE pc' = "recover" /\ sign' = [sign EXCEPT ![key] = result]
    BY <1>2 DEF Multi!SignKey
  <2>2. result \in MultiSignature \cup {Nil, Panic}
    <3>1. CASE sentTx = Nil
      BY <2>1, <3>1 DEF Multi!PKMSign
    <3>2. CASE sentTx # Nil
      <4>1. sentTx.id = 1
        BY <3>2, MultiTxFacts DEF MultiInv
      <4>2. Multi!SignatureOf(Multi!KeyNames[key], 1) \in MultiSignature /\ Multi!Garbled \in MultiSignature
        BY DEF MultiSignature, MultiInv, Multi!SignatureOf, SignatureOf, Multi!Garbled, Garbled
      <4> QED BY <2>1, <3>2, <4>1, <4>2 DEF Multi!PKMSign, Multi!Sign
    <3> QED BY <3>1, <3>2
  <2>3. sign' \in [1..4 -> MultiSignature \cup {Nil}] /\ pc' \in {"over", "recover"}
    BY <2>1, <2>2 DEF MultiInv
  <2>4. UNCHANGED <<key, round, sentTx, sentPacked, pushed, sentExecuted>> /\ pc = "sign"
    BY <1>2 DEF Multi!SignKey
  <2> QED BY <2>3, <2>4 DEF MultiInv, Multi!SecondOnlyAfterFirst
<1>3. CASE Multi!RecoverKey
  <2>1. pc' \in {"over", "merge", "sign"} /\ key' \in 1..4 /\ pc = "recover"
    BY <1>3 DEF Multi!RecoverKey, MultiInv
  <2>2. UNCHANGED <<round, sentTx, sign, sentPacked, pushed, sentExecuted>>
    BY <1>3 DEF Multi!RecoverKey
  <2> QED BY <2>1, <2>2 DEF MultiInv, Multi!SecondOnlyAfterFirst
<1>4. CASE Multi!Merge
  <2> DEFINE list == [k \in 1..3 |-> sign[Multi!Chosen[k]]]
             merged == Multi!MergeSignedTx(sentTx, list)
  <2>1. \A k \in 1..3 : Multi!Chosen[k] \in 1..4
    BY DEF Multi!Chosen
  <2>2. list \in [1..3 -> MultiSignature \cup {Nil}]
    BY <2>1 DEF MultiInv
  <2>3. \/ pc' = "over" /\ UNCHANGED <<sentTx, sentPacked>>
        \/ merged # Panic /\ sentTx' = merged /\ pc' = "send" /\ sentPacked' = merged
        \/ merged # Panic /\ sentTx' = merged /\ pc' = "over" /\ UNCHANGED sentPacked
    BY <1>4 DEF Multi!Merge
  <2> HIDE DEF list
  <2>4. merged # Panic => merged \in WholeTx
    BY <2>2, MultiMergeFacts
  <2> HIDE DEF merged
  <2>5. UNCHANGED <<key, round, sign, pushed, sentExecuted>> /\ pc = "merge"
    BY <1>4 DEF Multi!Merge
  <2>6. sentTx' \in MultiTx \cup {Nil}
    BY <2>3, <2>4 DEF MultiInv, WholeTx
  <2> QED BY <2>3, <2>4, <2>5, <2>6 DEF MultiInv, Multi!SecondOnlyAfterFirst
<1>5. CASE Multi!Send
  <2>1. /\ pc = "send" /\ pushed' = Append(pushed, sentPacked) /\ UNCHANGED <<key, sentTx, sign, sentPacked>>
        /\ Len(pushed) = round - 1 /\ sentPacked \in WholeTx /\ pushed \in Seq(WholeTx)
    BY <1>5 DEF Multi!Send, MultiInv
  <2>2. pushed' \in Seq(WholeTx) /\ Len(pushed') = round
    BY <2>1 DEF MultiInv
  <2>3. CASE Multi!Accepts(sentPacked, sentExecuted) /\ sentExecuted' = sentExecuted \cup {sentPacked.id}
             /\ \/ round = 1 /\ pc' = "merge" /\ round' = 2
                \/ pc' = "over" /\ UNCHANGED round
    <3>1. sentPacked.id = 1 /\ sentExecuted' = {1}
      BY <2>1, <2>3, MultiTxFacts DEF WholeTx, MultiInv
    <3>2. Multi!Authorised(sentPacked)
      BY <2>3 DEF Multi!Accepts
    <3>3. round = 1 => pushed' # <<>> /\ pushed'[1] = sentPacked
      BY <2>1
    <3>4. round = 2 => pushed' # <<>> /\ pushed'[1] = pushed[1]
      BY <2>1, <2>2
    <3>5. Multi!SecondOnlyAfterFirst'
      BY <2>3, <3>1, <3>2, <3>3, <3>4 DEF Multi!SecondOnlyAfterFirst, MultiInv, Multi!Authorised
    <3> QED BY <2>1, <2>2, <2>3, <3>1, <3>5 DEF MultiInv
  <2>4. CASE pc' = "over" /\ UNCHANGED <<round, sentExecuted>>
    <3>1. round = 2 => pushed' # <<>> /\ pushed'[1] = pushed[1]
      BY <2>1, <2>2
    <3>2. Multi!SecondOnlyAfterFirst'
      BY <2>4, <3>1 DEF Multi!SecondOnlyAfterFirst, MultiInv, Multi!Authorised
    <3> QED BY <2>1, <2>2, <2>4, <3>2 DEF MultiInv
  <2> QED BY <1>5, <2>3, <2>4 DEF Multi!Send
<1>6. CASE Multi!Over \/ UNCHANGED multiVars
  <2>1. UNCHANGED <<pc, key, round, sentTx, sign, sentPacked, pushed, sentExecuted>>
    BY <1>6 DEF Multi!Over, Multi!vars, multiVars
  <2> QED BY <2>1 DEF MultiInv, Multi!SecondOnlyAfterFirst
<1> QED BY <1>1, <1>2, <1>3, <1>4, <1>5, <1>6 DEF Multi!Next

-----------------------------------------------------------------------------
BothInv == SigningInv /\ MultiInv

LEMMA BothInit == MCInit => BothInv /\ Merged
BY SigningInvInit, MultiInvInit DEF MCInit, BothInv

LEMMA BothStep ==
  BothInv /\ [MCNext]_<<program, vars, multiVars>> => BothInv' /\ (Overlapping /\ Merged => Merged')
<1> SUFFICES ASSUME BothInv, [MCNext]_<<program, vars, multiVars>>
             PROVE  BothInv' /\ (Overlapping /\ Merged => Merged')
  OBVIOUS
<1>1. [Next]_vars /\ [Multi!Next]_multiVars
  BY DEF MCNext
<1> QED BY <1>1, SigningStep, MultiStep DEF BothInv

(***************************************************************************)
(* A signature is by a key that was configured at its watcher while        *)
(* PKMSign ran, and of the transaction that CreateTx made.                 *)
(***************************************************************************)
THEOREM SignedCorrect == MCSpec => []SignedByConfigured
<1>1. BothInv => SignedByConfigured
  BY DEF BothInv, SigningInv
<1>2. BothInv /\ [MCNext]_<<program, vars, multiVars>> => BothInv'
  BY BothStep
<1>3. MCInit => BothInv
  BY BothInit
<1> QED BY <1>1, <1>2, <1>3, PTL DEF MCSpec

(***************************************************************************)
(* Both users of MergeSignedTx keep their types, and the program of        *)
(* tools/multisig/cmd pushes nothing with a signature short and nothing a  *)
(* second time unless the first push was executed.                         *)
(***************************************************************************)
THEOREM PushedCorrect == MCSpec => []PushedWhole
<1>1. BothInv => PushedWhole
  <2> SUFFICES ASSUME BothInv PROVE PushedWhole
    OBVIOUS
  <2>1. TypeOK
    BY SignatureFacts, TxFacts DEF BothInv, SigningInv, Types, Asked, TypeOK
  <2>2. \A k \in 1..4 : sign[k].kind \in {"nil", "signature"}
    BY MultiSignatureFacts DEF BothInv, MultiInv
  <2>3. sentTx.kind \in {"nil", "tx"}
    BY MultiSignatureFacts, MultiTxFacts DEF BothInv, MultiInv
  <2>4. Multi!TypeOK
    BY <2>2, <2>3 DEF BothInv, MultiInv, Multi!TypeOK
  <2>5. Multi!NothingPartialPushed /\ Multi!SecondOnlyAfterFirst
    BY DEF BothInv, MultiInv, WholeTx, Multi!NothingPartialPushed
  <2> QED BY <2>1, <2>4, <2>5 DEF PushedWhole
<1>2. BothInv /\ [MCNext]_<<program, vars, multiVars>> => BothInv'
  BY BothStep
<1>3. MCInit => BothInv
  BY BothInit
<1> QED BY <1>1, <1>2, <1>3, PTL DEF MCSpec

(***************************************************************************)
(* If any two quorums of watchers have one in common, a transaction is     *)
(* executed only by a push whose signatures were merged once: MergeSignedTx*)
(* keeps what it merged before, and a common watcher's signature would be  *)
(* there twice.                                                            *)
(***************************************************************************)
THEOREM ExecutedCorrect ==
  ASSUME Overlapping
  PROVE  MCSpec => ExecutedUnlessRemerged
<1>1. BothInv /\ Merged /\ [MCNext]_<<program, vars, multiVars>>
      => [executed' # executed => merges = 1 /\ Authorised(packedTx)]_vars
  <2> SUFFICES ASSUME BothInv, Merged, [MCNext]_<<program, vars, multiVars>>, executed' # executed
               PROVE  merges = 1 /\ Authorised(packedTx)
    OBVIOUS
  <2>1. Send
    BY DEF MCNext, Next, vars, CreateTx, Expire, UpdatePubKeyHash, Sign1, AskChainId, AskKeyService, Merge
  <2>2. packedTx # Nil /\ Authorised(packedTx)
    BY <2>1 DEF Send, Accepts
  <2>3. packedTx = tx /\ merges \in Nat
    BY <2>2 DEF BothInv, SigningInv, Types
  <2>4. IsInjective(tx.signatures)
    BY <2>2, <2>3 DEF Authorised
  <2> QED BY <2>2, <2>3, <2>4 DEF Merged
<1>2. BothInv /\ Merged /\ [MCNext]_<<program, vars, multiVars>> => BothInv' /\ Merged'
  BY BothStep
<1>3. MCInit => BothInv /\ Merged
  BY BothInit
<1> QED BY <1>1, <1>2, <1>3, PTL DEF MCSpec, ExecutedUnlessRemerged
=============================================================================
