-------------------------------- MODULE Kms --------------------------------
(***************************************************************************)
(* The envelope encryption of vault/kmsgcp.go.  A KMSGCPBoxer seals data   *)
(* with a data key drawn for it and puts the key, wrapped by Google's KMS, *)
(* beside the data.  It makes a KMSGCPManager for every call of Seal and   *)
(* Open and drops it afterwards; nothing else makes one, so that a manager *)
(* is never shared and what it caches is never used.  A wallet is opened   *)
(* and sealed again by one boxer, and several processes of eosc may have a *)
(* boxer each.                                                             *)
(*                                                                         *)
(* Plain keys are numbers, 0 the zero array a manager starts with; wrapped *)
(* keys are the positions of a sequence of what KMS was asked to wrap.     *)
(***************************************************************************)
EXTENDS Integers, Sequences

CONSTANTS
  KMSBoxers, (* each of one process                                          *)
  KeyPath,   (* per boxer the KMS key it was made with                       *)
  MaxKeys    (* bound: random data keys                                      *)

KmsAssumption == MaxKeys \in Nat /\ KeyPath = [b \in KMSBoxers |-> KeyPath[b]]

VARIABLES
  kms,             (* external: kms[w] is the key wrapped as w, and by what  *)
  randoms,         (* number of keys drawn                                   *)
  localDEK, localWrappedDEK, dekCache, (* per boxer, those of the manager of *)
                   (* its last call; 0 for "", a map from wrapped to plain   *)
                   (* keys, Nil when there is none                           *)
  pc, got,         (* got[b]: the blob b is opening                          *)
  blobs,           (* what was sealed, with the key it was sealed with       *)
  undecryptable    (* history: blobs that secretbox.Open refused             *)

vars == <<kms, randoms, localDEK, localWrappedDEK, dekCache, pc, got, blobs, undecryptable>>

Nil == <<>>
ManagerKept(b) == \* mutation: a boxer makes its manager once and keeps it
  [localDEK |-> localDEK[b], localWrappedDEK |-> localWrappedDEK[b], dekCache |-> dekCache[b]]
NewKMSGCPManager(b) == [localDEK |-> 0, localWrappedDEK |-> 0, dekCache |-> Nil]

Init ==
  /\ kms = <<>> /\ randoms = 0
  /\ localDEK = [b \in KMSBoxers |-> 0]
  /\ localWrappedDEK = [b \in KMSBoxers |-> 0]
  /\ dekCache = [b \in KMSBoxers |-> Nil]
  /\ pc = [b \in KMSBoxers |-> "idle"] /\ got = [b \in KMSBoxers |-> 0]
  /\ blobs = <<>> /\ undecryptable = {}

Goto(b, label) == pc' = [pc EXCEPT ![b] = label]

UseManager(b, manager) ==
  /\ localDEK' = [localDEK EXCEPT ![b] = manager.localDEK]
  /\ localWrappedDEK' = [localWrappedDEK EXCEPT ![b] = manager.localWrappedDEK]
  /\ dekCache' = [dekCache EXCEPT ![b] = manager.dekCache]

-----------------------------------------------------------------------------
(* Seal up to setupEncryption's look at the cache.                         *)
Seal(b) ==
  /\ pc[b] = "idle"
  /\ UseManager(b, NewKMSGCPManager(b))
  /\ Goto(b, IF dekCache'[b] = Nil THEN "draw" ELSE "encrypt")
  /\ UNCHANGED <<kms, randoms, got, blobs, undecryptable>>

Draw(b) ==
  /\ pc[b] = "draw" /\ randoms < MaxKeys
  /\ randoms' = randoms + 1
  /\ localDEK' = [localDEK EXCEPT ![b] = randoms']
  /\ Goto(b, "wrap")
  /\ UNCHANGED <<kms, localWrappedDEK, dekCache, got, blobs, undecryptable>>

Wrap(b) ==
  /\ pc[b] = "wrap"
  /\ kms' = Append(kms, [keyPath |-> KeyPath[b], key |-> localDEK[b]])
  /\ localWrappedDEK' = [localWrappedDEK EXCEPT ![b] = Len(kms')]
  /\ dekCache' = [dekCache EXCEPT ![b] = [w \in {Len(kms')} |-> localDEK[b]]]
  /\ Goto(b, "encrypt")
  /\ UNCHANGED <<randoms, localDEK, got, blobs, undecryptable>>

Encrypt(b) ==
  /\ pc[b] = "encrypt"
  /\ blobs' = Append(blobs, [keyPath |-> KeyPath[b], wrapped |-> localWrappedDEK[b], key |-> localDEK[b]])
  /\ Goto(b, "idle")
  /\ UNCHANGED <<kms, randoms, localDEK, localWrappedDEK, dekCache, got, undecryptable>>

-----------------------------------------------------------------------------
Open(b, i) ==
  /\ pc[b] = "idle"
  /\ UseManager(b, NewKMSGCPManager(b))
  /\ got' = [got EXCEPT ![b] = i]
  /\ Goto(b, "fetch")
  /\ UNCHANGED <<kms, randoms, blobs, undecryptable>>

(* fetchPlainDEK and the opening.  KMS unwraps only what it wrapped under  *)
(* the same key.                                                           *)
Decrypt(b) ==
  LET blob == blobs[got[b]]
      w == blob.wrapped
      Cached == DOMAIN dekCache[b]
      plain == IF w \in Cached THEN dekCache[b][w] ELSE kms[w].key
  IN
    /\ pc[b] = "fetch"
    /\ w \in Cached \/ kms[w].keyPath = KeyPath[b]
    /\ dekCache' = [dekCache EXCEPT ![b] = [v \in Cached \cup {w} |-> IF v = w THEN plain ELSE dekCache[b][v]]]
    /\ localWrappedDEK' = [localWrappedDEK EXCEPT ![b] = IF @ = 0 THEN w ELSE @]
    /\ undecryptable' = IF plain = blob.key THEN undecryptable ELSE undecryptable \cup {got[b]}
    /\ Goto(b, "idle")
    /\ UNCHANGED <<kms, randoms, localDEK, got, blobs>>

(* A request to KMS, or drawing random bytes, fails: the call returns.     *)
Fail(b) ==
  /\ pc[b] \in {"draw", "wrap", "encrypt", "fetch"}
  /\ Goto(b, "idle")
  /\ UNCHANGED <<kms, randoms, localDEK, localWrappedDEK, dekCache, got, blobs, undecryptable>>

Next ==
  \E b \in KMSBoxers :
    \/ Seal(b) \/ Draw(b) \/ Wrap(b) \/ Encrypt(b)
    \/ \E i \in DOMAIN blobs : Open(b, i)
    \/ Decrypt(b) \/ Fail(b)

Spec == Init /\ [][Next]_vars

-----------------------------------------------------------------------------
TypeOK ==
  /\ randoms \in 0 .. MaxKeys
  /\ \A w \in DOMAIN kms : kms[w].key \in 1 .. randoms
  /\ \A b \in KMSBoxers : localDEK[b] \in 0 .. randoms /\ localWrappedDEK[b] \in 0 .. Len(kms)

(* Whatever was sealed lies beside the key it opens with, wrapped under    *)
(* the boxer's key, and no box is refused that KMS unwraps, over failed    *)
(* requests, wallets opened and sealed again, and boxers at the same time. *)
SealedOpens ==
  /\ undecryptable = {}
  /\ \A i \in DOMAIN blobs :
       /\ blobs[i].wrapped \in DOMAIN kms
       /\ kms[blobs[i].wrapped] = [keyPath |-> blobs[i].keyPath, key |-> blobs[i].key]

(* No two boxes are sealed with one key, whether a request failed between  *)
(* them or the boxer opened another box.                                   *)
KeysAreFresh == \A i, j \in DOMAIN blobs : blobs[i].key = blobs[j].key => i = j

EnvelopeSound == TypeOK /\ SealedOpens /\ KeysAreFresh
=============================================================================
