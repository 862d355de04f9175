----------------------------- MODULE EoscProofs -----------------------------
(***************************************************************************)
(* Proofs that each part of eosc keeps its invariants, whatever the        *)
(* others do between its steps: the wallet file, the envelope encryption,  *)
(* the forum's tally, the transaction pipeline and the sale of an account. *)
(* Each section states an inductive invariant of one part, that the part's *)
(* actions keep it, and last the theorem.                                  *)
(***************************************************************************)
EXTENDS MCEosc, Sequences, FiniteSums, SequenceTheorems

(***************************************************************************)
(* The wallet file.                                                        *)
(***************************************************************************)
Busy == [pc : {"entering", "sealed", "truncated", "written"}, command : {"create", "add"},
         boxer : Boxers, keys : SUBSET (1 .. made), new : SUBSET (1 .. made)]

(* The keys a user was shown or is about to be.                            *)
Promised(k) ==
  \/ \E entry \in shown : k = entry.key
  \/ \E s \in Shells : run[s].pc = "written" /\ k \in run[s].new

(* Something that still has key k opens it with boxer b.                   *)
Opens(k, b) ==
  \/ file.state = "whole" /\ k \in file.keys /\ b = file.boxer
  \/ \E s \in Shells : run[s] # Idle /\ k \in run[s].keys /\ b = run[s].boxer
  \/ \E entry \in shown : k = entry.key /\ b = entry.boxer

OneBoxer == \A k \in 1 .. made : \A b, c \in Boxers : Opens(k, b) /\ Opens(k, c) => b = c

NewIsKept == \A s \in Shells : run[s] # Idle => run[s].new \subseteq run[s].keys

(* While no write was cut short and no commands overlapped, the file and   *)
(* every bag that may replace it have the promised keys, and a command     *)
(* that truncated the file is the only one at work.                        *)
Kept ==
  /\ file # Torn => \A k \in 1 .. made : Promised(k) => k \in FileKeys
  /\ \A s \in Shells : AtWork(s) => \A k \in 1 .. made : Promised(k) => k \in run[s].keys
  /\ \A s \in Shells : run[s].pc = "truncated" => file = Torn /\ \A other \in Shells \ {s} : ~ AtWork(other)

VaultInv ==
  /\ TypeOK /\ run \in [Shells -> {Idle} \cup Busy]
  /\ TornOnlyByCut /\ NewIsKept /\ OneBoxer /\ (~ cut /\ ~ overlapped => Kept)

LEMMA VaultInitial == Init => VaultInv
<1> SUFFICES ASSUME Init PROVE VaultInv
  OBVIOUS
<1>1. \A s \in Shells : run[s] = Idle /\ run[s].pc = "idle"
  BY DEF Init, Idle
<1>2. TypeOK /\ run \in [Shells -> {Idle} \cup Busy]
  <2>1. file \in {Absent, Torn} /\ made \in 0 .. MaxKeys /\ shown \subseteq [key : 1 .. made, boxer : Boxers]
    BY VaultAssumption DEF Init
  <2>2. cut \in BOOLEAN /\ overlapped \in BOOLEAN /\ run \in [Shells -> {Idle} \cup Busy]
    BY DEF Init
  <2> QED BY <1>1, <2>1, <2>2 DEF TypeOK
<1>3. TornOnlyByCut /\ NewIsKept /\ OneBoxer /\ Kept
  BY <1>1 DEF Init, Absent, Torn, Promised, Opens, OneBoxer, NewIsKept, Kept, TornOnlyByCut, AtWork
<1> QED BY <1>2, <1>3 DEF VaultInv

LEMMA VaultSafe == VaultInv => WalletSafe
<1> SUFFICES ASSUME VaultInv PROVE ShownAreKept /\ ShownAreOpenable
  BY DEF VaultInv, WalletSafe
<1>1. ShownAreKept
  BY DEF VaultInv, ShownAreKept, ShownKeys, FileKeys, Kept, Promised, TypeOK, TornOnlyByCut, Torn, Absent, AtWork
<1>2. ShownAreOpenable
  BY DEF VaultInv, ShownAreOpenable, FileKeys, OneBoxer, Opens, TypeOK, Torn, Absent
<1> QED BY <1>1, <1>2
LEMMA CreateKeeps ==
  ASSUME VaultInv, NEW s \in Shells, NEW b \in Boxers, Create(s, b)
  PROVE  VaultInv'
<1>1. /\ run' \in [Shells -> {Idle} \cup Busy'] /\ made' \in 0 .. MaxKeys /\ made <= made'
      /\ run' = [run EXCEPT ![s] = run'[s]] /\ \A t \in Shells \ {s} : run'[t] = run[t]
  BY VaultAssumption DEF VaultInv, TypeOK, Busy, Create, FileKeys, AtWork, Absent, Torn, Sealed, Idle
<1>2. TypeOK'
  BY <1>1, VaultAssumption DEF VaultInv, TypeOK, Busy, Create, FileKeys, AtWork, Absent, Torn, Sealed, Idle
<1>3. TornOnlyByCut'
  BY <1>1 DEF VaultInv, TypeOK, Busy, TornOnlyByCut, Create, FileKeys, AtWork, Absent, Torn, Sealed, Idle
<1>4. NewIsKept'
  BY <1>1 DEF VaultInv, TypeOK, Busy, NewIsKept, Create, FileKeys, AtWork, Absent, Torn, Sealed, Idle
<1>5. OneBoxer'
  BY <1>1 DEF VaultInv, TypeOK, Busy, OneBoxer, Opens, Create, FileKeys, AtWork, Absent, Torn, Sealed, Idle
<1>6. ~ cut' /\ ~ overlapped' => Kept'
  BY <1>1 DEF VaultInv, TypeOK, Busy, NewIsKept, TornOnlyByCut, Kept, Promised, Create, FileKeys, AtWork, Absent, Torn, Sealed, Idle
<1> QED BY <1>1, <1>2, <1>3, <1>4, <1>5, <1>6 DEF VaultInv

LEMMA LoadKeeps ==
  ASSUME VaultInv, NEW s \in Shells, NEW b \in Boxers, Load(s, b)
  PROVE  VaultInv'
<1>1. /\ run' \in [Shells -> {Idle} \cup Busy'] /\ made' \in 0 .. MaxKeys /\ made <= made'
      /\ run' = [run EXCEPT ![s] = run'[s]] /\ \A t \in Shells \ {s} : run'[t] = run[t]
  BY VaultAssumption DEF VaultInv, TypeOK, Busy, Load, FileKeys, AtWork, Absent, Torn, Sealed, Idle
<1>2. TypeOK'
  BY <1>1, VaultAssumption DEF VaultInv, TypeOK, Busy, Load, FileKeys, AtWork, Absent, Torn, Sealed, Idle
<1>3. TornOnlyByCut'
  BY <1>1 DEF VaultInv, TypeOK, Busy, TornOnlyByCut, Load, FileKeys, AtWork, Absent, Torn, Sealed, Idle
<1>4. NewIsKept'
  BY <1>1 DEF VaultInv, TypeOK, Busy, NewIsKept, Load, FileKeys, AtWork, Absent, Torn, Sealed, Idle
<1>5. OneBoxer'
  BY <1>1 DEF VaultInv, TypeOK, Busy, OneBoxer, Opens, Load, FileKeys, AtWork, Absent, Torn, Sealed, Idle
<1>6. ~ cut' /\ ~ overlapped' => Kept'
  BY <1>1 DEF VaultInv, TypeOK, Busy, NewIsKept, TornOnlyByCut, Kept, Promised, Load, FileKeys, AtWork, Absent, Torn, Sealed, Idle
<1> QED BY <1>1, <1>2, <1>3, <1>4, <1>5, <1>6 DEF VaultInv

LEMMA EnterKeeps ==
  ASSUME VaultInv, NEW s \in Shells, NEW n \in 0 .. 2, Enter(s, n)
  PROVE  VaultInv'
<1>1. /\ run' \in [Shells -> {Idle} \cup Busy'] /\ made' \in 0 .. MaxKeys /\ made <= made'
      /\ run' = [run EXCEPT ![s] = run'[s]] /\ \A t \in Shells \ {s} : run'[t] = run[t]
  <2> DEFINE new == made + 1 .. made + n
  <2>1. made' \in 0 .. MaxKeys /\ made \in Nat /\ made <= made' /\ made' = made + n
    BY VaultAssumption DEF VaultInv, TypeOK, Enter
  <2>2. new \subseteq 1 .. made' /\ 1 .. made \subseteq 1 .. made'
    BY <2>1
  <2>3. \A r \in Busy : r \in Busy'
    BY <2>2 DEF Busy
  <2>4. run \in [Shells -> {Idle} \cup Busy] /\ run[s] \in Busy
    BY DEF VaultInv, Enter, Idle
  <2>5. run' = [run EXCEPT ![s] = [run[s] EXCEPT !.pc = "sealed", !.keys = @ \cup new, !.new = new]]
    BY DEF Enter
  <2> HIDE DEF new
  <2>6. [run[s] EXCEPT !.pc = "sealed", !.keys = @ \cup new, !.new = new] \in Busy'
    BY <2>2, <2>4 DEF Busy
  <2> QED BY <2>1, <2>3, <2>4, <2>5, <2>6
<1>2. TypeOK'
  BY <1>1, VaultAssumption DEF VaultInv, TypeOK, Busy, Enter, FileKeys, AtWork, Absent, Torn, Sealed, Idle
<1>3. TornOnlyByCut'
  BY <1>1 DEF VaultInv, TypeOK, Busy, TornOnlyByCut, Enter, FileKeys, AtWork, Absent, Torn, Sealed, Idle
<1>4. NewIsKept'
  BY <1>1 DEF VaultInv, TypeOK, Busy, NewIsKept, Enter, FileKeys, AtWork, Absent, Torn, Sealed, Idle
<1>5. OneBoxer'
  BY <1>1 DEF VaultInv, TypeOK, Busy, OneBoxer, Opens, Enter, FileKeys, AtWork, Absent, Torn, Sealed, Idle
<1>6. ~ cut' /\ ~ overlapped' => Kept'
  BY <1>1 DEF VaultInv, TypeOK, Busy, NewIsKept, TornOnlyByCut, Kept, Promised, Enter, FileKeys, AtWork, Absent, Torn, Sealed, Idle
<1> QED BY <1>1, <1>2, <1>3, <1>4, <1>5, <1>6 DEF VaultInv

LEMMA TruncateKeeps ==
  ASSUME VaultInv, NEW s \in Shells, Truncate(s)
  PROVE  VaultInv'
<1>1. /\ run' \in [Shells -> {Idle} \cup Busy'] /\ made' \in 0 .. MaxKeys /\ made <= made'
      /\ run' = [run EXCEPT ![s] = run'[s]] /\ \A t \in Shells \ {s} : run'[t] = run[t]
  BY VaultAssumption DEF VaultInv, TypeOK, Busy, Truncate, FileKeys, AtWork, Absent, Torn, Sealed, Idle
<1>2. TypeOK'
  BY <1>1, VaultAssumption DEF VaultInv, TypeOK, Busy, Truncate, FileKeys, AtWork, Absent, Torn, Sealed, Idle
<1>3. TornOnlyByCut'
  BY <1>1 DEF VaultInv, TypeOK, Busy, TornOnlyByCut, Truncate, FileKeys, AtWork, Absent, Torn, Sealed, Idle
<1>4. NewIsKept'
  BY <1>1 DEF VaultInv, TypeOK, Busy, NewIsKept, Truncate, FileKeys, AtWork, Absent, Torn, Sealed, Idle
<1>5. OneBoxer'
  BY <1>1 DEF VaultInv, TypeOK, Busy, OneBoxer, Opens, Truncate, FileKeys, AtWork, Absent, Torn, Sealed, Idle
<1>6. ~ cut' /\ ~ overlapped' => Kept'
  <2> SUFFICES ASSUME ~ cut', ~ overlapped' PROVE Kept'
    OBVIOUS
  <2>1. Kept /\ \A other \in Shells \ {s} : ~ AtWork(other)
    BY DEF Truncate, VaultInv, TypeOK
  <2>2. run[s].pc = "sealed" /\ run'[s].pc = "truncated" /\ run'[s].keys = run[s].keys /\ run'[s].new = run[s].new
    BY <1>1 DEF Truncate, VaultInv, Busy, Idle
  <2>3. \A k : Promised(k)' => Promised(k)
    BY <1>1, <2>2 DEF Truncate, Promised
  <2>4. \A t \in Shells : AtWork(t)' => t = s
    BY <1>1, <2>1 DEF AtWork
  <2>5. \A k \in 1 .. made' : Promised(k)' => k \in run'[s].keys
    BY <2>1, <2>2, <2>3 DEF Truncate, Kept, AtWork
  <2>6. file' = Torn
    BY DEF Truncate
  <2>7. \A t \in Shells : run'[t].pc = "truncated" => AtWork(t)'
    BY DEF AtWork
  <2> QED BY <2>4, <2>5, <2>6, <2>7 DEF Kept
<1> QED BY <1>1, <1>2, <1>3, <1>4, <1>5, <1>6 DEF VaultInv

LEMMA WriteKeeps ==
  ASSUME VaultInv, NEW s \in Shells, Write(s)
  PROVE  VaultInv'
<1>1. /\ run' \in [Shells -> {Idle} \cup Busy'] /\ made' \in 0 .. MaxKeys /\ made <= made'
      /\ run' = [run EXCEPT ![s] = run'[s]] /\ \A t \in Shells \ {s} : run'[t] = run[t]
  BY VaultAssumption DEF VaultInv, TypeOK, Busy, Write, FileKeys, AtWork, Absent, Torn, Sealed, Idle
<1>2. TypeOK'
  BY <1>1, VaultAssumption DEF VaultInv, TypeOK, Busy, Write, FileKeys, AtWork, Absent, Torn, Sealed, Idle
<1>3. TornOnlyByCut'
  BY <1>1 DEF VaultInv, TypeOK, Busy, TornOnlyByCut, Write, FileKeys, AtWork, Absent, Torn, Sealed, Idle
<1>4. NewIsKept'
  BY <1>1 DEF VaultInv, TypeOK, Busy, NewIsKept, Write, FileKeys, AtWork, Absent, Torn, Sealed, Idle
<1>5. OneBoxer'
  BY <1>1 DEF VaultInv, TypeOK, Busy, OneBoxer, Opens, Write, FileKeys, AtWork, Absent, Torn, Sealed, Idle
<1>6. ~ cut' /\ ~ overlapped' => Kept'
  BY <1>1 DEF VaultInv, TypeOK, Busy, NewIsKept, TornOnlyByCut, Kept, Promised, Write, FileKeys, AtWork, Absent, Torn, Sealed, Idle
<1> QED BY <1>1, <1>2, <1>3, <1>4, <1>5, <1>6 DEF VaultInv

LEMMA WriteFailsKeeps ==
  ASSUME VaultInv, NEW s \in Shells, WriteFails(s)
  PROVE  VaultInv'
<1>1. /\ run' \in [Shells -> {Idle} \cup Busy'] /\ made' \in 0 .. MaxKeys /\ made <= made'
      /\ run' = [run EXCEPT ![s] = run'[s]] /\ \A t \in Shells \ {s} : run'[t] = run[t]
  BY VaultAssumption DEF VaultInv, TypeOK, Busy, WriteFails, FileKeys, AtWork, Absent, Torn, Sealed, Idle
<1>2. TypeOK'
  BY <1>1, VaultAssumption DEF VaultInv, TypeOK, Busy, WriteFails, FileKeys, AtWork, Absent, Torn, Sealed, Idle
<1>3. TornOnlyByCut'
  BY <1>1 DEF VaultInv, TypeOK, Busy, TornOnlyByCut, WriteFails, FileKeys, AtWork, Absent, Torn, Sealed, Idle
<1>4. NewIsKept'
  BY <1>1 DEF VaultInv, TypeOK, Busy, NewIsKept, WriteFails, FileKeys, AtWork, Absent, Torn, Sealed, Idle
<1>5. OneBoxer'
  BY <1>1 DEF VaultInv, TypeOK, Busy, OneBoxer, Opens, WriteFails, FileKeys, AtWork, Absent, Torn, Sealed, Idle
<1>6. ~ cut' /\ ~ overlapped' => Kept'
  BY <1>1 DEF VaultInv, TypeOK, Busy, NewIsKept, TornOnlyByCut, Kept, Promised, WriteFails, FileKeys, AtWork, Absent, Torn, Sealed, Idle
<1> QED BY <1>1, <1>2, <1>3, <1>4, <1>5, <1>6 DEF VaultInv

LEMMA ReportKeeps ==
  ASSUME VaultInv, NEW s \in Shells, vaultWrittenReport(s)
  PROVE  VaultInv'
<1>1. /\ run' \in [Shells -> {Idle} \cup Busy'] /\ made' \in 0 .. MaxKeys /\ made <= made'
      /\ run' = [run EXCEPT ![s] = run'[s]] /\ \A t \in Shells \ {s} : run'[t] = run[t]
  BY VaultAssumption DEF VaultInv, TypeOK, Busy, vaultWrittenReport, FileKeys, AtWork, Absent, Torn, Sealed, Idle
<1>2. TypeOK'
  BY <1>1, VaultAssumption DEF VaultInv, TypeOK, Busy, vaultWrittenReport, FileKeys, AtWork, Absent, Torn, Sealed, Idle
<1>3. TornOnlyByCut'
  BY <1>1 DEF VaultInv, TypeOK, Busy, TornOnlyByCut, vaultWrittenReport, FileKeys, AtWork, Absent, Torn, Sealed, Idle
<1>4. NewIsKept'
  BY <1>1 DEF VaultInv, TypeOK, Busy, NewIsKept, vaultWrittenReport, FileKeys, AtWork, Absent, Torn, Sealed, Idle
<1>5. OneBoxer'
  <2>1. run[s].pc = "written" /\ run[s] # Idle /\ run'[s] = Idle /\ file' = file /\ made' = made
    BY <1>1 DEF vaultWrittenReport, VaultInv, Idle
  <2>2. run[s].new \subseteq run[s].keys
    BY <2>1 DEF VaultInv, NewIsKept
  <2>3. \A entry \in shown' : entry \in shown \/ (entry.key \in run[s].keys /\ entry.boxer = run[s].boxer)
    BY <2>2 DEF vaultWrittenReport
  <2>4. \A k, b : Opens(k, b)' => Opens(k, b)
    BY <1>1, <2>1, <2>3 DEF Opens
  <2> QED BY <2>1, <2>4 DEF VaultInv, OneBoxer
<1>6. ~ cut' /\ ~ overlapped' => Kept'
  BY <1>1 DEF VaultInv, TypeOK, Busy, NewIsKept, TornOnlyByCut, Kept, Promised, vaultWrittenReport, FileKeys, AtWork, Absent, Torn, Sealed, Idle
<1> QED BY <1>1, <1>2, <1>3, <1>4, <1>5, <1>6 DEF VaultInv

LEMMA ExitKeeps ==
  ASSUME VaultInv, NEW s \in Shells, Exit(s)
  PROVE  VaultInv'
<1>1. /\ run' \in [Shells -> {Idle} \cup Busy'] /\ made' \in 0 .. MaxKeys /\ made <= made'
      /\ run' = [run EXCEPT ![s] = run'[s]] /\ \A t \in Shells \ {s} : run'[t] = run[t]
  BY VaultAssumption DEF VaultInv, TypeOK, Busy, Exit, FileKeys, AtWork, Absent, Torn, Sealed, Idle
<1>2. TypeOK'
  BY <1>1, VaultAssumption DEF VaultInv, TypeOK, Busy, Exit, FileKeys, AtWork, Absent, Torn, Sealed, Idle
<1>3. TornOnlyByCut'
  BY <1>1 DEF VaultInv, TypeOK, Busy, TornOnlyByCut, Exit, FileKeys, AtWork, Absent, Torn, Sealed, Idle
<1>4. NewIsKept'
  BY <1>1 DEF VaultInv, TypeOK, Busy, NewIsKept, Exit, FileKeys, AtWork, Absent, Torn, Sealed, Idle
<1>5. OneBoxer'
  BY <1>1 DEF VaultInv, TypeOK, Busy, OneBoxer, Opens, Exit, FileKeys, AtWork, Absent, Torn, Sealed, Idle
<1>6. ~ cut' /\ ~ overlapped' => Kept'
  BY <1>1 DEF VaultInv, TypeOK, Busy, NewIsKept, TornOnlyByCut, Kept, Promised, Exit, FileKeys, AtWork, Absent, Torn, Sealed, Idle
<1> QED BY <1>1, <1>2, <1>3, <1>4, <1>5, <1>6 DEF VaultInv

LEMMA SetAsideKeeps ==
  ASSUME VaultInv, SetAside
  PROVE  VaultInv'
<1>1. /\ run' = run /\ made' = made /\ \A s \in Shells : run[s] = Idle
  BY DEF SetAside
<1>2. TypeOK'
  BY <1>1, VaultAssumption DEF VaultInv, TypeOK, Busy, SetAside, FileKeys, AtWork, Absent, Torn, Sealed, Idle
<1>3. TornOnlyByCut'
  BY <1>1 DEF VaultInv, TypeOK, Busy, TornOnlyByCut, SetAside, FileKeys, AtWork, Absent, Torn, Sealed, Idle
<1>4. NewIsKept'
  BY <1>1 DEF VaultInv, TypeOK, Busy, NewIsKept, SetAside, FileKeys, AtWork, Absent, Torn, Sealed, Idle
<1>5. OneBoxer'
  BY <1>1 DEF VaultInv, TypeOK, Busy, OneBoxer, Opens, SetAside, FileKeys, AtWork, Absent, Torn, Sealed, Idle
<1>6. ~ cut' /\ ~ overlapped' => Kept'
  BY <1>1 DEF VaultInv, TypeOK, Busy, NewIsKept, TornOnlyByCut, Kept, Promised, SetAside, FileKeys, AtWork, Absent, Torn, Sealed, Idle
<1> QED BY <1>1, <1>2, <1>3, <1>4, <1>5, <1>6 DEF VaultInv

LEMMA VaultStep == VaultInv /\ [Next]_vars => VaultInv'
<1> SUFFICES ASSUME VaultInv, [Next]_vars PROVE VaultInv'
  OBVIOUS
<1>1. CASE Next
  BY <1>1, CreateKeeps, LoadKeeps, EnterKeeps, TruncateKeeps, WriteKeeps, WriteFailsKeeps, ReportKeeps, ExitKeeps,
     SetAsideKeeps DEF Next
<1>2. CASE UNCHANGED vars
  BY <1>2 DEF vars, VaultInv, TypeOK, Busy, TornOnlyByCut, NewIsKept, OneBoxer, Opens, Kept, Promised, FileKeys, AtWork
<1> QED BY <1>1, <1>2

(***************************************************************************)
(* However the commands on the wallet file fail, are abandoned or overlap, *)
(* a file without a content is being written or a write was cut short, a   *)
(* key that a user was shown opens with the boxer he entered wherever it   *)
(* is, and it is in the file, or in the bag that is about to replace it,   *)
(* as long as no write was cut short and no two commands overlapped.       *)
(***************************************************************************)
THEOREM WalletCorrect == MCSpec => []WalletSafe
<1>1. MCInit => VaultInv
  BY VaultInitial DEF MCInit
<1>2. VaultInv /\ [MCNext]_<<program, vaultVars, envelopeVars, forumVars, transactionVars, saleVars>> => VaultInv'
  BY VaultStep DEF MCNext, vaultVars
<1> QED BY <1>1, <1>2, VaultSafe, PTL DEF MCSpec

(***************************************************************************)
(* The envelope encryption.                                                *)
(***************************************************************************)
Labels == {"idle", "draw", "wrap", "encrypt", "fetch"}
Paths == {KeyPath[b] : b \in KMSBoxers}

EnvelopeTypes ==
  /\ randoms \in 0 .. MaxDEKs
  /\ kms \in Seq([keyPath : Paths, key : Nat])
  /\ \A w \in 1 .. Len(kms) : kms[w].key \in 1 .. randoms
  /\ blobs \in Seq([keyPath : Paths, wrapped : Nat, key : Nat])
  /\ localDEK \in [KMSBoxers -> Nat] /\ localWrappedDEK \in [KMSBoxers -> Nat]
  /\ \A b \in KMSBoxers : localDEK[b] <= randoms /\ localWrappedDEK[b] <= Len(kms)
  /\ DOMAIN dekCache = KMSBoxers /\ dekCache = [b \in KMSBoxers |-> dekCache[b]]
  /\ pc \in [KMSBoxers -> Labels] /\ got \in [KMSBoxers -> Nat]
  /\ undecryptable = {}

(* What a call has in hand: a fresh key before it is wrapped, a wrapped    *)
(* key that no blob has before the blob is made; and no two calls have the *)
(* same in hand.                                                           *)
InHand ==
  /\ \A b \in KMSBoxers :
       /\ pc[b] \in {"draw", "wrap", "fetch"} => dekCache[b] = <<>>
       /\ pc[b] = "wrap" =>
            localDEK[b] \in 1 .. randoms /\ \A w \in 1 .. Len(kms) : kms[w].key # localDEK[b]
       /\ pc[b] = "encrypt" =>
            /\ localWrappedDEK[b] \in 1 .. Len(kms)
            /\ kms[localWrappedDEK[b]].keyPath = KeyPath[b] /\ kms[localWrappedDEK[b]].key = localDEK[b]
            /\ \A i \in 1 .. Len(blobs) : blobs[i].wrapped # localWrappedDEK[b]
       /\ pc[b] = "fetch" => got[b] \in 1 .. Len(blobs)
  /\ \A b, d \in KMSBoxers :
       /\ pc[b] = "wrap" /\ pc[d] = "wrap" /\ localDEK[b] = localDEK[d] => b = d
       /\ pc[b] = "encrypt" /\ pc[d] = "encrypt" /\ localWrappedDEK[b] = localWrappedDEK[d] => b = d

(* A key is wrapped once and seals once.                                   *)
UsedOnce ==
  /\ \A v, w \in 1 .. Len(kms) : kms[v].key = kms[w].key => v = w
  /\ \A i, j \in 1 .. Len(blobs) : blobs[i].wrapped = blobs[j].wrapped => i = j

BlobsFit ==
  \A i \in 1 .. Len(blobs) :
    /\ blobs[i].wrapped \in 1 .. Len(kms)
    /\ kms[blobs[i].wrapped].keyPath = blobs[i].keyPath /\ kms[blobs[i].wrapped].key = blobs[i].key

EnvelopeInv == EnvelopeTypes /\ InHand /\ UsedOnce /\ BlobsFit

LEMMA EnvelopeInitial == Envelope!Init => EnvelopeInv
<1> SUFFICES ASSUME Envelope!Init PROVE EnvelopeInv
  OBVIOUS
<1>1. MaxDEKs \in Nat
  BY EoscAssumption DEF Envelope!KmsAssumption
<1>2. kms = <<>> /\ blobs = <<>> /\ Len(kms) = 0 /\ Len(blobs) = 0 /\ 1 .. 0 = {}
  BY DEF Envelope!Init
<1>3. \A b \in KMSBoxers : pc[b] = "idle"
  BY DEF Envelope!Init
<1>4. EnvelopeTypes
  <2>1. kms \in Seq([keyPath : Paths, key : Nat]) /\ blobs \in Seq([keyPath : Paths, wrapped : Nat, key : Nat])
    BY <1>2
  <2>2. pc \in [KMSBoxers -> Labels] /\ got \in [KMSBoxers -> Nat]
    BY DEF Envelope!Init, Labels
  <2>3. localDEK \in [KMSBoxers -> Nat] /\ localWrappedDEK \in [KMSBoxers -> Nat]
    BY DEF Envelope!Init
  <2>4. DOMAIN dekCache = KMSBoxers /\ dekCache = [b \in KMSBoxers |-> dekCache[b]]
    BY DEF Envelope!Init
  <2>5. randoms \in 0 .. MaxDEKs /\ \A b \in KMSBoxers : localDEK[b] <= randoms /\ localWrappedDEK[b] <= Len(kms)
    BY <1>1, <1>2 DEF Envelope!Init
  <2> QED BY <1>2, <2>1, <2>2, <2>3, <2>4, <2>5 DEF EnvelopeTypes, Envelope!Init
<1> QED BY <1>2, <1>3, <1>4 DEF EnvelopeInv, InHand, UsedOnce, BlobsFit

LEMMA EnvelopeSafe == EnvelopeInv => Envelope!EnvelopeSound
<1> SUFFICES ASSUME EnvelopeInv PROVE Envelope!EnvelopeSound
  OBVIOUS
<1>1. DOMAIN kms = 1 .. Len(kms) /\ DOMAIN blobs = 1 .. Len(blobs)
  BY DEF EnvelopeInv, EnvelopeTypes
<1>2. Envelope!TypeOK
  BY <1>1 DEF EnvelopeInv, EnvelopeTypes, Envelope!TypeOK
<1>3. Envelope!SealedOpens
  <2>1. \A w \in 1 .. Len(kms) : kms[w] = [keyPath |-> kms[w].keyPath, key |-> kms[w].key]
    <3>0. kms \in Seq([keyPath : Paths, key : Nat])
      BY DEF EnvelopeInv, EnvelopeTypes
    <3>1. \A w \in 1 .. Len(kms) : kms[w] \in [keyPath : Paths, key : Nat]
      BY <3>0, ElementOfSeq
    <3>2. \A r \in [keyPath : Paths, key : Nat] : r = [keyPath |-> r.keyPath, key |-> r.key]
      OBVIOUS
    <3> QED BY <3>1, <3>2
  <2> QED BY <1>1, <2>1 DEF EnvelopeInv, EnvelopeTypes, BlobsFit, Envelope!SealedOpens
<1>4. Envelope!KeysAreFresh
  <2> SUFFICES ASSUME NEW i \in 1 .. Len(blobs), NEW j \in 1 .. Len(blobs), blobs[i].key = blobs[j].key PROVE i = j
    BY <1>1 DEF Envelope!KeysAreFresh
  <2>1. /\ blobs[i].wrapped \in 1 .. Len(kms) /\ kms[blobs[i].wrapped].key = blobs[i].key
        /\ blobs[j].wrapped \in 1 .. Len(kms) /\ kms[blobs[j].wrapped].key = blobs[j].key
    BY DEF EnvelopeInv, BlobsFit
  <2> QED BY <2>1 DEF EnvelopeInv, UsedOnce
<1> QED BY <1>2, <1>3, <1>4 DEF Envelope!EnvelopeSound

(* A call that only moves on, with a new manager or without.               *)
LEMMA MovingOn ==
  ASSUME EnvelopeInv, NEW b \in KMSBoxers, NEW label \in {"idle", "draw", "fetch"},
         UNCHANGED <<kms, randoms, blobs, undecryptable>>,
         pc' = [pc EXCEPT ![b] = label],
         \/ UNCHANGED <<localDEK, localWrappedDEK, dekCache>>
         \/ Envelope!UseManager(b, [localDEK |-> 0, localWrappedDEK |-> 0, dekCache |-> <<>>]),
         label # "idle" => dekCache'[b] = <<>>,
         got' \in [KMSBoxers -> Nat], \A d \in KMSBoxers : d # b => got'[d] = got[d],
         label = "fetch" => got'[b] \in 1 .. Len(blobs)
  PROVE  EnvelopeInv'
<1>1. /\ localDEK' \in [KMSBoxers -> Nat] /\ localWrappedDEK' \in [KMSBoxers -> Nat]
      /\ DOMAIN dekCache' = KMSBoxers /\ dekCache' = [d \in KMSBoxers |-> dekCache'[d]]
      /\ \A d \in KMSBoxers : localDEK'[d] <= randoms /\ localWrappedDEK'[d] <= Len(kms)
  <2>1. CASE UNCHANGED <<localDEK, localWrappedDEK, dekCache>>
    BY <2>1 DEF EnvelopeInv, EnvelopeTypes
  <2>2. CASE Envelope!UseManager(b, [localDEK |-> 0, localWrappedDEK |-> 0, dekCache |-> <<>>])
    <3>1. /\ localDEK' = [localDEK EXCEPT ![b] = 0] /\ localWrappedDEK' = [localWrappedDEK EXCEPT ![b] = 0]
          /\ dekCache' = [dekCache EXCEPT ![b] = <<>>]
      BY <2>2 DEF Envelope!UseManager
    <3>2. DOMAIN dekCache' = KMSBoxers /\ dekCache' = [d \in KMSBoxers |-> dekCache'[d]]
      BY <3>1 DEF EnvelopeInv, EnvelopeTypes
    <3>3. /\ localDEK' \in [KMSBoxers -> Nat] /\ localWrappedDEK' \in [KMSBoxers -> Nat]
          /\ \A d \in KMSBoxers : localDEK'[d] \in {0, localDEK[d]} /\ localWrappedDEK'[d] \in {0, localWrappedDEK[d]}
      BY <3>1 DEF EnvelopeInv, EnvelopeTypes
    <3>4. 0 <= randoms /\ 0 <= Len(kms)
      BY EoscAssumption DEF Envelope!KmsAssumption, EnvelopeInv, EnvelopeTypes
    <3> QED BY <3>2, <3>3, <3>4 DEF EnvelopeInv, EnvelopeTypes
  <2> QED BY <2>1, <2>2
<1>2. \A d \in KMSBoxers : d # b =>
        /\ localDEK'[d] = localDEK[d] /\ localWrappedDEK'[d] = localWrappedDEK[d] /\ dekCache'[d] = dekCache[d]
        /\ pc'[d] = pc[d] /\ got'[d] = got[d]
  BY DEF EnvelopeInv, EnvelopeTypes, Envelope!UseManager
<1>3. pc' \in [KMSBoxers -> Labels] /\ pc'[b] = label
  BY DEF EnvelopeInv, EnvelopeTypes, Labels
<1>4. EnvelopeTypes'
  BY <1>1, <1>3 DEF EnvelopeInv, EnvelopeTypes
<1>5. InHand'
  BY <1>2, <1>3 DEF EnvelopeInv, InHand
<1> QED BY <1>4, <1>5 DEF EnvelopeInv, UsedOnce, BlobsFit

LEMMA BeginsKeep ==
  ASSUME EnvelopeInv, NEW b \in KMSBoxers,
         Envelope!Seal(b) \/ (\E i \in DOMAIN blobs : Envelope!Open(b, i)) \/ Envelope!Fail(b)
  PROVE  EnvelopeInv'
<1> DEFINE manager == [localDEK |-> 0, localWrappedDEK |-> 0, dekCache |-> <<>>]
<1>1. got \in [KMSBoxers -> Nat] /\ DOMAIN dekCache = KMSBoxers /\ DOMAIN blobs = 1 .. Len(blobs) /\ Len(blobs) \in Nat
  BY DEF EnvelopeInv, EnvelopeTypes
<1>2. Envelope!UseManager(b, manager) => dekCache'[b] = <<>>
  BY <1>1 DEF Envelope!UseManager
<1>3. Envelope!NewKMSGCPManager(b) = manager
  BY DEF Envelope!NewKMSGCPManager, Envelope!Nil
<1>4. CASE Envelope!Seal(b)
  <2>1. Envelope!UseManager(b, manager) /\ UNCHANGED <<kms, randoms, got, blobs, undecryptable>>
    BY <1>3, <1>4 DEF Envelope!Seal
  <2>2. pc' = [pc EXCEPT ![b] = "draw"]
    BY <1>2, <1>4, <2>1 DEF Envelope!Seal, Envelope!Goto, Envelope!Nil
  <2>3. UNCHANGED <<kms, randoms, blobs, undecryptable>> /\ got' = got
    BY <2>1
  <2> QED BY <1>1, <1>2, <2>1, <2>2, <2>3, MovingOn
<1>5. ASSUME NEW i \in DOMAIN blobs, Envelope!Open(b, i) PROVE EnvelopeInv'
  <2>1. Envelope!UseManager(b, manager) /\ UNCHANGED <<kms, randoms, blobs, undecryptable>>
    BY <1>3, <1>5 DEF Envelope!Open
  <2>2. pc' = [pc EXCEPT ![b] = "fetch"] /\ got' = [got EXCEPT ![b] = i]
    BY <1>5 DEF Envelope!Open, Envelope!Goto
  <2>3. got' \in [KMSBoxers -> Nat] /\ got'[b] \in 1 .. Len(blobs) /\ \A d \in KMSBoxers : d # b => got'[d] = got[d]
    BY <1>1, <2>2
  <2> QED BY <1>2, <2>1, <2>2, <2>3, MovingOn
<1>6. CASE Envelope!Fail(b)
  <2>1. UNCHANGED <<kms, randoms, blobs, undecryptable>> /\ UNCHANGED <<localDEK, localWrappedDEK, dekCache>> /\ got' = got
    BY <1>6 DEF Envelope!Fail
  <2>2. pc' = [pc EXCEPT ![b] = "idle"]
    BY <1>6 DEF Envelope!Fail, Envelope!Goto
  <2> QED BY <1>1, <2>1, <2>2, MovingOn
<1> QED BY <1>4, <1>5, <1>6

LEMMA DrawKeeps ==
  ASSUME EnvelopeInv, NEW b \in KMSBoxers, Envelope!Draw(b)
  PROVE  EnvelopeInv'
<1>0. MaxDEKs \in Nat /\ randoms \in 0 .. MaxDEKs /\ randoms < MaxDEKs /\ randoms' = randoms + 1
  BY EoscAssumption DEF Envelope!KmsAssumption, EnvelopeInv, EnvelopeTypes, Envelope!Draw
<1>1. pc[b] = "draw" /\ pc' = [pc EXCEPT ![b] = "wrap"] /\ localDEK' = [localDEK EXCEPT ![b] = randoms + 1]
  BY <1>0 DEF Envelope!Draw, Envelope!Goto
<1>2. UNCHANGED <<kms, localWrappedDEK, dekCache, got, blobs, undecryptable>>
  BY DEF Envelope!Draw
<1>3. EnvelopeTypes'
  BY <1>0, <1>1, <1>2 DEF EnvelopeInv, EnvelopeTypes, Labels
<1>4. InHand'
  <2>1. \A d \in KMSBoxers : /\ pc'[d] = IF d = b THEN "wrap" ELSE pc[d]
                             /\ localDEK'[d] = IF d = b THEN randoms + 1 ELSE localDEK[d]
    BY <1>1 DEF EnvelopeInv, EnvelopeTypes
  <2>2. \A d \in KMSBoxers : localDEK[d] \in Nat /\ localDEK[d] < randoms + 1
    BY <1>0 DEF EnvelopeInv, EnvelopeTypes
  <2>3. \A w \in 1 .. Len(kms) : kms[w].key \in 1 .. randoms
    BY DEF EnvelopeInv, EnvelopeTypes
  <2>4. ASSUME NEW d \in KMSBoxers, pc'[d] \in {"draw", "wrap", "fetch"}
        PROVE  /\ dekCache'[d] = <<>>
               /\ pc'[d] = "wrap" => localDEK'[d] \in 1 .. randoms' /\ \A w \in 1 .. Len(kms') : kms'[w].key # localDEK'[d]
               /\ pc'[d] = "fetch" => got'[d] \in 1 .. Len(blobs')
    <3>1. CASE d = b
      <4>1. dekCache'[d] = <<>> /\ pc'[d] = "wrap" /\ localDEK'[d] = randoms + 1
        BY <1>1, <1>2, <2>1, <3>1 DEF EnvelopeInv, InHand
      <4> QED BY <1>0, <1>2, <2>3, <4>1
    <3>2. CASE d # b
      <4>1. pc[d] = pc'[d] /\ localDEK[d] = localDEK'[d]
        BY <2>1, <3>2
      <4> QED BY <1>0, <1>2, <2>4, <4>1 DEF EnvelopeInv, InHand
    <3> QED BY <3>1, <3>2
  <2>5. ASSUME NEW d \in KMSBoxers, pc'[d] = "encrypt"
        PROVE  /\ localWrappedDEK'[d] \in 1 .. Len(kms')
               /\ kms'[localWrappedDEK'[d]].keyPath = KeyPath[d] /\ kms'[localWrappedDEK'[d]].key = localDEK'[d]
               /\ \A i \in 1 .. Len(blobs') : blobs'[i].wrapped # localWrappedDEK'[d]
    BY <1>2, <2>1, <2>5 DEF EnvelopeInv, InHand
  <2>6. \A d, e \in KMSBoxers :
          /\ pc'[d] = "wrap" /\ pc'[e] = "wrap" /\ localDEK'[d] = localDEK'[e] => d = e
          /\ pc'[d] = "encrypt" /\ pc'[e] = "encrypt" /\ localWrappedDEK'[d] = localWrappedDEK'[e] => d = e
    BY <1>2, <2>1, <2>2 DEF EnvelopeInv, InHand
  <2> QED BY <2>4, <2>5, <2>6 DEF InHand
<1> QED BY <1>2, <1>3, <1>4 DEF EnvelopeInv, UsedOnce, BlobsFit

LEMMA WrapKeeps ==
  ASSUME EnvelopeInv, NEW b \in KMSBoxers, Envelope!Wrap(b)
  PROVE  EnvelopeInv'
<1> DEFINE new == [keyPath |-> KeyPath[b], key |-> localDEK[b]]
           n == Len(kms) + 1
<1>1. /\ pc[b] = "wrap" /\ localDEK[b] \in 1 .. randoms /\ randoms \in Nat
      /\ \A w \in 1 .. Len(kms) : kms[w].key # localDEK[b]
  BY EoscAssumption DEF Envelope!KmsAssumption, Envelope!Wrap, EnvelopeInv, EnvelopeTypes, InHand
<1>2. kms \in Seq([keyPath : Paths, key : Nat]) /\ new \in [keyPath : Paths, key : Nat] /\ kms' = Append(kms, new)
  BY <1>1 DEF Envelope!Wrap, EnvelopeInv, EnvelopeTypes, Paths
<1>3. /\ kms' \in Seq([keyPath : Paths, key : Nat]) /\ Len(kms') = n /\ Len(kms) \in Nat /\ n \in Nat
      /\ \A w \in 1 .. Len(kms) : kms'[w] = kms[w] /\ w # n /\ w \in 1 .. n
      /\ kms'[n] = new /\ n \in 1 .. n /\ \A w \in 1 .. n : w = n \/ w \in 1 .. Len(kms)
  BY <1>2
<1>4. /\ pc' = [pc EXCEPT ![b] = "encrypt"] /\ localWrappedDEK' = [localWrappedDEK EXCEPT ![b] = n]
      /\ dekCache' = [dekCache EXCEPT ![b] = [w \in {Len(kms')} |-> localDEK[b]]]
  BY <1>3 DEF Envelope!Wrap, Envelope!Goto
<1>5. UNCHANGED <<randoms, localDEK, got, blobs, undecryptable>>
  BY DEF Envelope!Wrap
<1>6. \A d \in KMSBoxers :
        /\ pc'[d] = IF d = b THEN "encrypt" ELSE pc[d]
        /\ localWrappedDEK'[d] = IF d = b THEN n ELSE localWrappedDEK[d]
        /\ d # b => dekCache'[d] = dekCache[d]
  BY <1>4 DEF EnvelopeInv, EnvelopeTypes
<1>7. EnvelopeTypes'
  <2>1. \A w \in 1 .. Len(kms') : kms'[w].key \in 1 .. randoms'
    <3>1. \A w \in 1 .. Len(kms) : kms[w].key \in 1 .. randoms
      BY DEF EnvelopeInv, EnvelopeTypes
    <3> SUFFICES ASSUME NEW w \in 1 .. n PROVE kms'[w].key \in 1 .. randoms
      BY <1>3, <1>5
    <3>2. CASE w = n
      BY <1>1, <1>3, <3>2
    <3>3. CASE w \in 1 .. Len(kms)
      BY <1>3, <3>1, <3>3
    <3> QED BY <1>3, <3>2, <3>3
  <2>2. DOMAIN dekCache' = KMSBoxers /\ dekCache' = [d \in KMSBoxers |-> dekCache'[d]]
    BY <1>4 DEF EnvelopeInv, EnvelopeTypes
  <2>3. localWrappedDEK' \in [KMSBoxers -> Nat] /\ \A d \in KMSBoxers : localWrappedDEK'[d] <= Len(kms')
    BY <1>3, <1>4, <1>6 DEF EnvelopeInv, EnvelopeTypes
  <2>4. pc' \in [KMSBoxers -> Labels]
    BY <1>4 DEF EnvelopeInv, EnvelopeTypes, Labels
  <2> QED BY <1>3, <1>5, <2>1, <2>2, <2>3, <2>4 DEF EnvelopeInv, EnvelopeTypes
<1>8. \A i \in 1 .. Len(blobs) : blobs[i].wrapped \in 1 .. Len(kms)
  BY DEF EnvelopeInv, BlobsFit
<1>9. InHand'
  <2>1. ASSUME NEW d \in KMSBoxers, pc'[d] \in {"draw", "wrap", "fetch"}
        PROVE  /\ dekCache'[d] = <<>>
               /\ pc'[d] = "wrap" => localDEK'[d] \in 1 .. randoms' /\ \A w \in 1 .. Len(kms') : kms'[w].key # localDEK'[d]
               /\ pc'[d] = "fetch" => got'[d] \in 1 .. Len(blobs')
    <3>1. d # b /\ pc[d] = pc'[d] /\ localDEK'[d] = localDEK[d] /\ dekCache'[d] = dekCache[d]
      BY <1>5, <1>6, <2>1
    <3>2. dekCache[d] = <<>> /\ (pc[d] = "fetch" => got[d] \in 1 .. Len(blobs))
      BY <2>1, <3>1 DEF EnvelopeInv, InHand
    <3>3. ASSUME pc[d] = "wrap"
          PROVE  localDEK[d] \in 1 .. randoms /\ \A w \in 1 .. n : kms'[w].key # localDEK[d]
      <4>1. localDEK[d] \in 1 .. randoms /\ (\A w \in 1 .. Len(kms) : kms[w].key # localDEK[d]) /\ localDEK[d] # localDEK[b]
        BY <1>1, <3>1, <3>3 DEF EnvelopeInv, InHand
      <4>2. kms'[n].key = localDEK[b]
        BY <1>3
      <4>3. \A w \in 1 .. Len(kms) : kms'[w].key = kms[w].key
        BY <1>3
      <4> QED BY <1>3, <4>1, <4>2, <4>3
    <3> QED BY <1>3, <1>5, <3>1, <3>2, <3>3
  <2>2. ASSUME NEW d \in KMSBoxers, pc'[d] = "encrypt"
        PROVE  /\ localWrappedDEK'[d] \in 1 .. Len(kms')
               /\ kms'[localWrappedDEK'[d]].keyPath = KeyPath[d] /\ kms'[localWrappedDEK'[d]].key = localDEK'[d]
               /\ \A i \in 1 .. Len(blobs') : blobs'[i].wrapped # localWrappedDEK'[d]
               /\ d # b => localWrappedDEK'[d] # n
    BY <1>3, <1>5, <1>6, <1>8, <2>2 DEF EnvelopeInv, InHand
  <2>3. \A d, e \in KMSBoxers :
          /\ pc'[d] = "wrap" /\ pc'[e] = "wrap" /\ localDEK'[d] = localDEK'[e] => d = e
          /\ pc'[d] = "encrypt" /\ pc'[e] = "encrypt" /\ localWrappedDEK'[d] = localWrappedDEK'[e] => d = e
    <3>1. \A d, e \in KMSBoxers :
            /\ pc[d] = "wrap" /\ pc[e] = "wrap" /\ localDEK[d] = localDEK[e] => d = e
            /\ pc[d] = "encrypt" /\ pc[e] = "encrypt" /\ localWrappedDEK[d] = localWrappedDEK[e] => d = e
      BY DEF EnvelopeInv, InHand
    <3> QED BY <1>5, <1>6, <2>2, <3>1
  <2> QED BY <2>1, <2>2, <2>3 DEF InHand
<1>10. UsedOnce'
  <2>1. ASSUME NEW v \in 1 .. n, NEW w \in 1 .. n, kms'[v].key = kms'[w].key PROVE v = w
    <3>1. kms'[n].key = localDEK[b] /\ \A u \in 1 .. Len(kms) : kms'[u].key = kms[u].key
      BY <1>3
    <3>2. CASE v = n \/ w = n
      BY <1>1, <1>3, <2>1, <3>1, <3>2
    <3>3. CASE v \in 1 .. Len(kms) /\ w \in 1 .. Len(kms)
      BY <2>1, <3>1, <3>3 DEF EnvelopeInv, UsedOnce
    <3> QED BY <1>3, <3>2, <3>3
  <2> QED BY <1>3, <1>5, <2>1 DEF EnvelopeInv, UsedOnce
<1>11. BlobsFit'
  BY <1>3, <1>5 DEF EnvelopeInv, BlobsFit
<1> QED BY <1>7, <1>9, <1>10, <1>11 DEF EnvelopeInv

LEMMA EncryptKeeps ==
  ASSUME EnvelopeInv, NEW b \in KMSBoxers, Envelope!Encrypt(b)
  PROVE  EnvelopeInv'
<1> DEFINE new == [keyPath |-> KeyPath[b], wrapped |-> localWrappedDEK[b], key |-> localDEK[b]]
           n == Len(blobs) + 1
<1>1. /\ pc[b] = "encrypt" /\ new.wrapped \in 1 .. Len(kms)
      /\ kms[new.wrapped].keyPath = new.keyPath /\ kms[new.wrapped].key = new.key
      /\ \A i \in 1 .. Len(blobs) : blobs[i].wrapped # new.wrapped
  BY DEF Envelope!Encrypt, EnvelopeInv, InHand
<1>2. /\ blobs \in Seq([keyPath : Paths, wrapped : Nat, key : Nat])
      /\ new \in [keyPath : Paths, wrapped : Nat, key : Nat] /\ blobs' = Append(blobs, new)
  BY DEF Envelope!Encrypt, EnvelopeInv, EnvelopeTypes, Paths
<1>3. /\ blobs' \in Seq([keyPath : Paths, wrapped : Nat, key : Nat]) /\ Len(blobs') = n /\ Len(blobs) \in Nat
      /\ \A i \in 1 .. Len(blobs) : blobs'[i] = blobs[i] /\ i \in 1 .. n
      /\ blobs'[n] = new /\ n \in 1 .. n /\ \A i \in 1 .. n : i = n \/ i \in 1 .. Len(blobs)
  BY <1>2
<1>4. UNCHANGED <<kms, randoms, localDEK, localWrappedDEK, dekCache, got, undecryptable>>
  BY DEF Envelope!Encrypt
<1>5. pc' \in [KMSBoxers -> Labels] /\ \A d \in KMSBoxers : pc'[d] = IF d = b THEN "idle" ELSE pc[d]
  BY DEF EnvelopeInv, EnvelopeTypes, Labels, Envelope!Encrypt, Envelope!Goto
<1>6. EnvelopeTypes'
  BY <1>3, <1>4, <1>5 DEF EnvelopeInv, EnvelopeTypes
<1>7. InHand'
  <2>1. \A d \in KMSBoxers : pc[d] = "encrypt" /\ d # b => localWrappedDEK[d] # new.wrapped
    BY <1>1 DEF EnvelopeInv, InHand
  <2>2. ASSUME NEW d \in KMSBoxers, pc'[d] = "encrypt"
        PROVE  \A i \in 1 .. n : blobs'[i].wrapped # localWrappedDEK[d]
    <3>1. d # b /\ pc[d] = "encrypt"
      BY <1>5, <2>2
    <3>2. \A i \in 1 .. Len(blobs) : blobs'[i].wrapped = blobs[i].wrapped /\ blobs[i].wrapped # localWrappedDEK[d]
      BY <1>3, <3>1 DEF EnvelopeInv, InHand
    <3>3. blobs'[n].wrapped # localWrappedDEK[d]
      BY <1>3, <2>1, <3>1
    <3> QED BY <1>3, <3>2, <3>3
  <2>3. ASSUME NEW d \in KMSBoxers, pc'[d] # "idle" PROVE pc[d] = pc'[d]
    BY <1>5, <2>3
  <2>4. ASSUME NEW d \in KMSBoxers
        PROVE  /\ pc'[d] \in {"draw", "wrap", "fetch"} => dekCache'[d] = <<>>
               /\ pc'[d] = "wrap" =>
                    localDEK'[d] \in 1 .. randoms' /\ \A w \in 1 .. Len(kms') : kms'[w].key # localDEK'[d]
               /\ pc'[d] = "encrypt" =>
                    /\ localWrappedDEK'[d] \in 1 .. Len(kms')
                    /\ kms'[localWrappedDEK'[d]].keyPath = KeyPath[d] /\ kms'[localWrappedDEK'[d]].key = localDEK'[d]
               /\ pc'[d] = "fetch" => got'[d] \in 1 .. Len(blobs)
    BY <1>4, <2>3 DEF EnvelopeInv, InHand
  <2>5. 1 .. Len(blobs) \subseteq 1 .. Len(blobs') /\ Len(blobs') = n
    BY <1>3
  <2>6. \A d, e \in KMSBoxers :
          /\ pc'[d] = "wrap" /\ pc'[e] = "wrap" /\ localDEK'[d] = localDEK'[e] => d = e
          /\ pc'[d] = "encrypt" /\ pc'[e] = "encrypt" /\ localWrappedDEK'[d] = localWrappedDEK'[e] => d = e
    BY <1>4, <2>3 DEF EnvelopeInv, InHand
  <2> QED BY <1>4, <2>2, <2>4, <2>5, <2>6 DEF InHand
<1>8. UsedOnce'
  <2>1. ASSUME NEW i \in 1 .. n, NEW j \in 1 .. n, blobs'[i].wrapped = blobs'[j].wrapped PROVE i = j
    <3>1. blobs'[n].wrapped = new.wrapped /\ \A k \in 1 .. Len(blobs) : blobs'[k].wrapped = blobs[k].wrapped
      BY <1>3
    <3>2. CASE i = n \/ j = n
      BY <1>1, <1>3, <2>1, <3>1, <3>2
    <3>3. CASE i \in 1 .. Len(blobs) /\ j \in 1 .. Len(blobs)
      BY <2>1, <3>1, <3>3 DEF EnvelopeInv, UsedOnce
    <3> QED BY <1>3, <3>2, <3>3
  <2> QED BY <1>3, <1>4, <2>1 DEF EnvelopeInv, UsedOnce
<1>9. BlobsFit'
  BY <1>1, <1>3, <1>4 DEF EnvelopeInv, BlobsFit
<1> QED BY <1>6, <1>7, <1>8, <1>9 DEF EnvelopeInv

LEMMA DecryptKeeps ==
  ASSUME EnvelopeInv, NEW b \in KMSBoxers, Envelope!Decrypt(b)
  PROVE  EnvelopeInv'
<1> DEFINE w == blobs[got[b]].wrapped
           plain == IF w \in DOMAIN dekCache[b] THEN dekCache[b][w] ELSE kms[w].key
<1>1. pc[b] = "fetch" /\ got[b] \in 1 .. Len(blobs) /\ dekCache[b] = <<>>
  BY DEF Envelope!Decrypt, EnvelopeInv, InHand
<1>11. DOMAIN dekCache[b] = {}
  <2>1. DOMAIN <<>> = {}
    OBVIOUS
  <2> QED BY <1>1, <2>1
<1>2. plain = kms[w].key /\ w \in 1 .. Len(kms) /\ kms[w].key = blobs[got[b]].key
  <2>1. plain = kms[w].key
    BY <1>11
  <2>2. w \in 1 .. Len(kms) /\ kms[w].key = blobs[got[b]].key
    BY <1>1 DEF EnvelopeInv, BlobsFit
  <2> QED BY <2>1, <2>2
<1>3. undecryptable' = undecryptable
  BY <1>2 DEF Envelope!Decrypt
<1>4. UNCHANGED <<kms, randoms, localDEK, got, blobs>>
  BY DEF Envelope!Decrypt
<1>5. pc' \in [KMSBoxers -> Labels] /\ \A d \in KMSBoxers : pc'[d] = IF d = b THEN "idle" ELSE pc[d]
  BY DEF EnvelopeInv, EnvelopeTypes, Labels, Envelope!Decrypt, Envelope!Goto
<1>6. localWrappedDEK' = [localWrappedDEK EXCEPT ![b] = IF @ = 0 THEN w ELSE @]
  BY DEF Envelope!Decrypt
<1>7. /\ localWrappedDEK' \in [KMSBoxers -> Nat]
      /\ \A d \in KMSBoxers : localWrappedDEK'[d] <= Len(kms) /\ (d # b => localWrappedDEK'[d] = localWrappedDEK[d])
  BY <1>2, <1>6 DEF EnvelopeInv, EnvelopeTypes
<1>8. /\ DOMAIN dekCache' = KMSBoxers /\ dekCache' = [d \in KMSBoxers |-> dekCache'[d]]
      /\ \A d \in KMSBoxers : d # b => dekCache'[d] = dekCache[d]
  <2>1. \E cache : dekCache' = [dekCache EXCEPT ![b] = cache]
    BY Zenon DEF Envelope!Decrypt
  <2> QED BY <2>1 DEF EnvelopeInv, EnvelopeTypes
<1>9. EnvelopeTypes'
  BY <1>3, <1>4, <1>5, <1>7, <1>8 DEF EnvelopeInv, EnvelopeTypes
<1>10. InHand'
  BY <1>4, <1>5, <1>7, <1>8 DEF EnvelopeInv, InHand
<1> QED BY <1>4, <1>9, <1>10 DEF EnvelopeInv, UsedOnce, BlobsFit

LEMMA EnvelopeStep == EnvelopeInv /\ [Envelope!Next]_envelopeVars => EnvelopeInv'
<1> SUFFICES ASSUME EnvelopeInv, [Envelope!Next]_envelopeVars PROVE EnvelopeInv'
  OBVIOUS
<1>1. CASE Envelope!Next
  BY <1>1, BeginsKeep, DrawKeeps, WrapKeeps, EncryptKeeps, DecryptKeeps DEF Envelope!Next
<1>2. CASE UNCHANGED envelopeVars
  BY <1>2 DEF envelopeVars, EnvelopeInv, EnvelopeTypes, InHand, UsedOnce, BlobsFit
<1> QED BY <1>1, <1>2

(***************************************************************************)
(* For any number of boxers that seal and open at the same time, over      *)
(* failed requests: what was sealed opens with the key that KMS unwraps    *)
(* beside it, and no two boxes are sealed with one key.                    *)
(***************************************************************************)
THEOREM EnvelopeCorrect == MCSpec => []EnvelopeSound
<1>1. MCInit => EnvelopeInv
  BY EnvelopeInitial DEF MCInit
<1>2. EnvelopeInv /\ [MCNext]_<<program, vaultVars, envelopeVars, forumVars, transactionVars, saleVars>> => EnvelopeInv'
  BY EnvelopeStep DEF MCNext
<1>3. EnvelopeInv => EnvelopeSound
  BY EnvelopeSafe DEF EnvelopeSound
<1> QED BY <1>1, <1>2, <1>3, PTL DEF MCSpec

(***************************************************************************)
(* The forum.                                                              *)
(***************************************************************************)
VoteRows == [voter : Voters, proposal : {"this", "other"}, value : Votes!Stored]

(* One row for a voter and a proposal.                                     *)
Distinct(rows) ==
  \A i, j \in DOMAIN rows : rows[i].voter = rows[j].voter /\ rows[i].proposal = rows[j].proposal => i = j

Has(rows, row) == \E i \in DOMAIN rows : rows[i] = row
VoteOf(v, x) == [voter |-> v, proposal |-> "this", value |-> x]

(* The counts of the only answer that was taken are those of its rows.     *)
CountsAre(rows) ==
  \A v \in Voters : \A x \in Votes!Stored : counted[v][x] = IF Has(rows, VoteOf(v, x)) THEN 1 ELSE 0

ForumInv ==
  /\ table \in Seq(VoteRows) /\ Distinct(table)
  /\ tally \in {"idle", "asking", "done"} /\ rounds \in 0 .. Cap
  /\ counted \in [Voters -> [Votes!Stored -> 0 .. Cap]]
  /\ rounds = 0 => \A v \in Voters : \A x \in Votes!Stored : counted[v][x] = 0
  /\ rounds = 1 => answered \in Seq(VoteRows) /\ Distinct(answered) /\ CountsAre(answered)

(* What users enter becomes a byte, and a byte stays what it is.           *)
LEMMA StoredIsByte ==
  /\ Votes!Stored \subseteq 0 .. 255 /\ \A x \in Votes!Stored : x % 256 = x
  /\ \A x \in Asked : x <= 255 => x % 256 \in Votes!Stored
<1>1. Asked \subseteq Int
  BY EoscAssumption DEF Votes!ForumAssumption
<1>2. \A y \in Int : y % 256 \in 0 .. 255
  OBVIOUS
<1>3. \A y \in 0 .. 255 : y % 256 = y
  OBVIOUS
<1> QED BY <1>1, <1>2, <1>3 DEF Votes!Stored

LEMMA ForumConstants ==
  IsFiniteSet(Voters) /\ Stake \in [Voters -> Nat] /\ PageSize \in Nat \ {0} /\ Cap \in Nat \ {0, 1}
<1>1. \A S : Votes!IsFiniteSet(S) <=> IsFiniteSet(S)
  BY Zenon DEF Votes!IsFiniteSet, IsFiniteSet
<1> QED BY <1>1, EoscAssumption DEF Votes!ForumAssumption

LEMMA SameCardinality ==
  ASSUME NEW S PROVE Votes!Cardinality(S) = Cardinality(S)
BY Zenon DEF Votes!Cardinality, Cardinality

(* A count of rows that are all the same.                                  *)
LEMMA RowsCounted ==
  ASSUME NEW rows \in Seq(VoteRows), NEW row
  PROVE  LET C == Cardinality({i \in DOMAIN rows : rows[i] = row}) IN
         C \in Nat /\ (Distinct(rows) => C = IF Has(rows, row) THEN 1 ELSE 0)
<1> DEFINE same == {i \in DOMAIN rows : rows[i] = row}
<1>1. Cardinality(same) \in Nat
  <2>1. DOMAIN rows = 1 .. Len(rows) /\ Len(rows) \in Nat
    OBVIOUS
  <2>2. IsFiniteSet(DOMAIN rows) /\ same \subseteq DOMAIN rows
    BY <2>1, FS_Interval
  <2> HIDE DEF same
  <2> QED BY <2>2, FS_Subset, FS_CardinalityType
<1>2. CASE ~ Has(rows, row)
  <2>1. same = {}
    BY <1>2 DEF Has
  <2> QED BY <1>1, <1>2, <2>1, FS_EmptySet
<1>3. CASE Has(rows, row) /\ Distinct(rows)
  <2>1. PICK i \in DOMAIN rows : rows[i] = row
    BY <1>3 DEF Has
  <2>2. same = {i}
    BY <1>3, <2>1 DEF Distinct
  <2>3. Cardinality(same) = 1
    BY <2>2, FS_Singleton
  <2> QED BY <1>1, <1>3, <2>3
<1> QED BY <1>1, <1>2, <1>3

LEMMA ForumInitial == Votes!Init => ForumInv
<1> SUFFICES ASSUME Votes!Init PROVE ForumInv
  OBVIOUS
<1>1. table = <<>> /\ table \in Seq(VoteRows) /\ Distinct(table)
  BY DEF Votes!Init, Distinct
<1>2. counted = [v \in Voters |-> [x \in Votes!Stored |-> 0]] /\ rounds = 0 /\ tally = "idle"
  BY DEF Votes!Init
<1> QED BY <1>1, <1>2, ForumConstants DEF ForumInv

(* The steps of the users change the table alone.                          *)
LEMMA VoteKeeps ==
  ASSUME ForumInv, NEW v \in Voters, NEW p \in Votes!Proposals, NEW x \in Asked, Votes!Vote(v, p, x)
  PROVE  ForumInv'
<1> DEFINE row == Votes!Row(v, p, x)
<1>1. row \in VoteRows /\ row.voter = v /\ row.proposal = p
  BY StoredIsByte DEF Votes!Row, Votes!Vote, Votes!Proposals, VoteRows
<1>2. table \in Seq(VoteRows) /\ Distinct(table) /\ UNCHANGED <<tally, counted, rounds, answered>>
  BY DEF ForumInv, Votes!Vote
<1> HIDE DEF row
<1>3. table' \in Seq(VoteRows) /\ Distinct(table')
  <2>1. ASSUME NEW i \in DOMAIN table, Votes!SameVote(table[i], v, p), table' = [table EXCEPT ![i] = row]
        PROVE  table' \in Seq(VoteRows) /\ Distinct(table')
    <3>1. table' \in Seq(VoteRows) /\ DOMAIN table' = DOMAIN table
      BY <1>1, <1>2, <2>1
    <3>2. \A j \in DOMAIN table : table'[j].voter = table[j].voter /\ table'[j].proposal = table[j].proposal
      BY <1>1, <1>2, <2>1 DEF Votes!SameVote
    <3> QED BY <1>2, <3>1, <3>2 DEF Distinct
  <2>2. ASSUME \A i \in DOMAIN table : ~ Votes!SameVote(table[i], v, p), table' = Append(table, row)
        PROVE  table' \in Seq(VoteRows) /\ Distinct(table')
    <3>1. table' \in Seq(VoteRows) /\ Len(table') = Len(table) + 1 /\ Len(table) \in Nat
      BY <1>1, <1>2, <2>2
    <3>2. \A i \in DOMAIN table' : (i \in DOMAIN table /\ table'[i] = table[i]) \/ (i = Len(table') /\ table'[i] = row)
      BY <1>1, <1>2, <2>2
    <3> QED BY <1>1, <1>2, <2>2, <3>1, <3>2 DEF Distinct, Votes!SameVote
  <2> QED BY <2>1, <2>2 DEF Votes!Vote, row
<1> QED BY <1>2, <1>3 DEF ForumInv, CountsAre

LEMMA UnvoteKeeps ==
  ASSUME ForumInv, NEW v, NEW p, Votes!Unvote(v, p)
  PROVE  ForumInv'
<1>1. PICK at \in DOMAIN table : table' = Votes!RemoveAt(table, at)
  BY DEF Votes!Unvote
<1>2. table \in Seq(VoteRows) /\ Distinct(table) /\ UNCHANGED <<tally, counted, rounds, answered>>
  BY DEF ForumInv, Votes!Unvote
<1> DEFINE front == SubSeq(table, 1, at - 1)
           back == SubSeq(table, at + 1, Len(table))
<1>3. /\ at \in 1 .. Len(table) /\ Len(table) \in Nat
      /\ front \in Seq(VoteRows) /\ Len(front) = at - 1 /\ \A i \in 1 .. at - 1 : front[i] = table[i]
      /\ back \in Seq(VoteRows) /\ Len(back) = Len(table) - at /\ \A i \in 1 .. Len(back) : back[i] = table[at + i]
  BY <1>2, SubSeqProperties
<1>4. table' = front \o back
  BY <1>1, Zenon DEF Votes!RemoveAt
<1> HIDE DEF front, back
<1>5. /\ table' \in Seq(VoteRows) /\ Len(table') = Len(table) - 1
      /\ \A i \in 1 .. Len(table') : table'[i] = IF i < at THEN table[i] ELSE table[i + 1]
  BY <1>3, <1>4, ConcatProperties
<1>6. Distinct(table')
  <2> SUFFICES ASSUME NEW i \in DOMAIN table', NEW j \in DOMAIN table',
                      table'[i].voter = table'[j].voter, table'[i].proposal = table'[j].proposal
               PROVE  i = j
    BY DEF Distinct
  <2> DEFINE old(n) == IF n < at THEN n ELSE n + 1
  <2>0. DOMAIN table' = 1 .. Len(table) - 1 /\ DOMAIN table = 1 .. Len(table)
    BY <1>2, <1>3, <1>5
  <2>1. \A n \in DOMAIN table' : old(n) \in DOMAIN table /\ table'[n] = table[old(n)]
    <3> SUFFICES ASSUME NEW n \in 1 .. Len(table) - 1 PROVE old(n) \in 1 .. Len(table) /\ table'[n] = table[old(n)]
      BY <2>0
    <3>1. table'[n] = IF n < at THEN table[n] ELSE table[n + 1]
      BY <1>5
    <3>2. old(n) \in 1 .. Len(table)
      BY <1>3
    <3> QED BY <3>1, <3>2
  <2>2. old(i) = old(j)
    <3>1. /\ old(i) \in DOMAIN table /\ table'[i] = table[old(i)]
          /\ old(j) \in DOMAIN table /\ table'[j] = table[old(j)]
      BY <2>1
    <3> HIDE DEF old
    <3> QED BY <1>2, <3>1 DEF Distinct
  <2>3. i \in Nat /\ j \in Nat /\ at \in Nat
    BY <1>3, <2>0
  <2> QED BY <2>2, <2>3
<1> QED BY <1>2, <1>5, <1>6 DEF ForumInv, CountsAre

(* A tally starts from nothing.                                            *)
LEMMA BeginKeeps ==
  ASSUME ForumInv, Votes!Begin \/ Votes!GetPageFails
  PROVE  ForumInv'
<1>1. /\ counted' = [v \in Voters |-> [x \in Votes!Stored |-> 0]] /\ rounds' = 0 /\ UNCHANGED table
      /\ tally' \in {"idle", "asking"}
  BY DEF Votes!Begin, Votes!GetPageFails
<1> QED BY <1>1, ForumConstants DEF ForumInv

LEMMA PageFacts ==
  ASSUME ForumInv
  PROVE  Votes!Page \in Seq(VoteRows) /\ Distinct(Votes!Page)
<1>1. table \in Seq(VoteRows) /\ Distinct(table) /\ Len(table) \in Nat /\ PageSize \in Nat
  BY ForumConstants DEF ForumInv
<1> DEFINE m == IF Len(table) < PageSize THEN Len(table) ELSE PageSize
<1>2. m \in 0 .. Len(table) /\ Votes!Page = SubSeq(table, 1, m)
  <2>1. Votes!Page = SubSeq(table, 1, m)
    BY DEF Votes!Page
  <2>2. m \in 0 .. Len(table)
    BY <1>1
  <2> QED BY <2>1, <2>2
<1> HIDE DEF m
<1>3. SubSeq(table, 1, m) \in Seq(VoteRows) /\ Len(SubSeq(table, 1, m)) = m
      /\ \A i \in 1 .. m : SubSeq(table, 1, m)[i] = table[i] /\ i \in DOMAIN table
  BY <1>1, <1>2, SubSeqProperties
<1>4. DOMAIN SubSeq(table, 1, m) = 1 .. m
  BY <1>2, <1>3
<1>5. Distinct(SubSeq(table, 1, m))
  BY <1>1, <1>3, <1>4 DEF Distinct
<1> QED BY <1>2, <1>3, <1>5

LEMMA GetPageKeeps ==
  ASSUME ForumInv, Votes!GetPage
  PROVE  ForumInv'
<1> DEFINE number(v, x) == Cardinality({i \in DOMAIN Votes!Page : Votes!Page[i] = VoteOf(v, x)})
<1>1. /\ tally = "asking" /\ rounds' = Votes!Capped(rounds + 1) /\ answered' = (IF rounds = 0 THEN Votes!Page ELSE <<>>)
      /\ tally' \in {"asking", "done"} /\ UNCHANGED table
  BY DEF Votes!GetPage
<1>2. counted' = [v \in Voters |-> [x \in Votes!Stored |-> Votes!Capped(counted[v][x] + number(v, x))]]
  <2>1. \A v \in Voters : \A x \in Votes!Stored : Votes!Row(v, "this", x) = VoteOf(v, x)
    BY StoredIsByte DEF Votes!Row, VoteOf
  <2>2. \A v \in Voters : \A x \in Votes!Stored :
          Votes!Cardinality({i \in DOMAIN Votes!Page : Votes!Page[i] = Votes!Row(v, "this", x)}) = number(v, x)
    BY <2>1, SameCardinality
  <2> HIDE DEF number
  <2> QED BY <2>2 DEF Votes!GetPage
<1>3. \A v \in Voters : \A x \in Votes!Stored :
        number(v, x) \in Nat /\ number(v, x) = IF Has(Votes!Page, VoteOf(v, x)) THEN 1 ELSE 0
  BY PageFacts, RowsCounted
<1> HIDE DEF number
<1>4. Cap \in Nat \ {0, 1} /\ \A n \in Nat : Votes!Capped(n) \in 0 .. Cap /\ (n <= 1 => Votes!Capped(n) = n)
  BY ForumConstants DEF Votes!Capped
<1>5. counted \in [Voters -> [Votes!Stored -> 0 .. Cap]] /\ rounds \in 0 .. Cap
  BY DEF ForumInv
<1>6. counted' \in [Voters -> [Votes!Stored -> 0 .. Cap]] /\ rounds' \in 0 .. Cap /\ rounds' # 0
  <2>1. \A v \in Voters : \A x \in Votes!Stored : Votes!Capped(counted[v][x] + number(v, x)) \in 0 .. Cap
    BY <1>3, <1>4, <1>5
  <2>2. rounds + 1 \in Nat /\ rounds' \in 0 .. Cap /\ rounds' # 0
    BY <1>1, <1>4, <1>5 DEF Votes!Capped
  <2> QED BY <1>2, <2>1, <2>2
<1>7. rounds' = 1 => rounds = 0
  BY <1>1, <1>4, <1>5 DEF Votes!Capped
<1>8. rounds = 0 => answered' \in Seq(VoteRows) /\ Distinct(answered') /\ CountsAre(answered)'
  <2> SUFFICES ASSUME rounds = 0
               PROVE  answered' \in Seq(VoteRows) /\ Distinct(answered') /\ CountsAre(answered)'
    OBVIOUS
  <2>1. answered' = Votes!Page
    BY <1>1
  <2>2. \A v \in Voters : \A x \in Votes!Stored : counted'[v][x] = Votes!Capped(number(v, x))
    BY <1>2, <1>3 DEF ForumInv
  <2>3. \A v \in Voters : \A x \in Votes!Stored : counted'[v][x] = IF Has(Votes!Page, VoteOf(v, x)) THEN 1 ELSE 0
    BY <1>3, <1>4, <2>2
  <2> QED BY <2>1, <2>3, PageFacts DEF CountsAre
<1> QED BY <1>1, <1>6, <1>7, <1>8 DEF ForumInv

LEMMA ForumStep == ForumInv /\ [Votes!Next]_forumVars => ForumInv'
<1> SUFFICES ASSUME ForumInv, [Votes!Next]_forumVars PROVE ForumInv'
  OBVIOUS
<1>1. CASE Votes!Next
  BY <1>1, VoteKeeps, UnvoteKeeps, BeginKeeps, GetPageKeeps DEF Votes!Next
<1>2. CASE UNCHANGED forumVars
  BY <1>2 DEF forumVars, ForumInv, CountsAre
<1> QED BY <1>1, <1>2

LEMMA ForumTypes == ForumInv => Votes!TypeOK
<1> SUFFICES ASSUME ForumInv PROVE Votes!TypeOK
  OBVIOUS
<1>1. \A i \in DOMAIN table : table[i] \in [voter : Voters, proposal : Votes!Proposals, value : Votes!Stored]
  <2>1. table \in Seq(VoteRows)
    BY DEF ForumInv
  <2>2. \A i \in DOMAIN table : table[i] \in VoteRows
    BY <2>1
  <2>3. VoteRows = [voter : Voters, proposal : Votes!Proposals, value : Votes!Stored]
    BY DEF VoteRows, Votes!Proposals
  <2> QED BY <2>2, <2>3
<1>2. \A i, j \in DOMAIN table : Votes!SameVote(table[i], table[j].voter, table[j].proposal) => i = j
  BY DEF ForumInv, Distinct, Votes!SameVote
<1> QED BY <1>1, <1>2 DEF ForumInv, Votes!TypeOK

(* The counts of one answer, as a function of the voters, are those of the *)
(* rows that the definition of the property takes out of the answer.       *)
LEMMA TallyIsOfRows ==
  ASSUME ForumInv, rounds = 1, NEW x \in Votes!Stored
  PROVE  /\ Votes!tallyAccounts(x) = Votes!Cardinality(Votes!RowsFor(x))
         /\ Votes!tallyStaked(x) =
              Votes!MapThenSumSet(LAMBDA v : Stake[v], {row.voter : row \in Votes!RowsFor(x)})
<1> DEFINE R == Votes!RowsFor(x)
           V == {row.voter : row \in R}
           one == [v \in Voters |-> counted[v][x]]
           staked == [v \in Voters |-> counted[v][x] * Stake[v]]
<1>1. /\ answered \in Seq(VoteRows) /\ Distinct(answered) /\ CountsAre(answered)
      /\ IsFiniteSet(Voters) /\ Stake \in [Voters -> Nat]
  BY ForumConstants DEF ForumInv
<1>2. \A row : row \in R <=> Has(answered, row) /\ row.proposal = "this" /\ row.value = x
  BY DEF Votes!RowsFor, Votes!ToSet, Has
<1>3. \A row \in R : row.voter \in Voters /\ row = VoteOf(row.voter, x)
  <2> SUFFICES ASSUME NEW row \in R PROVE row.voter \in Voters /\ row = VoteOf(row.voter, x)
    OBVIOUS
  <2> HIDE DEF R
  <2>1. Has(answered, row) /\ row.proposal = "this" /\ row.value = x
    BY <1>2
  <2>2. row \in VoteRows
    BY <1>1, <2>1 DEF Has
  <2> QED BY <2>1, <2>2 DEF VoteRows, VoteOf
<1>4. \A v \in Voters : v \in V <=> Has(answered, VoteOf(v, x))
  <2>1. \A v : VoteOf(v, x).proposal = "this" /\ VoteOf(v, x).value = x /\ VoteOf(v, x).voter = v
    BY DEF VoteOf
  <2> HIDE DEF R
  <2> QED BY <1>2, <1>3, <2>1
<1>5. V \subseteq Voters /\ IsFiniteSet(V)
  <2> HIDE DEF R
  <2>1. V \subseteq Voters
    BY <1>3
  <2> HIDE DEF V
  <2> QED BY <1>1, <2>1, FS_Subset
<1>6. \A v \in Voters : one[v] = IF v \in V THEN 1 ELSE 0
  <2> HIDE DEF V
  <2> QED BY <1>1, <1>4 DEF CountsAre
<1>7. Cardinality(V) = Cardinality(R)
  <2> DEFINE f == [v \in V |-> VoteOf(v, x)]
  <2>1. \A v : VoteOf(v, x).voter = v /\ VoteOf(v, x).proposal = "this" /\ VoteOf(v, x).value = x
    BY DEF VoteOf
  <2>2. \A v \in V : VoteOf(v, x) \in R
    <3> HIDE DEF R, V
    <3> QED BY <1>2, <1>4, <1>5, <2>1
  <2>3. \A row \in R : row.voter \in V /\ VoteOf(row.voter, x) = row
    <3> HIDE DEF R
    <3> QED BY <1>3
  <2> HIDE DEF R, V
  <2>4. f \in Bijection(V, R)
    <3>1. f \in [V -> R]
      BY <2>2
    <3>2. \A a, b \in V : f[a] = f[b] => a = b
      BY <2>1
    <3>3. \A row \in R : row.voter \in V /\ f[row.voter] = row
      BY <2>3
    <3> HIDE DEF f
    <3>4. f \in Injection(V, R)
      BY <3>1, <3>2 DEF Injection, IsInjective
    <3>5. f \in Surjection(V, R)
      BY <3>1, <3>3 DEF Surjection
    <3> QED BY <3>4, <3>5 DEF Bijection
  <2> QED BY <1>5, <2>4, FS_Bijection DEF ExistsBijection
<1>8. SumOver(one, Voters) = Cardinality(V)
  <2> HIDE DEF V
  <2> DEFINE w == one
  <2>1. \A v \in Voters : w[v] \in Int /\ (v \notin V => w[v] = 0)
    BY <1>6
  <2>2. \A v \in V : w[v] = 1
    BY <1>5, <1>6
  <2>3. Voters \cap V = V
    BY <1>5
  <2> HIDE DEF w
  <2>4. SumOver(w, Voters) = SumOver(w, Voters \cap V)
    BY <1>1, <2>1, SumSupport
  <2>5. SumOver(w, V) = Cardinality(V)
    BY <1>5, <2>2, SumOnes
  <2> QED BY <2>3, <2>4, <2>5 DEF w
<1>9. SumOver(staked, Voters) = SumOver(Stake, V)
  <2> HIDE DEF V
  <2> DEFINE w == staked
  <2>1. \A v \in Voters : w[v] = IF v \in V THEN Stake[v] ELSE 0
    BY <1>1, <1>6
  <2>2. \A v \in Voters : w[v] \in Int /\ (v \notin V => w[v] = 0)
    BY <1>1, <2>1
  <2>3. Voters \cap V = V
    BY <1>5
  <2>4. Agree(w, Stake, V)
    BY <1>5, <2>1 DEF Agree
  <2> HIDE DEF w
  <2>5. SumOver(w, Voters) = SumOver(w, Voters \cap V)
    BY <1>1, <2>2, SumSupport
  <2>6. SumOver(w, V) = SumOver(Stake, V)
    BY <1>5, <2>4, SumSame
  <2> QED BY <2>3, <2>5, <2>6 DEF w
<1>10. Votes!tallyAccounts(x) = SumOver(one, Voters)
  <2> DEFINE F(g) == [s \in SUBSET Voters |-> IF s = {} THEN 0 ELSE counted[One(s)][x] + g[s \ {One(s)}]]
             G == CHOOSE g : g = F(g)
  <2>1. \A s \in SUBSET Voters : s # {} => One(s) \in Voters
    BY DEF One
  <2>2. \A g : F(g) = [s \in SUBSET Voters |-> SumStep(g, one, s)]
    BY <2>1 DEF SumStep
  <2>3. Votes!tallyAccounts(x) = G[Voters]
    BY Zenon DEF Votes!tallyAccounts, Votes!MapThenSumSet, Votes!MapThenFoldSet, One
  <2> HIDE DEF F, one
  <2>4. G = F(G)
    <3>1. PICK g : IsSum(g, one, SUBSET Voters)
      BY <1>1, SumExists
    <3>2. g = F(g)
      BY <2>2, <3>1 DEF IsSum
    <3> QED BY <3>2
  <2> HIDE DEF G
  <2>5. Sums(G, one, Voters)
    <3>1. G = [s \in SUBSET Voters |-> SumStep(G, one, s)]
      BY <2>2, <2>4
    <3> QED BY <3>1, Zenon DEF Sums
  <2> QED BY <1>1, <2>3, <2>5, SumIsRounds
<1>11. Votes!tallyStaked(x) = SumOver(staked, Voters)
  <2> DEFINE F(g) == [s \in SUBSET Voters |-> IF s = {} THEN 0 ELSE counted[One(s)][x] * Stake[One(s)] + g[s \ {One(s)}]]
             G == CHOOSE g : g = F(g)
  <2>1. \A s \in SUBSET Voters : s # {} => One(s) \in Voters
    BY DEF One
  <2>2. \A g : F(g) = [s \in SUBSET Voters |-> SumStep(g, staked, s)]
    BY <2>1 DEF SumStep
  <2>3. Votes!tallyStaked(x) = G[Voters]
    BY Zenon DEF Votes!tallyStaked, Votes!MapThenSumSet, Votes!MapThenFoldSet, One
  <2> HIDE DEF F, staked
  <2>4. G = F(G)
    <3>1. PICK g : IsSum(g, staked, SUBSET Voters)
      BY <1>1, SumExists
    <3>2. g = F(g)
      BY <2>2, <3>1 DEF IsSum
    <3> QED BY <3>2
  <2> HIDE DEF G
  <2>5. Sums(G, staked, Voters)
    <3>1. G = [s \in SUBSET Voters |-> SumStep(G, staked, s)]
      BY <2>2, <2>4
    <3> QED BY <3>1, Zenon DEF Sums
  <2> QED BY <1>1, <2>3, <2>5, SumIsRounds
<1>12. Votes!MapThenSumSet(LAMBDA v : Stake[v], V) = SumOver(Stake, V)
  BY Zenon DEF SumOver, Votes!MapThenSumSet, Votes!MapThenFoldSet, MapThenSumSet, MapThenFoldSet
<1>13. Votes!Cardinality(R) = Cardinality(R)
  BY SameCardinality
<1> HIDE DEF one, staked
<1> QED BY <1>7, <1>8, <1>9, <1>10, <1>11, <1>12, <1>13

LEMMA ForumSafe == ForumInv => Votes!TypeOK /\ Votes!TallyIsAnswered
  BY ForumTypes, TallyIsOfRows DEF Votes!TallyIsAnswered

(***************************************************************************)
(* A tally that forum tally-votes got in one answer shows, of each value,  *)
(* as many accounts as the answer has rows, and the stakes of their        *)
(* voters, whatever votes came or went before, meanwhile or since.         *)
(***************************************************************************)
THEOREM TallyCorrect == MCSpec => []TallyIsAnswered
<1>1. MCInit => ForumInv
  BY ForumInitial DEF MCInit
<1>2. ForumInv /\ [MCNext]_<<program, vaultVars, envelopeVars, forumVars, transactionVars, saleVars>> => ForumInv'
  BY ForumStep DEF MCNext
<1>3. ForumInv => TallyIsAnswered
  BY ForumSafe DEF TallyIsAnswered
<1> QED
  BY <1>1, <1>2, <1>3, PTL DEF MCSpec

(***************************************************************************)
(* The transactions.                                                       *)
(***************************************************************************)
(* What is signed: by keys of one wallet, for one body and one chain id.   *)
SignedFor(signatures, body, chain) ==
  /\ \A s \in signatures : s \in [key : Keys, body : {body}, chain : {chain}]
  /\ \E w \in Wallets : \A s \in signatures : s.key \in KeysOf[w]

(* A file is empty, or holds a transaction with the signatures for it and  *)
(* the chain id it was made for, which a file from elsewhere leaves open.  *)
Proper(targets, content) ==
  \/ content = Pipeline!NoFile
  \/ /\ content.body \in DOMAIN targets /\ content.chain \in Chains \cup {"none"}
     /\ targets[content.body] \in {content.chain, "none"}
     /\ content.signatures # {} => content.chain \in Chains
     /\ SignedFor(content.signatures, content.body, content.chain)

(* The files and executions that fit what the transactions were made for.  *)
Fitting(targets, contents, done) ==
  /\ DOMAIN contents = Files /\ contents = [f \in Files |-> contents[f]] /\ \A f \in Files : Proper(targets, contents[f])
  /\ done \in [Chains -> SUBSET DOMAIN targets]
  /\ \A c \in Chains : \A b \in done[c] : targets[b] \in {c, "none"}

TransactionsInv ==
  madeFor \in Seq(Chains \cup {"none"}) /\ Len(madeFor) <= MaxBodies /\ Fitting(madeFor, files, executed)

LEMMA TransactionsInitial == Pipeline!Init => TransactionsInv
<1> SUFFICES ASSUME Pipeline!Init PROVE TransactionsInv
  OBVIOUS
<1>1. madeFor = <<>> /\ Len(madeFor) = 0 /\ madeFor \in Seq(Chains \cup {"none"}) /\ MaxBodies \in Nat
  BY EoscAssumption DEF Pipeline!Init, Pipeline!EoscTxAssumption
<1>2. DOMAIN files = Files /\ files = [f \in Files |-> files[f]] /\ \A f \in Files : files[f] = Pipeline!NoFile
  BY DEF Pipeline!Init
<1>3. executed \in [Chains -> SUBSET DOMAIN madeFor] /\ \A c \in Chains : executed[c] = {}
  BY DEF Pipeline!Init
<1> QED BY <1>1, <1>2, <1>3 DEF TransactionsInv, Fitting, Proper

LEMMA TransactionsSafe == TransactionsInv => Pipeline!TransactionsSound
<1> SUFFICES ASSUME TransactionsInv PROVE Pipeline!TransactionsSound
  OBVIOUS
<1>0. DOMAIN madeFor = 1 .. Len(madeFor)
  BY DEF TransactionsInv
<1>1. Pipeline!TypeOK
  <2>1. ASSUME NEW f \in Files, files[f] # Pipeline!NoFile
        PROVE  /\ files[f].body \in DOMAIN madeFor /\ files[f].chain \in Chains \cup {"none"}
               /\ files[f].signatures \subseteq Pipeline!AllSignatures
    BY <1>0, <2>1 DEF TransactionsInv, Fitting, Proper, SignedFor, Pipeline!AllSignatures
  <2> QED BY <2>1 DEF TransactionsInv, Fitting, Pipeline!TypeOK, Pipeline!None
<1>2. Pipeline!ExecutedWhereMade
  BY DEF TransactionsInv, Fitting, Pipeline!ExecutedWhereMade, Pipeline!None
<1>3. Pipeline!FilesAreConsistent
  <2> SUFFICES ASSUME NEW f \in Files
               PROVE  /\ \A s \in files[f].signatures : s.body = files[f].body /\ s.chain = files[f].chain
                      /\ \E w \in Wallets : {s.key : s \in files[f].signatures} \subseteq KeysOf[w]
    BY DEF Pipeline!FilesAreConsistent
  <2>1. CASE files[f] = Pipeline!NoFile
    <3>1. files[f].signatures = {} /\ Wallets # {}
      BY <2>1, EoscAssumption DEF Pipeline!NoFile, Pipeline!EoscTxAssumption
    <3> QED BY <3>1
  <2>2. CASE files[f] # Pipeline!NoFile
    BY <2>2 DEF TransactionsInv, Fitting, Proper, SignedFor
  <2> QED BY <2>1, <2>2
<1> QED BY <1>1, <1>2, <1>3 DEF Pipeline!TransactionsSound

(* What optionallySignTransaction returns.                                 *)
LEMMA SigningGives ==
  ASSUME NEW flags \in Pipeline!Flags, NEW body, NEW chain, NEW signatures \in Pipeline!optionallySignTransaction(flags, body, chain)
  PROVE  SignedFor(signatures, body, chain)
<1>1. Wallets # {} /\ KeysOf \in [Wallets -> SUBSET Keys]
  BY EoscAssumption DEF Pipeline!EoscTxAssumption
<1>2. CASE signatures = {}
  BY <1>1, <1>2 DEF SignedFor
<1>3. CASE signatures # {}
  <2>1. ~ flags.skip
    BY <1>3 DEF Pipeline!optionallySignTransaction
  <2> DEFINE candidates == UNION {Pipeline!RequiredKeys(flags, KeysOf[w]) : w \in flags.wallets}
             usable == {R \in candidates : \E w \in flags.wallets : flags.wallets = {w} /\ R \subseteq KeysOf[w]}
  <2>2. signatures \in {{Pipeline!Signature(k, body, chain) : k \in K} : K \in usable}
    BY <2>1, Zenon DEF Pipeline!optionallySignTransaction
  <2>3. PICK K \in usable : signatures = {Pipeline!Signature(k, body, chain) : k \in K}
    <3> HIDE DEF usable
    <3> QED BY <2>2
  <2>4. PICK w \in flags.wallets : K \subseteq KeysOf[w]
    <3> HIDE DEF candidates
    <3> QED OBVIOUS
  <2>5. w \in Wallets
    BY DEF Pipeline!Flags
  <2> HIDE DEF usable
  <2>6. \A s \in signatures : s \in [key : Keys, body : {body}, chain : {chain}] /\ s.key \in KeysOf[w]
    BY <1>1, <2>3, <2>4, <2>5 DEF Pipeline!Signature
  <2> QED BY <2>5, <2>6 DEF SignedFor
<1> QED BY <1>2, <1>3

(* What nodeos executes was signed for its chain.                          *)
LEMMA AcceptedIsMeant ==
  ASSUME NEW api \in Chains, NEW body, NEW signatures, NEW chain, SignedFor(signatures, body, chain),
         Pipeline!Accepts(api, body, signatures)
  PROVE  chain = api
<1>1. signatures # {}
  <2>1. SUFFICES ASSUME signatures = {} PROVE FALSE
    OBVIOUS
  <2>2. Pipeline!Cardinality({}) = 0
    BY FS_EmptySet, Zenon DEF Cardinality, Pipeline!Cardinality
  <2>3. Threshold \in Nat \ {0} /\ Pipeline!Cardinality({}) >= Threshold
    BY <2>1, EoscAssumption DEF Pipeline!Accepts, Pipeline!EoscTxAssumption
  <2> QED BY <2>2, <2>3
<1> QED BY <1>1 DEF SignedFor, Pipeline!Accepts

(* Whatever a command does with what it signed for the chain id its        *)
(* transaction was made for leaves proper files and executions.            *)
LEMMA PushingKeeps ==
  ASSUME NEW targets, Fitting(targets, files, executed), NEW flags \in Pipeline!Flags, NEW body \in DOMAIN targets,
         NEW chain \in Chains, targets[body] \in {chain, "none"},
         NEW signatures \in Pipeline!optionallySignTransaction(flags, body, chain),
         Pipeline!optionallyPushTransaction(flags, body, signatures, chain)
  PROVE  Fitting(targets, files', executed')
<1>1. SignedFor(signatures, body, chain)
  BY SigningGives
<1>2. CASE flags.write # Pipeline!None
  <2>1. UNCHANGED executed /\ files' = [files EXCEPT ![flags.write] = Pipeline!File(body, signatures, chain)]
    BY <1>2 DEF Pipeline!optionallyPushTransaction
  <2>2. Proper(targets, Pipeline!File(body, signatures, chain))
    BY <1>1 DEF Proper, Pipeline!File
  <2> QED BY <2>1, <2>2 DEF Fitting
<1>3. CASE flags.write = Pipeline!None
  <2>1. UNCHANGED files /\ Pipeline!pushTransaction(flags.api, body, signatures)
    BY <1>3 DEF Pipeline!optionallyPushTransaction
  <2>2. flags.api \in Chains
    BY DEF Pipeline!Flags
  <2>3. CASE UNCHANGED executed
    BY <2>1, <2>3 DEF Fitting
  <2>4. CASE ~ UNCHANGED executed
    <3>1. /\ Pipeline!Accepts(flags.api, body, signatures)
          /\ executed' = [executed EXCEPT ![flags.api] = @ \cup {body}]
      BY <2>1, <2>4 DEF Pipeline!pushTransaction
    <3>2. chain = flags.api
      BY <1>1, <2>2, <3>1, AcceptedIsMeant
    <3> QED BY <2>1, <2>2, <3>1, <3>2 DEF Fitting
  <2> QED BY <2>3, <2>4
<1> QED BY <1>2, <1>3

(* A transaction that is made is one more, and the others stay as they are. *)
LEMMA OneMore ==
  ASSUME TransactionsInv, NEW chain \in Chains \cup {"none"}, Len(madeFor) < MaxBodies, madeFor' = Append(madeFor, chain)
  PROVE  /\ madeFor' \in Seq(Chains \cup {"none"}) /\ Len(madeFor') <= MaxBodies
         /\ Len(madeFor') = Len(madeFor) + 1 /\ Len(madeFor') \in DOMAIN madeFor' /\ madeFor'[Len(madeFor')] = chain
         /\ Fitting(madeFor', files, executed)
<1>1. madeFor \in Seq(Chains \cup {"none"}) /\ MaxBodies \in Nat
  BY EoscAssumption DEF TransactionsInv, Pipeline!EoscTxAssumption
<1>2. DOMAIN madeFor = 1 .. Len(madeFor) /\ DOMAIN madeFor' = 1 .. Len(madeFor') /\ Len(madeFor) \in Nat
  BY <1>1
<1>3. /\ Len(madeFor') = Len(madeFor) + 1 /\ madeFor'[Len(madeFor')] = chain /\ madeFor' \in Seq(Chains \cup {"none"})
      /\ \A b \in DOMAIN madeFor : b \in DOMAIN madeFor' /\ madeFor'[b] = madeFor[b]
  BY <1>1, <1>2, AppendProperties
<1>4. Fitting(madeFor', files, executed)
  BY <1>3 DEF TransactionsInv, Fitting, Proper
<1> QED BY <1>1, <1>2, <1>3, <1>4

LEMMA TransactionsStep == TransactionsInv /\ [Pipeline!Next]_transactionVars => TransactionsInv'
<1> SUFFICES ASSUME TransactionsInv, [Pipeline!Next]_transactionVars PROVE TransactionsInv'
  OBVIOUS
<1> USE DEF Pipeline!None
<1>1. ASSUME NEW flags \in Pipeline!Flags, Pipeline!pushEOSCActions(flags) PROVE TransactionsInv'
  <2> DEFINE chain == IF flags.chain # Pipeline!None THEN flags.chain ELSE flags.api
             body == Pipeline!Len(madeFor) + 1
  <2>1. chain \in Chains
    BY DEF Pipeline!Flags
  <2>2. /\ Len(madeFor) < MaxBodies /\ madeFor' = Append(madeFor, chain)
        /\ \E signatures \in Pipeline!optionallySignTransaction(flags, body, chain) :
             Pipeline!optionallyPushTransaction(flags, body, signatures, chain)
    BY <1>1, Zenon DEF Pipeline!pushEOSCActions
  <2> HIDE DEF chain
  <2>3. /\ madeFor' \in Seq(Chains \cup {"none"}) /\ Len(madeFor') <= MaxBodies /\ body \in DOMAIN madeFor'
        /\ madeFor'[body] = chain /\ Fitting(madeFor', files, executed)
    BY <2>1, <2>2, OneMore
  <2> HIDE DEF body
  <2>4. Fitting(madeFor', files', executed')
    BY <2>1, <2>2, <2>3, PushingKeeps
  <2> QED BY <2>3, <2>4 DEF TransactionsInv
<1>2. ASSUME NEW f \in Files, Pipeline!GivenFile(f) PROVE TransactionsInv'
  <2>1. /\ Len(madeFor) < MaxBodies /\ madeFor' = Append(madeFor, "none") /\ UNCHANGED executed
        /\ files' = [files EXCEPT ![f] = Pipeline!File(Len(madeFor'), {}, "none")]
    BY <1>2 DEF Pipeline!GivenFile
  <2>2. /\ madeFor' \in Seq(Chains \cup {"none"}) /\ Len(madeFor') <= MaxBodies /\ Len(madeFor') \in DOMAIN madeFor'
        /\ madeFor'[Len(madeFor')] = "none" /\ Fitting(madeFor', files, executed)
    BY <2>1, OneMore
  <2>3. Proper(madeFor', Pipeline!File(Len(madeFor'), {}, "none"))
    BY <2>2, EoscAssumption DEF Proper, Pipeline!File, SignedFor, Pipeline!EoscTxAssumption
  <2>4. Fitting(madeFor', files', executed')
    BY <2>1, <2>2, <2>3 DEF Fitting
  <2> QED BY <2>2, <2>4 DEF TransactionsInv
<1>3. ASSUME NEW flags \in Pipeline!Flags, NEW f \in Files, Pipeline!TxSign(f, flags) PROVE TransactionsInv'
  <2> DEFINE chain == Pipeline!ChainOf(files[f], flags)
             body == files[f].body
  <2>1. Proper(madeFor, files[f]) /\ files[f] # Pipeline!NoFile
    BY <1>3 DEF TransactionsInv, Fitting, Pipeline!TxSign, Pipeline!NoFile
  <2>2. chain \in Chains /\ body \in DOMAIN madeFor /\ madeFor[body] \in {chain, "none"}
    BY <2>1 DEF Pipeline!Flags, Pipeline!ChainOf, Proper
  <2>3. /\ UNCHANGED madeFor
        /\ \E signatures \in Pipeline!optionallySignTransaction(flags, body, chain) :
             Pipeline!optionallyPushTransaction(flags, body, signatures, chain)
    BY <1>3, Zenon DEF Pipeline!TxSign
  <2> HIDE DEF chain, body
  <2>4. Fitting(madeFor, files', executed')
    BY <2>2, <2>3, PushingKeeps DEF TransactionsInv
  <2> QED BY <2>3, <2>4 DEF TransactionsInv
<1>4. ASSUME NEW f \in Files, NEW c \in Chains, Pipeline!TxPush(f, c) PROVE TransactionsInv'
  <2>1. /\ UNCHANGED <<madeFor, files>> /\ Pipeline!pushTransaction(c, files[f].body, files[f].signatures)
        /\ Proper(madeFor, files[f]) /\ files[f] # Pipeline!NoFile
    BY <1>4 DEF TransactionsInv, Fitting, Pipeline!TxPush, Pipeline!NoFile
  <2>2. CASE UNCHANGED executed
    BY <2>1, <2>2 DEF TransactionsInv
  <2>3. CASE ~ UNCHANGED executed
    <3>1. /\ Pipeline!Accepts(c, files[f].body, files[f].signatures)
          /\ executed' = [executed EXCEPT ![c] = @ \cup {files[f].body}]
      BY <2>1, <2>3 DEF Pipeline!pushTransaction
    <3>2. files[f].chain = c /\ files[f].body \in DOMAIN madeFor /\ madeFor[files[f].body] \in {c, "none"}
      BY <2>1, <3>1, AcceptedIsMeant DEF Proper
    <3>3. Fitting(madeFor, files, executed')
      BY <3>1, <3>2 DEF TransactionsInv, Fitting
    <3> QED BY <2>1, <3>3 DEF TransactionsInv
  <2> QED BY <2>2, <2>3
<1>5. CASE UNCHANGED transactionVars
  BY <1>5 DEF TransactionsInv, transactionVars
<1> QED BY <1>1, <1>2, <1>3, <1>4, <1>5 DEF Pipeline!Next

(***************************************************************************)
(* Through whatever files it went and whichever nodes, wallets and chain   *)
(* ids the commands named, a transaction is executed on no chain but the   *)
(* one it was made for, and what a file holds belongs together.            *)
(***************************************************************************)
THEOREM TransactionsCorrect == MCSpec => []TransactionsSound
<1>1. MCInit => TransactionsInv
  BY TransactionsInitial DEF MCInit
<1>2. TransactionsInv /\ [MCNext]_<<program, vaultVars, envelopeVars, forumVars, transactionVars, saleVars>> => TransactionsInv'
  BY TransactionsStep DEF MCNext
<1>3. TransactionsInv => TransactionsSound
  BY TransactionsSafe DEF TransactionsSound
<1> QED BY <1>1, <1>2, <1>3, PTL DEF MCSpec

(***************************************************************************)
(* The sale of an account.                                                 *)
(***************************************************************************)
Targets == [{"owner", "active"} -> {"buyer"} \X (0 .. MaxChanges)]
SellersOwn == [{"owner", "active"} -> {"seller"} \X (0 .. MaxChanges)]

(* What is handed over was the buyer's when it was asked for, nothing is   *)
(* proposed after the sale, and before it the account is the seller's.     *)
SaleInv ==
  /\ DOMAIN auth = {"sold", "buyer"} /\ auth = [a \in {"sold", "buyer"} |-> auth[a]]
  /\ auth["buyer"] \in held \cap Targets /\ extra \in BOOLEAN
  /\ command \in {[pc |-> "idle"], [pc |-> "buyer"]} \cup [pc : {"propose"}, target : held \cap Targets]
  /\ proposal = Market!NoProposal \/ proposal \in [price : Prices, target : held \cap Targets, approvals : SUBSET Market!Requested]
  /\ sale = 0 => auth["sold"] \in SellersOwn /\ paid = 0
  /\ sale # 0 => auth["sold"] \in held \cap Targets /\ paid = sale /\ paid \in 0 .. Funds /\ proposal = Market!NoProposal

LEMMA SaleInitial == Market!Init => SaleInv
  BY EoscAssumption DEF Market!Init, SaleInv, Targets, SellersOwn, Market!Permissions, Market!Party, Market!Idle,
     Market!NoSale, Market!SellAccountAssumption

LEMMA SaleSafe == SaleInv => Market!SaleSound
<1> SUFFICES ASSUME SaleInv PROVE Market!SaleSound
  OBVIOUS
<1>1. Market!TypeOK
  BY EoscAssumption DEF SaleInv, Market!TypeOK, Targets, SellersOwn, Market!Permissions, Market!Authorities, Market!NoProposal,
     Market!SellAccountAssumption
<1>2. Market!SaleIsAtomic
  BY DEF SaleInv, Market!SaleIsAtomic, Market!NoSale, Market!Permissions, Targets, SellersOwn
<1>3. Market!SoldWasBuyers
  BY DEF SaleInv, Market!SoldWasBuyers, Market!NoSale
<1> QED BY <1>1, <1>2, <1>3 DEF Market!SaleSound

LEMMA SaleStep == SaleInv /\ [Market!Next]_saleVars => SaleInv'
<1> SUFFICES ASSUME SaleInv, [Market!Next]_saleVars PROVE SaleInv'
  OBVIOUS
<1>0. Prices \subseteq Nat \ {0} /\ Funds \in Nat /\ MaxChanges \in Nat
  BY EoscAssumption DEF Market!SellAccountAssumption
<1> USE <1>0 DEF Market!NoSale, Market!Idle
<1>1. CASE Market!GetSoldAccount
  BY <1>1 DEF SaleInv, Market!GetSoldAccount
<1>2. CASE Market!GetBuyerAccount
  BY <1>2 DEF SaleInv, Market!GetBuyerAccount
<1>3. CASE Market!SellFails
  BY <1>3 DEF SaleInv, Market!SellFails
<1>4. ASSUME NEW price \in Prices, Market!Propose(price) PROVE SaleInv'
  BY <1>4 DEF SaleInv, Market!Propose
<1>5. CASE Market!Cancel
  BY <1>5 DEF SaleInv, Market!Cancel
<1>6. CASE Market!Exec
  <2>1. sale = 0 /\ paid = 0 /\ proposal.target \in held \cap Targets /\ proposal.price \in Prices /\ proposal.price <= Funds - paid
    BY <1>6 DEF SaleInv, Market!Exec
  <2>2. /\ auth' = [auth EXCEPT !["sold"] = proposal.target] /\ paid' = paid + proposal.price /\ sale' = proposal.price
        /\ proposal' = Market!NoProposal /\ UNCHANGED <<extra, command, held>>
    BY <1>6 DEF Market!Exec
  <2>3. auth'["sold"] = proposal.target /\ auth'["buyer"] = auth["buyer"] /\ DOMAIN auth' = {"sold", "buyer"}
        /\ auth' = [a \in {"sold", "buyer"} |-> auth'[a]]
    BY <2>2 DEF SaleInv
  <2>4. paid' = sale' /\ sale' # 0 /\ paid' \in 0 .. Funds
    <3> DEFINE price == proposal.price
    <3>1. price \in Nat \ {0} /\ price <= Funds - paid /\ paid' = paid + price /\ sale' = price
      BY <2>1, <2>2
    <3> HIDE DEF price
    <3> QED BY <2>1, <3>1
  <2> QED BY <2>1, <2>2, <2>3, <2>4 DEF SaleInv
<1>7. ASSUME NEW level \in Market!Requested, Market!Approve(level) PROVE SaleInv'
  BY <1>7 DEF SaleInv, Market!Approve
<1>8. ASSUME NEW level \in Market!Requested, Market!Unapprove(level) PROVE SaleInv'
  BY <1>8 DEF SaleInv, Market!Unapprove
<1>9. ASSUME NEW p \in Market!Permissions, Market!UpdateAuth("sold", p) PROVE SaleInv'
  <2>1. /\ sale = 0 /\ auth["sold"] \in SellersOwn /\ p \in {"owner", "active"}
        /\ auth["sold"][p][2] < MaxChanges /\ auth["sold"][p][2] \in 0 .. MaxChanges
    BY <1>9 DEF SaleInv, Market!UpdateAuth, Market!Permissions, SellersOwn
  <2> DEFINE n == auth["sold"][p][2] + 1
  <2>2. /\ auth' = [auth EXCEPT !["sold"] = [auth["sold"] EXCEPT ![p] = <<"seller", n>>]]
        /\ held' = held \cup {auth'["buyer"]} /\ UNCHANGED <<extra, paid, command, proposal, sale>>
    BY <1>9 DEF Market!UpdateAuth, Market!Party
  <2>3. n \in 0 .. MaxChanges
    BY <2>1
  <2> HIDE DEF n
  <2>4. [auth["sold"] EXCEPT ![p] = <<"seller", n>>] \in SellersOwn
    BY <2>1, <2>3 DEF SellersOwn
  <2>5. auth'["sold"] \in SellersOwn /\ auth'["buyer"] = auth["buyer"] /\ DOMAIN auth' = {"sold", "buyer"}
        /\ auth' = [a \in {"sold", "buyer"} |-> auth'[a]]
    BY <2>2, <2>4 DEF SaleInv
  <2>6. held' = held
    BY <2>2, <2>5 DEF SaleInv
  <2> QED BY <2>1, <2>2, <2>5, <2>6 DEF SaleInv
<1>10. ASSUME NEW p \in Market!Permissions, Market!UpdateAuth("buyer", p) PROVE SaleInv'
  <2>1. /\ auth["buyer"] \in Targets /\ p \in {"owner", "active"}
        /\ auth["buyer"][p][2] < MaxChanges /\ auth["buyer"][p][2] \in 0 .. MaxChanges
    BY <1>10 DEF SaleInv, Market!UpdateAuth, Market!Permissions, Targets
  <2> DEFINE n == auth["buyer"][p][2] + 1
  <2>2. /\ auth' = [auth EXCEPT !["buyer"] = [auth["buyer"] EXCEPT ![p] = <<"buyer", n>>]]
        /\ held' = held \cup {auth'["buyer"]} /\ UNCHANGED <<extra, paid, command, proposal, sale>>
    BY <1>10 DEF Market!UpdateAuth, Market!Party
  <2>3. n \in 0 .. MaxChanges
    BY <2>1
  <2> HIDE DEF n
  <2>4. [auth["buyer"] EXCEPT ![p] = <<"buyer", n>>] \in Targets
    BY <2>1, <2>3 DEF Targets
  <2>5. auth'["buyer"] \in Targets /\ auth'["sold"] = auth["sold"] /\ DOMAIN auth' = {"sold", "buyer"}
        /\ auth' = [a \in {"sold", "buyer"} |-> auth'[a]]
    BY <2>2, <2>4 DEF SaleInv
  <2>6. held \subseteq held' /\ auth'["buyer"] \in held'
    BY <2>2
  <2>7. \A t \in held \cap Targets : t \in held' \cap Targets
    BY <2>6
  <2>8. command' \in {[pc |-> "idle"], [pc |-> "buyer"]} \cup [pc : {"propose"}, target : held' \cap Targets]
    BY <2>2, <2>7 DEF SaleInv
  <2>9. proposal' = Market!NoProposal \/ proposal' \in [price : Prices, target : held' \cap Targets, approvals : SUBSET Market!Requested]
    BY <2>2, <2>7 DEF SaleInv
  <2> QED BY <2>2, <2>5, <2>6, <2>7, <2>8, <2>9 DEF SaleInv
<1>11. CASE Market!OtherPermissions
  BY <1>11 DEF SaleInv, Market!OtherPermissions
<1>12. CASE UNCHANGED saleVars
  BY <1>12 DEF SaleInv, saleVars
<1> QED BY <1>1, <1>2, <1>3, <1>4, <1>5, <1>6, <1>7, <1>8, <1>9, <1>10, <1>11, <1>12 DEF Market!Next

(***************************************************************************)
(* Whatever the parties change between the requests of sell-account and    *)
(* until the proposal is executed, either the seller has the whole account *)
(* and no money or the buyer has it and has paid what was asked, and what  *)
(* the account got is a pair of authorities that the buyer had at one time.*)
(***************************************************************************)
THEOREM SaleCorrect == MCSpec => []SaleSound
<1>1. MCInit => SaleInv
  BY SaleInitial DEF MCInit
<1>2. SaleInv /\ [MCNext]_<<program, vaultVars, envelopeVars, forumVars, transactionVars, saleVars>> => SaleInv'
  BY SaleStep DEF MCNext
<1>3. SaleInv => SaleSound
  BY SaleSafe DEF SaleSound
<1> QED BY <1>1, <1>2, <1>3, PTL DEF MCSpec
=============================================================================
