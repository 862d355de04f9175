---------------------------- MODULE EosStoreProofs ----------------------------
(***************************************************************************)
(* What TLAPS proves of the scan of EosManager and of EosStore behind it,  *)
(* for every chain, channel capacity, number of crashes and choice of      *)
(* failures.                                                               *)
(*                                                                         *)
(*   BlockRespDecodeTrx  what it returns is an increasing selection of the *)
(*                       block's transfers that leaves out only those      *)
(*                       looked up by id (TempTransactionsSelects)         *)
(*   ManagerInv          the scan: what was sent, in order and gapless,    *)
(*                       and what still waits in the channel               *)
(*   LossBounded         a crash loses at most what waited, and each crash *)
(*                       adds to it once                                   *)
(*   StoreInv            the block in the consumer's hand and what of it   *)
(*                       the gateway's channel holds                       *)
(*   Feed!FeedNext       every step is one of the confirmed feed's         *)
(***************************************************************************)
EXTENDS EosStore, FiniteSetTheorems, SequenceTheorems, WellFoundedInduction, TLAPS

(* A set of naturals has a least element: the lemmas on data below are     *)
(* proved by taking the first round at which they would fail.              *)
LEMMA Least ==
  ASSUME NEW S \in SUBSET Nat, S # {}
  PROVE  \E m \in S : \A j \in S : m <= j
<1> DEFINE R == OpToRel(<, Nat)
<1>1. IsWellFoundedOn(R, Nat)
  BY NatLessThanWellFounded
<1>2. \A i, j \in Nat : i < j => <<i, j>> \in R
  BY DEF OpToRel
<1> HIDE DEF R
<1>3. PICK m \in S : \A j \in S : ~ (<<j, m>> \in R)
  BY <1>1, WFMin
<1>4. ASSUME NEW j \in S PROVE m <= j
  <2>1. m \in Nat /\ j \in Nat /\ ~ (<<j, m>> \in R)
    BY <1>3
  <2>2. ~ (j < m)
    BY <1>2, <2>1, Zenon
  <2> QED BY <2>1, <2>2
<1> QED BY <1>4

(* s is the transfers at the places f names, in their order, and only      *)
(* those that a receipt does not hold in a readable form are left out.     *)
Selects(s, transfers, f, n) ==
  /\ s \in Seq(Transfer)
  /\ f \in [1 .. Len(s) -> 1 .. n]
  /\ \A k \in 1 .. Len(s) : s[k] = transfers[f[k]]
  /\ \A j, k \in 1 .. Len(s) : j < k => f[j] < f[k]
  /\ \A i \in 1 .. n : transfers[i].receipt # "packed" \/ \E k \in 1 .. Len(s) : f[k] = i

(* One round of the loop of BlockRespDecodeTrx, as a function of the rounds. *)
Rounds(g, transfers, found, n) ==
  g = [i \in 0 .. n |-> IF i = 0 THEN <<>> ELSE Appended(g[i - 1], transfers[i], found)]

LEMMA RoundsExist ==
  ASSUME NEW transfers, NEW found, NEW n \in Nat
  PROVE  \E g : Rounds(g, transfers, found, n)
<1> DEFINE Stuck == {m \in Nat : ~ \E g : Rounds(g, transfers, found, m)}
<1> SUFFICES ASSUME Stuck # {} PROVE FALSE
  OBVIOUS
<1>1. PICK m \in Stuck : \A j \in Stuck : m <= j
  <2>1. Stuck \in SUBSET Nat /\ Stuck # {}
    OBVIOUS
  <2> HIDE DEF Stuck
  <2> QED BY <2>1, Least
<1>2. CASE m = 0
  <2>1. Rounds([i \in 0 .. 0 |-> <<>>], transfers, found, 0)
    BY DEF Rounds
  <2> QED BY <1>2, <2>1
<1>3. CASE m # 0
  <2>1. m - 1 \in Nat /\ ~ (m <= m - 1)
    BY <1>3
  <2>2. PICK g : Rounds(g, transfers, found, m - 1)
    BY <1>1, <2>1
  <2> DEFINE next == [i \in 0 .. m |-> IF i = m THEN Appended(g[m - 1], transfers[m], found) ELSE g[i]]
  <2>3. \A i \in 0 .. m - 1 : next[i] = g[i]
    BY <2>1
  <2>4. \A i \in 0 .. m - 1 : g[i] = IF i = 0 THEN <<>> ELSE Appended(g[i - 1], transfers[i], found)
    BY <2>2, Zenon DEF Rounds
  <2>5. \A i \in 0 .. m : next[i] = IF i = 0 THEN <<>> ELSE Appended(next[i - 1], transfers[i], found)
    <3> TAKE i \in 0 .. m
    <3>1. CASE i = m
      BY <1>3, <2>1, <2>3, <3>1
    <3>2. CASE i # m
      <4>1. i \in 0 .. m - 1 /\ (i # 0 => i - 1 \in 0 .. m - 1)
        BY <2>1, <3>2
      <4> HIDE DEF next
      <4> QED BY <2>3, <2>4, <4>1
    <3> QED BY <3>1, <3>2
  <2>6. next = [i \in 0 .. m |-> next[i]]
    OBVIOUS
  <2>7. Rounds(next, transfers, found, m)
    <3> HIDE DEF next
    <3> QED BY <2>5, <2>6 DEF Rounds
  <2> QED BY <1>1, <2>7
<1> QED BY <1>2, <1>3

LEMMA TempTransactionsRounds ==
  ASSUME NEW transfers, Len(transfers) \in Nat, NEW found
  PROVE  \E g : Rounds(g, transfers, found, Len(transfers)) /\ TempTransactions(transfers, found) = g[Len(transfers)]
<1> DEFINE g == CHOOSE g : Rounds(g, transfers, found, Len(transfers))
<1>1. Rounds(g, transfers, found, Len(transfers))
  BY RoundsExist
<1>2. TempTransactions(transfers, found) = g[Len(transfers)]
  BY Zenon DEF TempTransactions, Rounds
<1> QED BY <1>1, <1>2

LEMMA TempTransactionsSelects ==
  ASSUME NEW transfers \in Seq(Transfer), NEW found
  PROVE  \E f : Selects(TempTransactions(transfers, found), transfers, f, Len(transfers))
<1> DEFINE n == Len(transfers)
<1>0. n \in Nat
  OBVIOUS
<1>1. PICK g : /\ Rounds(g, transfers, found, n)
               /\ TempTransactions(transfers, found) = g[n]
  BY <1>0, TempTransactionsRounds
<1> DEFINE Wrong == {m \in 0 .. n : ~ \E f : Selects(g[m], transfers, f, m)}
<1> SUFFICES ASSUME Wrong # {} PROVE FALSE
  <2>1. Wrong = {} => \E f : Selects(g[n], transfers, f, n)
    BY <1>0
  <2> QED BY <1>1, <2>1
<1>2. PICK m \in Wrong : \A j \in Wrong : m <= j
  <2>1. Wrong \in SUBSET Nat /\ Wrong # {}
    BY <1>0
  <2> HIDE DEF Wrong
  <2> QED BY <2>1, Least
<1>3. m \in 0 .. n /\ ~ \E f : Selects(g[m], transfers, f, m)
  OBVIOUS
<1>4. \A i \in 0 .. n :
        g[i] = IF i = 0 THEN <<>> ELSE Appended(g[i - 1], transfers[i], found)
  BY <1>1, Zenon DEF Rounds
<1>5. CASE m = 0
  <2>1. g[0] = <<>>
    BY <1>0, <1>4
  <2>2. Selects(<<>>, transfers, [i \in 1 .. 0 |-> i], 0)
    BY DEF Selects
  <2> QED BY <1>3, <1>5, <2>1, <2>2
<1>6. CASE m # 0
  <2>1. m \in 1 .. n /\ m - 1 \in 0 .. n /\ ~ (m <= m - 1)
    BY <1>0, <1>3, <1>6
  <2>2. PICK f : Selects(g[m - 1], transfers, f, m - 1)
    BY <1>2, <2>1
  <2>3. g[m] = Appended(g[m - 1], transfers[m], found)
    BY <1>4, <1>6, <2>1
  <2>4. transfers[m] \in Transfer
    BY <2>1
  <2>5. CASE LeftOut(transfers[m], found)
    <3>1. g[m] = g[m - 1]
      BY <2>3, <2>5 DEF Appended
    <3>2. Selects(g[m], transfers, f, m)
      BY <2>1, <2>2, <2>5, <3>1 DEF Selects, LeftOut
    <3> QED BY <1>3, <3>2
  <2>6. CASE ~ LeftOut(transfers[m], found)
    <3> DEFINE s == g[m - 1]
               k1 == Len(s) + 1
               f1 == [k \in 1 .. k1 |-> IF k = k1 THEN m ELSE f[k]]
    <3>1. g[m] = Append(s, transfers[m])
      BY <2>3, <2>6 DEF Appended
    <3>2. s \in Seq(Transfer) /\ Len(s) \in Nat
      BY <2>2 DEF Selects
    <3>3. /\ g[m] \in Seq(Transfer) /\ Len(g[m]) = k1
          /\ \A k \in 1 .. Len(s) : g[m][k] = s[k]
          /\ g[m][k1] = transfers[m]
      BY <2>4, <3>1, <3>2
    <3>4. /\ \A k \in 1 .. Len(s) : f[k] \in 1 .. m - 1 /\ f1[k] = f[k]
          /\ f1[k1] = m
          /\ f1 \in [1 .. k1 -> 1 .. m]
      <4>1. \A k \in 1 .. Len(s) : f[k] \in 1 .. m - 1
        BY <2>2 DEF Selects
      <4>2. \A k \in 1 .. k1 : k = k1 \/ k \in 1 .. Len(s)
        BY <3>2
      <4>3. \A k \in 1 .. Len(s) : k \in 1 .. k1 /\ k # k1
        BY <3>2
      <4>4. k1 \in 1 .. k1
        BY <3>2
      <4> QED BY <2>1, <4>1, <4>2, <4>3, <4>4
    <3>5. \A k \in 1 .. k1 : k = k1 \/ k \in 1 .. Len(s)
      BY <3>2
    <3> HIDE DEF f1
    <3>6. \A k \in 1 .. k1 : g[m][k] = transfers[f1[k]]
      BY <2>2, <3>3, <3>4, <3>5 DEF Selects
    <3>7. \A j, k \in 1 .. k1 : j < k => f1[j] < f1[k]
      <4> SUFFICES ASSUME NEW j \in 1 .. k1, NEW k \in 1 .. k1, j < k PROVE f1[j] < f1[k]
        OBVIOUS
      <4>1. j \in 1 .. Len(s)
        BY <3>2
      <4> QED BY <2>1, <2>2, <3>2, <3>4, <3>5, <4>1 DEF Selects
    <3>8. \A i \in 1 .. m : transfers[i].receipt # "packed" \/ \E k \in 1 .. k1 : f1[k] = i
      <4> TAKE i \in 1 .. m
      <4>1. CASE i = m
        BY <3>2, <3>4, <4>1
      <4>2. CASE i # m
        <5>1. i \in 1 .. m - 1
          BY <2>1, <4>2
        <5> QED BY <2>2, <3>2, <3>4, <5>1 DEF Selects
      <4> QED BY <4>1, <4>2
    <3>9. Selects(g[m], transfers, f1, m)
      BY <3>3, <3>4, <3>6, <3>7, <3>8 DEF Selects
    <3> QED BY <1>3, <3>9
  <2> QED BY <2>5, <2>6
<1> QED BY <1>5, <1>6

(* The blocks a fetch of height h can give, with what its lookups found.   *)
BlocksOf(h) == BlockRespDecodeTrx(h, Transfers[h])

(* How many of the blocks sent in this run were taken from the channel.    *)
Received == Len(out) - Len(irreversibleBlockChan)

(* Where the scan stands at each of its program points.                    *)
ScanBounds ==
  /\ lastIr <= lib
  /\ pc \in {"fetch", "send", "save"} => scanIrHeight < lastIr
  /\ pc \in {"send", "save"} => scanIrHeight > 0
  /\ pc = "send" => block \in BlocksOf(scanIrHeight)
  /\ pc \in {"fetchReversible", "sendReversible"} => scanHeight \in Heights
  /\ pc = "sendReversible" => block \in Blocks
  /\ pc \in {"down", "born"} => scanIrHeight = 0 /\ start = 0 /\ out = <<>>
  /\ start <= scanIrHeight

(* The heights sent rise, and the scan is past all of them.                *)
OutInOrder ==
  /\ \A k \in DOMAIN out :
       /\ start <= out[k] /\ out[k] < lib
       /\ out[k] < scanIrHeight \/ (pc = "save" /\ out[k] = scanIrHeight)
  /\ pc = "save" => out # <<>> /\ out[Len(out)] = scanIrHeight
  /\ \A j, k \in DOMAIN out : j < k => out[j] < out[k]

(* Every height the scan passed was sent or failed to be fetched.          *)
ScanCovered ==
  /\ \A h \in start .. scanIrHeight - 1 : (\E k \in DOMAIN out : out[k] = h) \/ h \in failed
  /\ \A k \in DOMAIN out : out[k] \in everSent
  /\ ArgHeight = 0 =>
       /\ \A h \in 1 .. scanIrHeight - 1 : h \in everSent \cup failed
       /\ \A h \in 1 .. redis - 1 : h \in everSent \cup failed

(* The channel holds the end of what was sent, the rest was consumed.      *)
ChanIsTail ==
  /\ Len(irreversibleBlockChan) <= Len(out)
  /\ \A k \in DOMAIN irreversibleBlockChan :
       /\ irreversibleBlockChan[k].height = out[Received + k]
       /\ irreversibleBlockChan[k] \in BlocksOf(irreversibleBlockChan[k].height)
  /\ \A k \in 1 .. Received : out[k] \in consumed

(* What lies below a height and was neither consumed nor failed.           *)
Below(n) == (1 .. n - 1) \ (consumed \cup failed)

(* Each crash lost at most the blocks that waited in the channel.          *)
LossBounded == ArgHeight = 0 =>
  /\ Cardinality(Below(start)) <= crashes * (ChanCap - 1)
  /\ \/ Cardinality(Below(redis)) <= crashes * (ChanCap - 1)
     \/ \E k \in DOMAIN out : out[k] = redis

(* What of the block in hand was pushed.                                   *)
InHand == IF consumer.at = "save" THEN 1 .. consumer.next ELSE 1 .. consumer.next - 1

Entry(m) == [height |-> hand.height, transfer |-> hand.transfers[m]]

(* What of the block in hand is in the channel of the gateway.             *)
HandInv ==
  /\ consumer.at \in {"confirm", "save"} =>
       /\ Received > 0 /\ hand.height = out[Received] /\ hand \in BlocksOf(hand.height)
       /\ hand \in Blocks
       /\ consumer.next \in 1 .. Len(hand.transfers) + 1
       /\ \A k \in DOMAIN gate : gate[k].height = hand.height => \E m \in InHand : gate[k] = Entry(m)
       /\ \A m \in InHand : \E k \in DOMAIN gate : gate[k] = Entry(m)
  /\ consumer.at = "save" =>
       /\ consumer.next <= Len(hand.transfers)
       /\ gate # <<>> /\ gate[Len(gate)] = Entry(consumer.next)
  /\ consumer.at = "unconfirm" => hand \in Blocks /\ consumer.next > 0

(* What the channel of the gateway can hold, from blocks received.         *)
Entries == [height : Heights, transfer : Transfer]

GateInv ==
  /\ gate \in Seq(Entries)
  /\ \A k \in DOMAIN gate : \E r \in 1 .. Received : gate[k].height = out[r]

(* The inductive invariant of the scan.                                    *)
ManagerInv == ManagerTypeOK /\ ScanBounds /\ OutInOrder /\ ScanCovered /\ ChanIsTail

LEMMA BlockFacts ==
  ASSUME NEW h, NEW transfers \in Seq(Transfer), NEW b \in BlockRespDecodeTrx(h, transfers)
  PROVE  b.height = h /\ b.transfers \in Seq(Transfer)
<1>1. PICK found : b = [height |-> h, transfers |-> TempTransactions(transfers, found)]
  BY DEF BlockRespDecodeTrx
<1>2. TempTransactions(transfers, found) \in Seq(Transfer)
  BY TempTransactionsSelects DEF Selects
<1> QED BY <1>1, <1>2

LEMMA BlocksFacts ==
  /\ \A h \in Heights : BlocksOf(h) \subseteq Blocks /\ BlockRespDecodeTrx(h, Orphans[h]) \subseteq Blocks
  /\ \A b \in Blocks : b.height \in Heights /\ b.transfers \in Seq(Transfer)
<1>1. \A h \in Heights : BlocksOf(h) \subseteq Blocks /\ BlockRespDecodeTrx(h, Orphans[h]) \subseteq Blocks
  BY DEF Blocks, BlocksOf
<1>2. \A h \in Heights : Transfers[h] \in Seq(Transfer) /\ Orphans[h] \in Seq(Transfer)
  BY ManagerAssumption
<1>3. ASSUME NEW b \in Blocks PROVE b.height \in Heights /\ b.transfers \in Seq(Transfer)
  <2>1. PICK h \in Heights : b \in BlockRespDecodeTrx(h, Transfers[h]) \/ b \in BlockRespDecodeTrx(h, Orphans[h])
    BY DEF Blocks
  <2> QED BY <1>2, <2>1, BlockFacts
<1> QED BY <1>1, <1>3

LEMMA BlocksOfHeight == \A h \in Heights : \A b \in BlocksOf(h) : b.height = h
BY BlockFacts, ManagerAssumption DEF BlocksOf

LEMMA HeightsAre == Heights \subseteq Nat \ {0} /\ 1 .. MaxHeight \subseteq Heights
BY ManagerAssumption DEF Heights

LEMMA ManagerInvInit == Init => ManagerInv
<1> SUFFICES ASSUME Init PROVE ManagerInv
  OBVIOUS
<1> QED BY ManagerAssumption DEF Init, ManagerInit, ManagerInv, ManagerTypeOK, ScanBounds, OutInOrder,
     ScanCovered, ChanIsTail, Received

LEMMA AppendFacts ==
  ASSUME NEW S, NEW s \in Seq(S), NEW e \in S
  PROVE  /\ Append(s, e) \in Seq(S) /\ Len(s) \in Nat
         /\ Len(Append(s, e)) = Len(s) + 1
         /\ DOMAIN s = 1 .. Len(s) /\ DOMAIN Append(s, e) = 1 .. Len(s) + 1
         /\ \A k \in 1 .. Len(s) : Append(s, e)[k] = s[k]
         /\ Append(s, e)[Len(s) + 1] = e
         /\ \A k \in DOMAIN Append(s, e) : k = Len(s) + 1 \/ k \in 1 .. Len(s)
<1>1. Len(s) \in Nat /\ DOMAIN s = 1 .. Len(s)
  OBVIOUS
<1> QED BY <1>1

LEMMA OutHeights ==
  ASSUME ManagerTypeOK PROVE Len(out) \in Nat /\ DOMAIN out = 1 .. Len(out) /\ \A k \in DOMAIN out : out[k] \in Nat
<1>1. out \in Seq(Heights)
  BY DEF ManagerTypeOK
<1>2. Len(out) \in Nat /\ DOMAIN out = 1 .. Len(out) /\ \A k \in DOMAIN out : out[k] \in Heights
  BY <1>1
<1> QED BY <1>2, HeightsAre

(* A step that moves neither the scan nor what it has sent and received.     *)
(* A step that leaves what was sent and what was consumed alone.           *)
Quiet ==
  /\ UNCHANGED <<redis, scanIrHeight, irreversibleBlockChan, record>>
  /\ lib' \in Nat /\ lib' >= lib
  /\ pc' = "save" <=> pc = "save"

LEMMA QuietManagerInv ==
  ASSUME ManagerInv, Quiet PROVE OutInOrder' /\ ScanCovered' /\ ChanIsTail'
<1> USE DEF ManagerInv, Quiet, record
<1>1. OutInOrder'
  <2>1. ManagerTypeOK /\ out' = out /\ start' = start
    OBVIOUS
  <2>2. lib \in Nat /\ lib' \in Int /\ \A k \in DOMAIN out : out[k] \in Nat
    BY OutHeights DEF ManagerTypeOK
  <2> QED BY <2>1, <2>2 DEF OutInOrder
<1>2. ScanCovered'
  BY DEF ScanCovered
<1>3. ChanIsTail'
  BY DEF ChanIsTail, Received
<1> QED BY <1>1, <1>2, <1>3

LEMMA QuietAdvanceChain == ASSUME ManagerInv, AdvanceChain PROVE ManagerInv'
<1> USE ManagerAssumption DEF AdvanceChain, chain, position, channels
<1>1. Quiet
  BY DEF ManagerInv, ManagerTypeOK, Quiet, record
<1>2. ManagerTypeOK' /\ ScanBounds'
  BY DEF ManagerInv, ManagerTypeOK, ScanBounds, record
<1> QED BY <1>1, <1>2, QuietManagerInv DEF ManagerInv

LEMMA QuietWatcher ==
  ASSUME ManagerInv,
         \/ GetIrreversibleBlockHeight \/ Sleep \/ GetInfoFails \/ GetBlock
         \/ GetReversibleBlock \/ GetReversibleBlockFails \/ SendReversible
         \/ \E n \in Answers : GetInfo(n)
  PROVE  ManagerInv'
<1> USE ManagerAssumption DEF chain, position, channels
<1>0. ManagerTypeOK /\ ScanBounds /\ lib \in Nat
  BY DEF ManagerInv, ManagerTypeOK
<1>1. Quiet
  BY <1>0 DEF Quiet, GetIrreversibleBlockHeight, Sleep, GetInfoFails, GetBlock, GetReversibleBlock,
     GetReversibleBlockFails, SendReversible, GetInfo, managerVars
<1>2. ManagerTypeOK' /\ ScanBounds'
  <2>1. CASE GetIrreversibleBlockHeight \/ Sleep \/ GetInfoFails
    BY <1>0, <2>1 DEF GetIrreversibleBlockHeight, Sleep, GetInfoFails, ManagerTypeOK, ScanBounds, record, managerVars
  <2>2. CASE GetBlock
    <3>1. scanIrHeight \in Heights /\ block' \in BlocksOf(scanIrHeight)
      BY <1>0, <2>2, HeightsAre DEF GetBlock, ManagerTypeOK, ScanBounds, BlocksOf
    <3> QED BY <1>0, <2>2, <3>1, BlocksFacts DEF GetBlock, ManagerTypeOK, ScanBounds, record
  <2>3. CASE GetReversibleBlock
    <3>1. scanHeight \in Heights
      BY <1>0, <2>3 DEF GetReversibleBlock, ScanBounds
    <3>2. block' \in Blocks
      BY <2>3, <3>1, BlocksFacts DEF GetReversibleBlock, BlocksOf
    <3> QED BY <1>0, <2>3, <3>1, <3>2 DEF GetReversibleBlock, ManagerTypeOK, ScanBounds, record
  <2>4. CASE GetReversibleBlockFails
    BY <1>0, <2>4 DEF GetReversibleBlockFails, ManagerTypeOK, ScanBounds, record
  <2>5. CASE SendReversible
    BY <1>0, <2>5 DEF SendReversible, ManagerTypeOK, ScanBounds, record, NoBlock
  <2>6. ASSUME NEW n \in Answers, GetInfo(n) PROVE ManagerTypeOK' /\ ScanBounds'
    <3>1. n \in 0 .. lib /\ lib \in 0 .. MaxHeight
      BY <1>0 DEF Answers, ManagerTypeOK
    <3>2. pc' = "fetchReversible" => scanHeight' \in Heights
      BY <1>0, <2>6, <3>1 DEF GetInfo, ManagerTypeOK, Heights
    <3>3. scanHeight' \in Nat /\ pc' \in {"fetch", "fetchReversible", "outer"}
      BY <1>0, <2>6, <3>1 DEF GetInfo, ManagerTypeOK
    <3>4. pc' = "fetch" => scanIrHeight < n
      BY <1>0, <2>6, <3>1 DEF GetInfo, ManagerTypeOK
    <3>5. UNCHANGED <<lib, scanIrHeight, start, out, block, redis, crashes>> /\ lastIr' = n
      BY <2>6 DEF GetInfo, record
    <3>6. ManagerTypeOK'
      BY <1>0, <2>6, <3>1, <3>3, <3>5 DEF GetInfo, ManagerTypeOK, record
    <3>7. ScanBounds'
      BY <1>0, <3>1, <3>2, <3>3, <3>4, <3>5 DEF ScanBounds, ManagerTypeOK
    <3> QED BY <3>6, <3>7
  <2> QED BY <2>1, <2>2, <2>3, <2>4, <2>5, <2>6
<1> QED BY <1>1, <1>2, QuietManagerInv DEF ManagerInv

LEMMA BeginScanInv == ASSUME ManagerInv, BeginScan PROVE ManagerInv'
<1> USE ManagerAssumption DEF BeginScan, chain, channels, ManagerTypeOK
<1>0. ManagerTypeOK /\ ScanBounds /\ OutInOrder /\ ScanCovered /\ ChanIsTail
  BY DEF ManagerInv
<1>1. scanIrHeight' \in Nat /\ start' = scanIrHeight' /\ out = <<>> /\ out' = out
  BY <1>0 DEF ScanBounds, GetScanHeightFromRedis
<1>2. ManagerTypeOK' /\ ScanBounds'
  BY <1>0, <1>1 DEF ScanBounds
<1>3. OutInOrder'
  BY <1>1 DEF OutInOrder
<1>4. ScanCovered'
  BY <1>0, <1>1 DEF ScanCovered, GetScanHeightFromRedis
<1>5. ChanIsTail'
  BY <1>0, <1>1 DEF ChanIsTail, Received
<1> QED BY <1>2, <1>3, <1>4, <1>5 DEF ManagerInv

LEMMA GetBlockFailsInv == ASSUME ManagerInv, GetBlockFails PROVE ManagerInv'
<1> USE ManagerAssumption DEF GetBlockFails, chain, channels
<1>0. ManagerTypeOK /\ ScanBounds /\ OutInOrder /\ ScanCovered /\ ChanIsTail
  BY DEF ManagerInv
<1>1. scanIrHeight \in Nat /\ lastIr \in Nat /\ pc = "fetch" /\ pc' \in {"outer", "info"} /\ out' = out
  BY <1>0 DEF ManagerTypeOK, After
<1>2. ManagerTypeOK'
  BY <1>0, <1>1 DEF ManagerTypeOK
<1>3. ScanBounds'
  BY <1>0, <1>1 DEF ManagerTypeOK, ScanBounds
<1>4. OutInOrder'
  <2>1. \A k \in DOMAIN out : out[k] \in Nat
    BY <1>0, OutHeights
  <2> QED BY <1>0, <1>1, <2>1 DEF OutInOrder
<1>5. ScanCovered'
  BY <1>0, <1>1 DEF ScanCovered, ManagerTypeOK
<1>6. ChanIsTail'
  BY <1>0 DEF ChanIsTail, Received
<1> QED BY <1>2, <1>3, <1>4, <1>5, <1>6 DEF ManagerInv

LEMMA SendIrreversibleInv == ASSUME ManagerInv, SendIrreversible PROVE ManagerInv'
<1> USE ManagerAssumption DEF SendIrreversible, chain, position
<1>0. ManagerTypeOK /\ ScanBounds /\ OutInOrder /\ ScanCovered /\ ChanIsTail
  BY DEF ManagerInv
<1>1. /\ scanIrHeight \in Heights /\ scanIrHeight \in Nat /\ scanIrHeight < lib
      /\ block \in BlocksOf(scanIrHeight) /\ block \in Blocks /\ block.height = scanIrHeight
  BY <1>0, HeightsAre, BlocksFacts, BlocksOfHeight DEF ManagerTypeOK, ScanBounds
<1> DEFINE ch == irreversibleBlockChan
<1>2. /\ Len(out) \in Nat /\ out' \in Seq(Heights) /\ Len(out') = Len(out) + 1
      /\ out'[Len(out) + 1] = scanIrHeight
      /\ \A k \in 1 .. Len(out) : out'[k] = out[k] /\ out[k] \in Nat
      /\ \A k \in DOMAIN out' : k = Len(out) + 1 \/ k \in 1 .. Len(out)
      /\ DOMAIN out = 1 .. Len(out) /\ DOMAIN out' = 1 .. Len(out) + 1
  <2>1. out \in Seq(Heights) /\ out' = Append(out, scanIrHeight)
    BY <1>0 DEF ManagerTypeOK
  <2>2. \A k \in 1 .. Len(out) : out[k] \in Nat
    BY <1>0, OutHeights
  <2> QED BY <1>1, <2>1, <2>2, AppendFacts
<1>3. /\ Len(ch) \in Nat /\ Len(ch) < ChanCap /\ ch' \in Seq(Blocks) /\ Len(ch') = Len(ch) + 1
      /\ ch'[Len(ch) + 1] = block
      /\ \A k \in 1 .. Len(ch) : ch'[k] = ch[k]
      /\ \A k \in DOMAIN ch' : k = Len(ch) + 1 \/ k \in 1 .. Len(ch)
      /\ DOMAIN ch = 1 .. Len(ch)
  <2>1. ch \in Seq(Blocks) /\ ch' = Append(ch, block) /\ Len(ch) < ChanCap
    BY <1>0 DEF ManagerTypeOK
  <2> HIDE DEF ch
  <2> QED BY <1>1, <2>1, AppendFacts
<1>4. ManagerTypeOK'
  BY <1>0, <1>1, <1>2, <1>3 DEF ManagerTypeOK, NoBlock
<1>5. ScanBounds'
  BY <1>0, <1>1 DEF ScanBounds
<1>6. OutInOrder'
  <2>1. \A k \in 1 .. Len(out) : start <= out[k] /\ out[k] < lib /\ out[k] < scanIrHeight
    BY <1>0, <1>2 DEF OutInOrder
  <2>2. \A j, k \in DOMAIN out' : j < k => out'[j] < out'[k]
    <3> SUFFICES ASSUME NEW j \in DOMAIN out', NEW k \in DOMAIN out', j < k PROVE out'[j] < out'[k]
      OBVIOUS
    <3>1. j \in 1 .. Len(out)
      BY <1>2
    <3> QED BY <1>0, <1>2, <2>1, <3>1 DEF OutInOrder
  <2>3. out' # <<>> /\ out'[Len(out')] = scanIrHeight'
    <3>1. Len(out') # 0 /\ scanIrHeight' = scanIrHeight
      BY <1>2
    <3> QED BY <1>2, <3>1
  <2>4. start <= scanIrHeight
    BY <1>0 DEF ScanBounds
  <2>5. \A k \in DOMAIN out' : /\ start <= out'[k] /\ out'[k] < lib
                               /\ out'[k] < scanIrHeight \/ out'[k] = scanIrHeight
    BY <1>1, <1>2, <2>1, <2>4
  <2> QED BY <2>2, <2>3, <2>5 DEF OutInOrder
<1>7. ScanCovered'
  <2>1. \A h : (\E k \in DOMAIN out : out[k] = h) => \E k \in DOMAIN out' : out'[k] = h
    BY <1>2
  <2>2. \A k \in DOMAIN out' : out'[k] \in everSent'
    BY <1>0, <1>2 DEF ScanCovered
  <2> QED BY <1>0, <2>1, <2>2 DEF ScanCovered
<1>8. ChanIsTail'
  <2>1. Received' = Received /\ Received \in Nat /\ Received <= Len(out)
    BY <1>0, <1>2, <1>3 DEF Received, ChanIsTail
  <2>2. Len(ch') <= Len(out')
    BY <1>0, <1>2, <1>3 DEF ChanIsTail
  <2>3. ASSUME NEW k \in DOMAIN ch'
        PROVE  ch'[k].height = out'[Received + k] /\ ch'[k] \in BlocksOf(ch'[k].height)
    <3>1. CASE k \in 1 .. Len(ch)
      <4>1. Received + k \in 1 .. Len(out)
        <5>1. Received = Len(out) - Len(ch) /\ Len(ch) \in Nat /\ Len(out) \in Nat /\ Received \in Nat
          BY <1>2, <1>3, <2>1 DEF Received
        <5> QED BY <3>1, <5>1
      <4> QED BY <1>0, <1>2, <1>3, <3>1, <4>1 DEF ChanIsTail
    <3>2. CASE k = Len(ch) + 1
      <4>1. Received + k = Len(out) + 1
        BY <1>2, <1>3, <3>2 DEF Received
      <4> QED BY <1>1, <1>2, <1>3, <3>2, <4>1
    <3> QED BY <1>3, <3>1, <3>2
  <2>4. \A k \in 1 .. Received : out'[k] \in consumed'
    BY <1>0, <1>2, <2>1 DEF ChanIsTail
  <2> QED BY <2>1, <2>2, <2>3, <2>4 DEF ChanIsTail
<1> QED BY <1>4, <1>5, <1>6, <1>7, <1>8 DEF ManagerInv

LEMMA SaveHeightInv == ASSUME ManagerInv, SaveHeight PROVE ManagerInv'
<1> USE ManagerAssumption DEF SaveHeight, chain, channels
<1>0. ManagerTypeOK /\ ScanBounds /\ OutInOrder /\ ScanCovered /\ ChanIsTail
  BY DEF ManagerInv
<1>1. /\ scanIrHeight \in Nat /\ lastIr \in Nat /\ pc = "save" /\ pc' \in {"outer", "fetch"} /\ out' = out
      /\ pc' = "fetch" => scanIrHeight + 1 < lastIr
      /\ redis' = scanIrHeight \/ redis' = redis
      /\ scanIrHeight' = scanIrHeight + 1
  <2>1. scanIrHeight \in Nat /\ lastIr \in Nat
    BY <1>0 DEF ManagerTypeOK
  <2>2. pc' \in {"outer", "fetch"} /\ (pc' = "fetch" => scanIrHeight + 1 < lastIr)
    BY <2>1 DEF After
  <2>3. redis' = scanIrHeight \/ redis' = redis
    BY DEF UpdateScanHeightToRedis
  <2> QED BY <2>1, <2>2, <2>3 DEF record
<1>2. ManagerTypeOK'
  BY <1>0, <1>1 DEF ManagerTypeOK, record
<1>3. ScanBounds'
  BY <1>0, <1>1 DEF ManagerTypeOK, ScanBounds, record
<1>4. OutInOrder'
  <2>1. \A k \in DOMAIN out : out[k] \in Nat
    BY <1>0, OutHeights
  <2> QED BY <1>0, <1>1, <2>1 DEF OutInOrder, record
<1>5. ScanCovered'
  <2>1. Len(out) \in DOMAIN out /\ out[Len(out)] = scanIrHeight
    BY <1>0, <1>1 DEF OutInOrder, ManagerTypeOK
  <2>2. scanIrHeight \in everSent
    BY <1>0, <2>1 DEF ScanCovered
  <2>3. start \in Nat /\ (\A h \in start .. scanIrHeight' - 1 : h = scanIrHeight \/ h \in start .. scanIrHeight - 1)
    BY <1>0, <1>1 DEF ManagerTypeOK
  <2>4. \A h \in 1 .. scanIrHeight' - 1 : h = scanIrHeight \/ h \in 1 .. scanIrHeight - 1
    BY <1>1
  <2>5. \A h \in start .. scanIrHeight' - 1 : (\E k \in DOMAIN out : out[k] = h) \/ h \in failed
    BY <1>0, <2>1, <2>3 DEF ScanCovered
  <2>6. ArgHeight = 0 => \A h \in 1 .. scanIrHeight' - 1 : h \in everSent \cup failed
    BY <1>0, <2>2, <2>4 DEF ScanCovered
  <2>7. ArgHeight = 0 => \A h \in 1 .. redis' - 1 : h \in everSent \cup failed
    BY <1>0, <1>1 DEF ScanCovered
  <2> QED BY <1>0, <2>5, <2>6, <2>7 DEF ScanCovered, record
<1>6. ChanIsTail'
  BY <1>0 DEF ChanIsTail, Received, record
<1> QED BY <1>2, <1>3, <1>4, <1>5, <1>6 DEF ManagerInv

(* Receiving takes the first block of the channel: out[Received + 1].        *)
LEMMA TakeConfirmedFacts ==
  ASSUME ManagerInv, TakeConfirmed
  PROVE  /\ hand' \in Blocks /\ hand' \in BlocksOf(hand'.height)
         /\ Received' = Received + 1 /\ Received \in Nat /\ Received' <= Len(out)
         /\ hand'.height = out[Received']
         /\ irreversibleBlockChan' \in Seq(Blocks)
         /\ Len(irreversibleBlockChan') = Len(irreversibleBlockChan) - 1
         /\ \A k \in DOMAIN irreversibleBlockChan' :
              k + 1 \in DOMAIN irreversibleBlockChan /\ irreversibleBlockChan'[k] = irreversibleBlockChan[k + 1]
<1> DEFINE ch == irreversibleBlockChan
<1>1. ch \in Seq(Blocks) /\ ch # <<>> /\ hand' = Head(ch) /\ ch' = Tail(ch) /\ out' = out
  BY DEF ManagerInv, ManagerTypeOK, TakeConfirmed
<1>2. out \in Seq(Heights) /\ ChanIsTail
  BY DEF ManagerInv, ManagerTypeOK
<1>3. /\ Len(ch) \in Nat \ {0} /\ ch' \in Seq(Blocks) /\ Len(ch') = Len(ch) - 1
      /\ DOMAIN ch' = 1 .. Len(ch) - 1 /\ DOMAIN ch = 1 .. Len(ch)
      /\ \A k \in 1 .. Len(ch) - 1 : ch'[k] = ch[k + 1]
      /\ hand' = ch[1]
  <2> HIDE DEF ch
  <2> QED BY <1>1, HeadTailProperties
<1>4. Len(out) \in Nat /\ Len(ch) <= Len(out)
  BY <1>2 DEF ChanIsTail
<1>5. Received' = Received + 1 /\ Received \in Nat /\ Received' <= Len(out)
  BY <1>1, <1>3, <1>4 DEF Received
<1>6. hand' \in Blocks /\ hand'.height = out[Received + 1] /\ hand' \in BlocksOf(hand'.height)
  BY <1>1, <1>2, <1>3 DEF ChanIsTail
<1>7. \A k \in DOMAIN ch' : k + 1 \in DOMAIN ch /\ ch'[k] = ch[k + 1]
  BY <1>3
<1> QED BY <1>3, <1>5, <1>6, <1>7

LEMMA TakeConfirmedInv == ASSUME ManagerInv, TakeConfirmed PROVE ManagerInv'
<1> USE ManagerAssumption DEF chain
<1>0. ManagerTypeOK /\ ScanBounds /\ OutInOrder /\ ScanCovered /\ ChanIsTail
  BY DEF ManagerInv
<1>1. UNCHANGED <<lib, crashes, redis, pc, scanHeight, scanIrHeight, lastIr, block, unConfirmBlockChan,
                  start, out, everSent, failed>> /\ consumed' = consumed \cup {hand'.height}
  BY DEF TakeConfirmed, position
<1>2. hand'.height \in Heights
  BY TakeConfirmedFacts, BlocksFacts
<1>3. ManagerTypeOK'
  BY <1>0, <1>1, <1>2, TakeConfirmedFacts DEF ManagerTypeOK
<1>4. ScanBounds' /\ OutInOrder' /\ ScanCovered'
  BY <1>0, <1>1 DEF ScanBounds, OutInOrder, ScanCovered
<1>5. ChanIsTail'
  <2>0. irreversibleBlockChan' \in Seq(Blocks)
    BY TakeConfirmedFacts
  <2>1. Len(irreversibleBlockChan') <= Len(out)
    BY <1>0, TakeConfirmedFacts DEF ChanIsTail, ManagerTypeOK
  <2>2. ASSUME NEW k \in DOMAIN irreversibleBlockChan'
        PROVE  /\ irreversibleBlockChan'[k].height = out[Received' + k]
               /\ irreversibleBlockChan'[k] \in BlocksOf(irreversibleBlockChan'[k].height)
    <3>1. k \in Nat /\ Received' + k = Received + (k + 1)
      <4>1. k \in Nat
        BY <2>0
      <4>2. Received \in Nat /\ Received' = Received + 1
        BY TakeConfirmedFacts
      <4> QED BY <4>1, <4>2
    <3> QED BY <1>0, <3>1, TakeConfirmedFacts DEF ChanIsTail
  <2>3. \A k \in 1 .. Received' : out[k] \in consumed'
    <3> TAKE k \in 1 .. Received'
    <3>1. CASE k = Received'
      BY <1>1, <3>1, TakeConfirmedFacts
    <3>2. CASE k # Received'
      <4>1. k \in 1 .. Received
        BY <3>2, TakeConfirmedFacts
      <4> QED BY <1>0, <1>1, <4>1 DEF ChanIsTail
    <3> QED BY <3>1, <3>2
  <2> QED BY <1>1, <2>1, <2>2, <2>3 DEF ChanIsTail
<1> QED BY <1>3, <1>4, <1>5 DEF ManagerInv

LEMMA TakeUnconfirmedInv == ASSUME ManagerInv, TakeUnconfirmed PROVE ManagerInv' /\ hand' \in Blocks
<1> USE DEF TakeUnconfirmed, chain, position
<1>0. ManagerTypeOK /\ ScanBounds /\ OutInOrder /\ ScanCovered /\ ChanIsTail
  BY DEF ManagerInv
<1>1. /\ hand' \in Blocks /\ unConfirmBlockChan' \in Seq(Blocks)
      /\ Len(unConfirmBlockChan') <= Len(unConfirmBlockChan)
  <2>1. unConfirmBlockChan \in Seq(Blocks) /\ unConfirmBlockChan # <<>>
    BY <1>0 DEF ManagerTypeOK
  <2> QED BY <2>1, HeadTailProperties
<1>2. ManagerTypeOK'
  BY <1>0, <1>1, ManagerAssumption DEF ManagerTypeOK, record
<1>3. ScanBounds' /\ OutInOrder' /\ ScanCovered' /\ ChanIsTail'
  BY <1>0 DEF ScanBounds, OutInOrder, ScanCovered, ChanIsTail, Received, record
<1> QED BY <1>1, <1>2, <1>3 DEF ManagerInv

LEMMA ManagerCrashInv == ASSUME ManagerInv, ManagerCrash PROVE ManagerInv'
<1> USE ManagerAssumption DEF ManagerCrash
<1>0. ManagerTypeOK /\ ScanBounds /\ OutInOrder /\ ScanCovered /\ ChanIsTail
  BY DEF ManagerInv
<1>1. ManagerTypeOK'
  BY <1>0 DEF ManagerTypeOK, NoBlock
<1>2. ScanBounds' /\ OutInOrder'
  BY <1>0 DEF ScanBounds, OutInOrder, ManagerTypeOK
<1>3. ScanCovered' /\ ChanIsTail'
  BY <1>0 DEF ScanCovered, ChanIsTail, Received
<1> QED BY <1>1, <1>2, <1>3 DEF ManagerInv

LEMMA StartInv == ASSUME ManagerInv, Start PROVE ManagerInv'
<1> USE DEF Start, chain, position, channels
<1>1. Quiet
  BY DEF ManagerInv, ManagerTypeOK, Quiet, record
<1>2. ManagerTypeOK' /\ ScanBounds'
  BY DEF ManagerInv, ManagerTypeOK, ScanBounds, record
<1> QED BY <1>1, <1>2, QuietManagerInv DEF ManagerInv

(* Which steps touch the scan at all.                                        *)
LEMMA OtherStepsLeaveManager ==
  ASSUME [Next]_storeVars, ~ (AdvanceChain /\ StoreIdle), ~ (Watcher /\ StoreIdle), ~ Start,
         ~ TakeConfirmed, ~ TakeUnconfirmed, ~ Crash
  PROVE  UNCHANGED managerVars
BY DEF Next, Consumer, WatchAllBlockReturns, ScanUnconfirmReturns, CleanerBegins, CleanUp, GatewayTakes,
   PushTransfer, SaveConfirmed, EndConfirmed, SaveUnconfirmed, EndUnconfirmed, storeVars

LEMMA ManagerInvStep == ManagerInv /\ [Next]_storeVars => ManagerInv'
<1> SUFFICES ASSUME ManagerInv, [Next]_storeVars PROVE ManagerInv'
  OBVIOUS
<1>1. ASSUME Watcher PROVE ManagerInv'
  BY <1>1, QuietWatcher, BeginScanInv, GetBlockFailsInv, SendIrreversibleInv, SaveHeightInv DEF Watcher
<1>2. ASSUME UNCHANGED managerVars PROVE ManagerInv'
  BY <1>2 DEF managerVars, chain, position, channels, record, ManagerInv, ManagerTypeOK, ScanBounds,
     OutInOrder, ScanCovered, ChanIsTail, Received
<1> QED BY <1>1, <1>2, QuietAdvanceChain, StartInv, TakeConfirmedInv, TakeUnconfirmedInv, ManagerCrashInv,
           OtherStepsLeaveManager DEF Crash

(***************************************************************************)
(* Irreversible blocks are sent in ascending order, each once per run, and *)
(* the scan leaves out only heights whose request failed, in this run and, *)
(* below the height in redis, in earlier ones.                             *)
(***************************************************************************)
THEOREM ScanInOrderCorrect == Spec => []ScanInOrder
<1>1. ASSUME ManagerInv PROVE ScanInOrder
  <2>0. ManagerTypeOK /\ OutInOrder /\ ScanCovered
    BY <1>1 DEF ManagerInv
  <2>1. SentInOrder
    BY <2>0, OutHeights DEF OutInOrder, SentInOrder
  <2>2. PassedOnlyAfterRequest
    BY <2>0 DEF ScanCovered, PassedOnlyAfterRequest
  <2> QED BY <2>1, <2>2 DEF ScanInOrder
<1> QED BY <1>1, ManagerInvInit, ManagerInvStep, PTL DEF Spec

-----------------------------------------------------------------------------
(* What n crashes can lose.                                                *)
Cap(n) == n * (ChanCap - 1)

LEMMA CapFacts == ASSUME NEW n \in Nat PROVE Cap(n) \in Nat /\ Cap(n + 1) = Cap(n) + (ChanCap - 1)
BY ManagerAssumption DEF Cap

LEMMA BelowFacts ==
  ASSUME NEW n \in Nat
  PROVE  IsFiniteSet(Below(n)) /\ Cardinality(Below(n)) \in Nat
<1>1. IsFiniteSet(1 .. n - 1)
  BY FS_Interval
<1>2. Below(n) \subseteq 1 .. n - 1
  BY DEF Below
<1> QED BY <1>1, <1>2, FS_Subset, FS_CardinalityType

LEMMA SmallerIsSmaller ==
  ASSUME NEW S, NEW T, IsFiniteSet(T), S \subseteq T, NEW n \in Nat, Cardinality(T) <= n
  PROVE  IsFiniteSet(S) /\ Cardinality(S) \in Nat /\ Cardinality(S) <= n
<1>1. IsFiniteSet(S) /\ Cardinality(S) <= Cardinality(T)
  BY FS_Subset
<1>2. Cardinality(S) \in Nat /\ Cardinality(T) \in Nat
  BY <1>1, FS_CardinalityType
<1> QED BY <1>1, <1>2

(* The blocks of this run below redis that no one received: they wait.       *)
LEMMA UnreceivedWait ==
  ASSUME ManagerInv, ArgHeight = 0, NEW h \in Below(redis), h \notin Below(start), NEW s \in DOMAIN out, out[s] = redis
  PROVE  \E k \in DOMAIN irreversibleBlockChan :
           irreversibleBlockChan[k].height = h /\ Received + k < s
<1> DEFINE ch == irreversibleBlockChan
<1>0. ManagerTypeOK /\ OutInOrder /\ ScanCovered /\ ChanIsTail /\ ScanBounds
  BY DEF ManagerInv
<1>1. /\ redis \in Nat /\ start \in Nat /\ scanIrHeight \in Nat
      /\ h \in 1 .. redis - 1 /\ h \notin consumed /\ h \notin failed
  BY <1>0 DEF ManagerTypeOK, Below
<1>2. h >= start
  BY <1>1 DEF Below
<1>3. redis <= scanIrHeight
  BY <1>0, <1>1 DEF OutInOrder
<1>4. h \in start .. scanIrHeight - 1
  BY <1>1, <1>2, <1>3
<1>5. PICK j \in DOMAIN out : out[j] = h
  BY <1>0, <1>1, <1>4 DEF ScanCovered
<1>6. j \in Nat /\ s \in Nat /\ j < s
  <2>1. ~ (s < j) /\ s # j
    BY <1>0, <1>1, <1>5 DEF OutInOrder
  <2> QED BY <1>0, <2>1, OutHeights
<1>7. Len(ch) \in Nat /\ DOMAIN ch = 1 .. Len(ch)
  BY <1>0 DEF ManagerTypeOK
<1>8. Received \in Nat /\ Len(out) = Received + Len(ch) /\ j \in 1 .. Len(out)
  BY <1>0, <1>7, OutHeights DEF ChanIsTail, Received
<1>9. j \notin 1 .. Received
  BY <1>0, <1>1, <1>5 DEF ChanIsTail
<1>10. j - Received \in DOMAIN ch /\ Received + (j - Received) = j
  BY <1>7, <1>8, <1>9
<1> QED BY <1>0, <1>5, <1>6, <1>10 DEF ChanIsTail

(* One run loses at most what the channel holds but the saved block.         *)
LEMMA LossPerRun ==
  ASSUME ManagerInv, ArgHeight = 0, LossBounded
  PROVE  /\ Cardinality(Below(redis)) <= Cap(crashes + 1)
         /\ Cardinality(Below(redis) \ Waiting) <= Cap(crashes)
<1> DEFINE ch == irreversibleBlockChan
<1>0. ManagerTypeOK /\ ChanIsTail
  BY DEF ManagerInv
<1>1. redis \in Nat /\ start \in Nat /\ crashes \in Nat /\ ChanCap - 1 \in Nat
  BY <1>0, ManagerAssumption DEF ManagerTypeOK
<1>2. Cap(crashes) \in Nat /\ Cap(crashes + 1) = Cap(crashes) + (ChanCap - 1)
  BY <1>1, CapFacts
<1>3. IsFiniteSet(Below(redis)) /\ IsFiniteSet(Below(start))
      /\ Cardinality(Below(redis)) \in Nat /\ Cardinality(Below(start)) \in Nat
  BY <1>1, BelowFacts
<1>4. Cardinality(Below(start)) <= Cap(crashes)
  BY DEF LossBounded, Cap
<1>5. CASE Cardinality(Below(redis)) <= Cap(crashes)
  <2>1. Cardinality(Below(redis) \ Waiting) <= Cap(crashes)
    BY <1>2, <1>3, <1>5, SmallerIsSmaller
  <2> QED BY <1>1, <1>2, <1>3, <1>5, <2>1
<1>6. CASE ~ (Cardinality(Below(redis)) <= Cap(crashes))
  <2>1. PICK s \in DOMAIN out : out[s] = redis
    BY <1>6 DEF LossBounded, Cap
  <2>2. \A h \in Below(redis) \ Below(start) : \E k \in DOMAIN ch : ch[k].height = h /\ Received + k < s
    BY <2>1, UnreceivedWait
  <2>3. /\ Len(ch) \in Nat /\ DOMAIN ch = 1 .. Len(ch) /\ Len(ch) <= ChanCap
        /\ Received \in Nat /\ Len(out) = Received + Len(ch)
        /\ s \in Nat /\ s <= Len(out)
    BY <1>0, OutHeights DEF ManagerTypeOK, ChanIsTail, Received
  <2> DEFINE At == [k \in 1 .. ChanCap - 1 |-> IF k \in DOMAIN ch THEN ch[k].height ELSE 0]
             Caught == {At[k] : k \in 1 .. ChanCap - 1}
  <2>4. \A h \in Below(redis) \ Below(start) : h \in Caught
    <3> TAKE h \in Below(redis) \ Below(start)
    <3>1. PICK k \in DOMAIN ch : ch[k].height = h /\ Received + k < s
      BY <2>2
    <3>2. k \in 1 .. ChanCap - 1
      <4>1. k \in 1 .. Len(ch)
        BY <2>3
      <4>2. k \in Nat /\ k >= 1 /\ k < Len(ch)
        BY <2>3, <3>1, <4>1
      <4> QED BY <1>1, <2>3, <4>2, ManagerAssumption
    <3> QED BY <3>1, <3>2
  <2>5. IsFiniteSet(Caught) /\ Cardinality(Caught) \in Nat /\ Cardinality(Caught) <= ChanCap - 1
    <3>1. IsFiniteSet(1 .. ChanCap - 1) /\ Cardinality(1 .. ChanCap - 1) = ChanCap - 1
      BY <1>1, FS_Interval
    <3>2. At \in Surjection(1 .. ChanCap - 1, Caught)
      BY DEF Surjection
    <3> HIDE DEF At, Caught
    <3>3. IsFiniteSet(Caught) /\ Cardinality(Caught) <= Cardinality(1 .. ChanCap - 1)
      BY <3>1, <3>2, FS_Surjection
    <3> QED BY <3>1, <3>3, FS_CardinalityType
  <2> HIDE DEF Caught, At
  <2>6. Below(redis) \subseteq Below(start) \cup Caught
    BY <2>4
  <2>7. Cardinality(Below(redis)) <= Cap(crashes + 1)
    <3>1. IsFiniteSet(Below(start) \cup Caught)
          /\ Cardinality(Below(start) \cup Caught) <= Cardinality(Below(start)) + Cardinality(Caught)
      <4>1. Cardinality(Below(start) \cap Caught) \in Nat
        BY <1>3, FS_Intersection, FS_CardinalityType
      <4>2. /\ IsFiniteSet(Below(start) \cup Caught)
            /\ Cardinality(Below(start) \cup Caught) =
                 Cardinality(Below(start)) + Cardinality(Caught) - Cardinality(Below(start) \cap Caught)
        BY <1>3, <2>5, FS_Union
      <4> QED BY <1>3, <2>5, <4>1, <4>2
    <3>2. Cardinality(Below(start) \cup Caught) <= Cap(crashes + 1) /\ Cap(crashes + 1) \in Nat
      <4>1. Cardinality(Below(start) \cup Caught) \in Nat
        BY <3>1, FS_CardinalityType
      <4> QED BY <1>1, <1>2, <1>3, <1>4, <2>5, <3>1, <4>1
    <3> QED BY <2>6, <3>1, <3>2, SmallerIsSmaller
  <2>8. Below(redis) \ Waiting \subseteq Below(start)
    BY <2>2 DEF Waiting
  <2>9. Cardinality(Below(redis) \ Waiting) <= Cap(crashes)
    BY <1>2, <1>3, <1>4, <2>8, SmallerIsSmaller
  <2> QED BY <2>7, <2>9
<1> QED BY <1>5, <1>6

LEMMA LossInit == Init => LossBounded
<1> SUFFICES ASSUME Init PROVE LossBounded
  OBVIOUS
<1>1. Below(start) = {} /\ Below(redis) = {} /\ crashes = 0
  BY DEF Below, Init, ManagerInit
<1>2. Cardinality({}) = 0 /\ 0 * (ChanCap - 1) = 0
  BY FS_EmptySet, ManagerAssumption
<1> QED BY <1>1, <1>2 DEF LossBounded

(* As long as no height is saved the losses can only be made good.           *)
LEMMA LossShrinks ==
  ASSUME ManagerInv, LossBounded, redis' = redis, start' = start, crashes' = crashes,
         consumed \subseteq consumed', failed \subseteq failed',
         \A k \in DOMAIN out : k \in DOMAIN out' /\ out'[k] = out[k]
  PROVE  LossBounded'
<1> SUFFICES ASSUME ArgHeight = 0 PROVE LossBounded'
  BY DEF LossBounded
<1>1. redis \in Nat /\ start \in Nat /\ crashes \in Nat
  BY DEF ManagerInv, ManagerTypeOK
<1>2. Below(start)' \subseteq Below(start) /\ Below(redis)' \subseteq Below(redis)
  BY DEF Below
<1>3. Cap(crashes) \in Nat /\ Cap(crashes)' = Cap(crashes)
  BY <1>1, CapFacts DEF Cap
<1>4. Cardinality(Below(start)') <= Cap(crashes)
  BY <1>1, <1>2, <1>3, BelowFacts, SmallerIsSmaller DEF LossBounded, Cap
<1>5. Cardinality(Below(redis)) <= Cap(crashes) => Cardinality(Below(redis)') <= Cap(crashes)
  BY <1>1, <1>2, <1>3, BelowFacts, SmallerIsSmaller
<1> QED BY <1>3, <1>4, <1>5 DEF LossBounded, Cap

LEMMA LossStep == ManagerInv /\ LossBounded /\ [Next]_storeVars => LossBounded'
<1> SUFFICES ASSUME ManagerInv, LossBounded, [Next]_storeVars PROVE LossBounded'
  OBVIOUS
<1> USE ManagerAssumption
<1>0. ManagerTypeOK /\ redis \in Nat /\ start \in Nat /\ crashes \in Nat
  BY DEF ManagerInv, ManagerTypeOK
<1>1. CASE BeginScan
  <2>1. start' \in {redis, 0} \/ ArgHeight # 0
    BY <1>1 DEF BeginScan, GetScanHeightFromRedis
  <2>2. UNCHANGED <<redis, consumed, failed, out, crashes>>
    BY <1>1 DEF BeginScan, chain
  <2>3. out = <<>>
    BY <1>1 DEF ManagerInv, ScanBounds, BeginScan
  <2>4. SUFFICES ASSUME ArgHeight = 0 PROVE LossBounded'
    BY DEF LossBounded
  <2>5. Cardinality(Below(redis)) <= Cap(crashes)
    BY <2>3, <2>4 DEF LossBounded, Cap
  <2>6. Below(redis)' = Below(redis) /\ (start' = redis => Below(start)' = Below(redis))
    BY <2>2 DEF Below
  <2>7. start' = 0 => Below(start)' = {}
    BY DEF Below
  <2>8. Cap(crashes) \in Nat /\ Cap(crashes)' = Cap(crashes) /\ Cardinality({}) = 0
    BY <1>0, <2>2, CapFacts, FS_EmptySet DEF Cap
  <2>9. Cardinality(Below(start)') <= Cap(crashes)
    <3>1. CASE start' = redis
      <4>1. Below(start)' = Below(redis)
        BY <2>6, <3>1
      <4> QED BY <2>5, <4>1, Zenon
    <3>2. CASE start' = 0
      <4>1. Below(start)' = {}
        BY <2>7, <3>2
      <4>2. Cardinality({}) <= Cap(crashes)
        BY <2>8
      <4> QED BY <4>1, <4>2, Zenon
    <3> QED BY <2>1, <2>4, <3>1, <3>2
  <2> QED BY <2>5, <2>6, <2>8, <2>9 DEF LossBounded, Cap
<1>2. CASE SaveHeight
  <2>1. UNCHANGED <<consumed, failed, out, start, crashes>>
    BY <1>2 DEF SaveHeight, chain, record
  <2>2. CASE redis' = redis
    BY <2>1, <2>2, LossShrinks
  <2>3. CASE redis' # redis
    <3>1. redis' = scanIrHeight /\ pc = "save"
      BY <1>2, <2>3 DEF SaveHeight, UpdateScanHeightToRedis
    <3>2. Len(out) \in DOMAIN out /\ out[Len(out)] = redis'
      BY <1>0, <3>1, OutHeights DEF ManagerInv, OutInOrder
    <3>3. Below(start)' = Below(start)
      BY <2>1 DEF Below
    <3> QED BY <2>1, <3>2, <3>3 DEF LossBounded
  <2> QED BY <2>2, <2>3
<1>3. CASE Crash
  <2>1. start' = 0 /\ crashes' = crashes + 1 /\ UNCHANGED <<redis, consumed, failed>>
    BY <1>3 DEF Crash, ManagerCrash
  <2>2. SUFFICES ASSUME ArgHeight = 0 PROVE LossBounded'
    BY DEF LossBounded
  <2>3. Cardinality(Below(redis)) <= Cap(crashes + 1)
    BY <2>2, LossPerRun
  <2>4. Below(redis)' = Below(redis) /\ Below(start)' = {}
    BY <2>1 DEF Below
  <2>5. Cap(crashes)' = Cap(crashes + 1) /\ Cap(crashes + 1) \in Nat /\ Cardinality({}) = 0
    <3>1. Cap(crashes)' = Cap(crashes + 1)
      BY <2>1 DEF Cap
    <3>2. crashes + 1 \in Nat
      BY <1>0
    <3> QED BY <3>1, <3>2, CapFacts, FS_EmptySet
  <2> QED BY <2>3, <2>4, <2>5 DEF LossBounded, Cap
<1>4. CASE SendIrreversible
  <2>1. out \in Seq(Heights) /\ out' = Append(out, scanIrHeight)
    BY <1>0, <1>4 DEF SendIrreversible, ManagerTypeOK
  <2>2. scanIrHeight \in Heights
    BY <1>0, <1>4, HeightsAre DEF ManagerInv, ManagerTypeOK, ScanBounds, SendIrreversible
  <2>3. \A k \in DOMAIN out : k \in DOMAIN out' /\ out'[k] = out[k]
    BY <2>1, <2>2, AppendFacts
  <2> QED BY <1>4, <2>3, LossShrinks DEF SendIrreversible, chain
<1>5. CASE TakeConfirmed
  BY <1>5, LossShrinks DEF TakeConfirmed, chain
<1>6. CASE GetBlockFails
  BY <1>6, LossShrinks DEF GetBlockFails, chain
<1>7. CASE UNCHANGED <<redis, start, crashes, consumed, failed, out>>
  BY <1>7, LossShrinks
<1>8. \/ BeginScan \/ SaveHeight \/ Crash \/ SendIrreversible \/ TakeConfirmed \/ GetBlockFails
      \/ UNCHANGED <<redis, start, crashes, consumed, failed, out>>
  <2>1. CASE AdvanceChain \/ Start \/ TakeUnconfirmed
    BY <2>1 DEF AdvanceChain, Start, TakeUnconfirmed, chain, record
  <2>2. CASE Watcher
    BY <2>2 DEF Watcher, GetIrreversibleBlockHeight, Sleep, GetInfoFails, GetBlock, GetReversibleBlock,
       GetReversibleBlockFails, SendReversible, GetInfo, managerVars, chain, record
  <2>3. CASE UNCHANGED managerVars
    BY <2>3 DEF managerVars, chain, record
  <2> QED BY <2>1, <2>2, <2>3, OtherStepsLeaveManager
<1> QED BY <1>1, <1>2, <1>3, <1>4, <1>5, <1>6, <1>7, <1>8

(***************************************************************************)
(* A crash takes at most the channel's buffer less one block of what lies  *)
(* below the height in redis, however many crashes there are.              *)
(***************************************************************************)
THEOREM LossCorrect == Spec => []LostBelowRedis
<1>1. ASSUME ManagerInv, LossBounded PROVE LostBelowRedis
  <2>1. (1 .. redis - 1) \ (consumed \cup failed \cup Waiting) = Below(redis) \ Waiting
    BY DEF Below
  <2> QED BY <1>1, <2>1, LossPerRun DEF LostBelowRedis, Cap
<1> QED BY <1>1, ManagerInvInit, ManagerInvStep, LossInit, LossStep, PTL DEF Spec

-----------------------------------------------------------------------------
(* The inductive invariant of the store.                                   *)
StoreInv == TypeOK /\ HandInv /\ GateInv

LEMMA StoreInvInit == Init => StoreInv
<1> SUFFICES ASSUME Init PROVE StoreInv
  OBVIOUS
<1>1. ManagerTypeOK
  BY ManagerInvInit DEF ManagerInv
<1>2. TypeOK
  <2>1. /\ DOMAIN index = {Written, Scanned, Confirmed}
        /\ \A name \in DOMAIN index : index[name] = {}
    BY DEF Init
  <2>2. consumer \in [at : {"off", "select", "confirm", "save", "unconfirm"}, next : Nat]
    BY DEF Init
  <2>3. DOMAIN gate = {} /\ taken \in 0 .. Len(gate) /\ Len(gate) - taken <= GateCap
    <3>1. gate = <<>> /\ taken = 0 /\ Len(<<>>) = 0 /\ 0 - 0 <= GateCap
      BY StoreAssumption DEF Init
    <3> QED BY <3>1
  <2> QED BY <1>1, <2>1, <2>2, <2>3 DEF TypeOK, Init, ManagerInit
<1>3. HandInv /\ GateInv
  BY DEF Init, HandInv, GateInv
<1> QED BY <1>2, <1>3 DEF StoreInv

(* The indexes hold documents only.                                        *)
IndexOK == DOMAIN index = {Written, Scanned, Confirmed} /\ \A name \in DOMAIN index : index[name] \subseteq Docs

LEMMA UpsertFacts ==
  ASSUME IndexOK, NEW name \in DOMAIN index, NEW doc \in Docs, index' = Upsert(name, doc)
  PROVE  /\ IndexOK' /\ doc \in index'[name]
         /\ \A d \in index[name] : d.tx # doc.tx => d \in index'[name]
         /\ \A n \in DOMAIN index : n # name => index'[n] = index[n]
<1>1. /\ DOMAIN index' = DOMAIN index
      /\ index'[name] = {d \in index[name] : d.tx # doc.tx} \cup {doc}
      /\ \A n \in DOMAIN index : n # name => index'[n] = index[n]
  BY DEF Upsert
<1>2. IndexOK'
  BY <1>1 DEF IndexOK
<1> QED BY <1>1, <1>2

LEMMA UpdateFacts ==
  ASSUME IndexOK, leftover \in BOOLEAN, NEW name \in {Written, Scanned, Confirmed}, NEW doc \in Docs,
         NEW outcome \in Outcomes, UpdateTxInfo(name, doc, outcome)
  PROVE  /\ IndexOK' /\ leftover' \in BOOLEAN /\ (outcome = "written" => doc \in index'[name])
         /\ \A d \in index[name] : d \in index'[name] \/ (d.tx = doc.tx /\ doc \in index'[name])
         /\ \A n \in DOMAIN index : n # name => index'[n] = index[n]
<1>1. name \in DOMAIN index
  BY DEF IndexOK
<1>2. CASE index' = Upsert(name, doc)
  BY <1>1, <1>2, UpsertFacts DEF UpdateTxInfo
<1>3. CASE index' = index /\ outcome # "written"
  BY <1>3 DEF UpdateTxInfo, IndexOK
<1> QED BY <1>2, <1>3 DEF UpdateTxInfo

LEMMA CleanUpFacts == ASSUME IndexOK, CleanUp PROVE IndexOK' /\ index'[Confirmed] = index[Confirmed]
<1>1. PICK n \in Answers \cup {0} :
        index' = [index EXCEPT ![Written] =
                    {d \in @ : d.tx \notin {e.tx : e \in {hit \in index[Scanned] : n >= hit.height}}}]
  BY DEF CleanUp, DeleteUnconfirmTx
<1>2. /\ DOMAIN index' = DOMAIN index /\ index'[Written] \subseteq index[Written]
      /\ \A name \in DOMAIN index : name # Written => index'[name] = index[name]
  BY <1>1 DEF IndexOK
<1>3. IndexOK'
  BY <1>2 DEF IndexOK
<1>4. index'[Confirmed] = index[Confirmed]
  BY <1>2 DEF IndexOK, Written, Confirmed
<1> QED BY <1>3, <1>4

(* The watcher's steps leave what was received of out as it was.             *)
(* What was received stays what it was.                                    *)
HistoryKept == Received' = Received /\ \A k \in 1 .. Received : out'[k] = out[k]

LEMMA WatcherKeepsHistory ==
  ASSUME ManagerInv, Watcher \/ AdvanceChain \/ Start PROVE HistoryKept /\ consumed' = consumed
<1>1. CASE SendIrreversible
  <2>0. ManagerTypeOK /\ ChanIsTail
    BY DEF ManagerInv
  <2>1. scanIrHeight \in Heights /\ block \in Blocks
    <3>1. scanIrHeight \in Heights
      BY <1>1, HeightsAre, ManagerAssumption DEF ManagerInv, ManagerTypeOK, ScanBounds, SendIrreversible
    <3>2. block \in BlocksOf(scanIrHeight)
      BY <1>1 DEF ManagerInv, ScanBounds, SendIrreversible
    <3> QED BY <3>1, <3>2, BlocksFacts
  <2>2. out \in Seq(Heights) /\ irreversibleBlockChan \in Seq(Blocks)
    BY <2>0 DEF ManagerTypeOK
  <2>3. out' = Append(out, scanIrHeight) /\ irreversibleBlockChan' = Append(irreversibleBlockChan, block)
    BY <1>1 DEF SendIrreversible
  <2>4. /\ Len(out) \in Nat /\ Len(out') = Len(out) + 1
        /\ \A k \in 1 .. Len(out) : out'[k] = out[k]
    BY <2>1, <2>2, <2>3, AppendFacts
  <2>5. /\ Len(irreversibleBlockChan) \in Nat
        /\ Len(irreversibleBlockChan') = Len(irreversibleBlockChan) + 1
    BY <2>1, <2>2, <2>3, AppendFacts
  <2>6. Received' = Received /\ Received <= Len(out) /\ Received \in Nat
    BY <2>0, <2>4, <2>5 DEF Received, ChanIsTail
  <2>7. \A k \in 1 .. Received : out'[k] = out[k]
    BY <2>4, <2>6
  <2> QED BY <1>1, <2>6, <2>7 DEF HistoryKept, SendIrreversible
<1>2. CASE ~ SendIrreversible
  <2>1. out' = out /\ irreversibleBlockChan' = irreversibleBlockChan /\ consumed' = consumed
    BY <1>2 DEF Watcher, BeginScan, GetIrreversibleBlockHeight, Sleep, GetInfoFails, GetInfo, GetBlock,
       GetBlockFails, SaveHeight, GetReversibleBlock, GetReversibleBlockFails, SendReversible, AdvanceChain,
       Start, managerVars, channels, record
  <2> QED BY <2>1 DEF HistoryKept, Received
<1> QED BY <1>1, <1>2

(* Neither the consumer nor what it has pushed moves.                        *)
LEMMA StoreInvFrame ==
  ASSUME ManagerInv, StoreInv, ManagerInv', HistoryKept,
         UNCHANGED <<hand, gate, cut, finished, dropped>>, consumed' = consumed,
         consumer' = consumer \/ consumer' = [at |-> "select", next |-> 0],
         IndexOK', leftover' \in BOOLEAN, taken' \in 0 .. Len(gate), Len(gate) - taken' <= GateCap,
         main' \in {"off", "watchAllBlock", "scanUnconfirm", "running"}, cleaner' \in {"off", "born", "loop"}
  PROVE  StoreInv'
<1>0. TypeOK /\ HandInv /\ GateInv
  BY DEF StoreInv
<1>1. TypeOK'
  BY <1>0 DEF TypeOK, ManagerInv, IndexOK
<1>2. GateInv'
  BY <1>0 DEF GateInv, HistoryKept
<1>3. CASE consumer' = consumer
  <2>1. Received > 0 => out'[Received] = out[Received]
    <3>1. Received \in Int
      BY OutHeights DEF ManagerInv, ManagerTypeOK, Received
    <3> QED BY <3>1 DEF HistoryKept
  <2>2. HandInv'
    BY <1>0, <1>3, <2>1 DEF HandInv, HistoryKept, InHand, Entry
  <2> QED BY <1>1, <1>2, <2>2 DEF StoreInv
<1>4. CASE consumer' = [at |-> "select", next |-> 0]
  BY <1>1, <1>2, <1>4 DEF StoreInv, HandInv
<1> QED BY <1>3, <1>4

LEMMA TakeConfirmedStoreInv ==
  ASSUME ManagerInv, StoreInv, ManagerInv', TakeConfirmed PROVE StoreInv'
<1>0. TypeOK /\ HandInv /\ GateInv /\ OutInOrder
  BY DEF StoreInv, ManagerInv
<1>1. /\ UNCHANGED <<main, cleaner, index, leftover, gate, taken, cut, finished, dropped, out>>
      /\ consumed \subseteq consumed' /\ consumer' = [at |-> "confirm", next |-> 1]
  BY DEF TakeConfirmed
<1>2. hand' \in Blocks /\ hand' \in BlocksOf(hand'.height) /\ hand'.transfers \in Seq(Transfer)
  BY TakeConfirmedFacts, BlocksFacts
<1>3. TypeOK'
  BY <1>0, <1>1, <1>2 DEF TypeOK, ManagerInv
<1>4. Received' = Received + 1 /\ Received \in Nat /\ Received' <= Len(out) /\ hand'.height = out[Received']
  BY TakeConfirmedFacts
<1>5. GateInv'
  <2>1. \A r \in 1 .. Received : r \in 1 .. Received'
    BY <1>4
  <2> QED BY <1>0, <1>1, <2>1 DEF GateInv
<1>6. \A k \in DOMAIN gate' : gate'[k].height # hand'.height
  <2> SUFFICES ASSUME NEW k \in DOMAIN gate PROVE gate[k].height # hand'.height
    BY <1>1
  <2>1. PICK r \in 1 .. Received : gate[k].height = out[r]
    BY <1>0 DEF GateInv
  <2>2. r \in DOMAIN out /\ Received' \in DOMAIN out /\ r < Received' /\ out[r] \in Nat /\ out[Received'] \in Nat
    BY <1>4, OutHeights DEF ManagerInv
  <2> QED BY <1>0, <1>4, <2>1, <2>2 DEF OutInOrder
<1>7. HandInv'
  <2>1. InHand' = {} /\ Received' > 0
    BY <1>1, <1>4 DEF InHand
  <2>2. Len(hand'.transfers) \in Nat /\ consumer'.next \in 1 .. Len(hand'.transfers) + 1
    BY <1>1, <1>2
  <2> QED BY <1>1, <1>2, <1>4, <1>6, <2>1, <2>2 DEF HandInv
<1> QED BY <1>3, <1>5, <1>7 DEF StoreInv

LEMMA TakeUnconfirmedStoreInv ==
  ASSUME ManagerInv, StoreInv, ManagerInv', TakeUnconfirmed PROVE StoreInv'
<1>0. TypeOK /\ HandInv /\ GateInv
  BY DEF StoreInv
<1>1. /\ UNCHANGED <<main, cleaner, index, leftover, gate, taken, cut, finished, dropped, out, irreversibleBlockChan, consumed>>
      /\ consumer' = [at |-> "unconfirm", next |-> 1]
  BY DEF TakeUnconfirmed, record
<1>2. hand' \in Blocks
  BY TakeUnconfirmedInv
<1>3. TypeOK'
  BY <1>0, <1>1, <1>2 DEF TypeOK, ManagerInv
<1>4. GateInv'
  BY <1>0, <1>1 DEF GateInv, Received
<1>5. HandInv'
  BY <1>1, <1>2 DEF HandInv
<1> QED BY <1>3, <1>4, <1>5 DEF StoreInv

LEMMA PushTransferStoreInv ==
  ASSUME ManagerInv, StoreInv, ManagerInv', PushTransfer PROVE StoreInv'
<1>0. TypeOK /\ HandInv /\ GateInv
  BY DEF StoreInv
<1>1. /\ UNCHANGED <<main, cleaner, hand, index, leftover, taken, cut, finished, dropped, out, irreversibleBlockChan, consumed>>
      /\ consumer.at = "confirm" /\ consumer.next <= Len(hand.transfers) /\ Len(gate) - taken < GateCap
      /\ gate' = Append(gate, Entry(consumer.next))
      /\ consumer' = [consumer EXCEPT !.at = "save"]
  BY DEF PushTransfer, managerVars, channels, record, Current, Entry
<1>2. /\ hand.height \in Heights /\ hand.transfers \in Seq(Transfer)
      /\ consumer.next \in 1 .. Len(hand.transfers)
  BY <1>0, <1>1, BlocksFacts DEF HandInv
<1>3. Entry(consumer.next) \in Entries
  BY <1>2 DEF Entry, Entries
<1>4. gate \in Seq(Entries)
  BY <1>0 DEF GateInv
<1>5. /\ gate' \in Seq(Entries) /\ Len(gate) \in Nat /\ Len(gate') = Len(gate) + 1
      /\ DOMAIN gate = 1 .. Len(gate) /\ DOMAIN gate' = 1 .. Len(gate) + 1
      /\ \A k \in DOMAIN gate : gate'[k] = gate[k] /\ k \in DOMAIN gate'
      /\ gate'[Len(gate')] = Entry(consumer.next) /\ Len(gate') \in DOMAIN gate'
      /\ \A k \in DOMAIN gate' : k = Len(gate') \/ k \in DOMAIN gate
  BY <1>1, <1>3, <1>4, AppendFacts
<1>6. /\ consumer'.at = "save" /\ consumer'.next = consumer.next
      /\ consumer' \in [at : {"off", "select", "confirm", "save", "unconfirm"}, next : Nat]
  BY <1>0, <1>1 DEF TypeOK
<1>7. TypeOK'
  <2>1. \A k \in DOMAIN gate' : gate'[k].height \in Heights
    <3>1. \A k \in DOMAIN gate' : gate'[k] \in Entries
      BY <1>5
    <3> QED BY <3>1 DEF Entries
  <2>2. taken' \in 0 .. Len(gate') /\ Len(gate') - taken' <= GateCap
    BY <1>0, <1>1, <1>5, StoreAssumption DEF TypeOK
  <2>3. dropped' \subseteq 1 .. Len(gate')
    <3>1. dropped' = dropped /\ dropped \subseteq 1 .. Len(gate)
      BY <1>0, <1>1 DEF TypeOK
    <3>2. 1 .. Len(gate) \subseteq 1 .. Len(gate')
      BY <1>5
    <3> QED BY <3>1, <3>2
  <2> QED BY <1>0, <1>1, <1>6, <2>1, <2>2, <2>3 DEF TypeOK, ManagerInv
<1>8. GateInv'
  <2>1. Received' = Received /\ Received > 0 /\ hand.height = out[Received] /\ Received \in Nat
    BY <1>0, <1>1, OutHeights DEF HandInv, Received, ManagerInv, ChanIsTail, ManagerTypeOK
  <2>2. \A k \in DOMAIN gate' : \E r \in 1 .. Received : gate'[k].height = out[r]
    <3> TAKE k \in DOMAIN gate'
    <3>1. CASE k \in DOMAIN gate
      BY <1>0, <1>5, <3>1 DEF GateInv
    <3>2. CASE k = Len(gate')
      <4>1. Received \in 1 .. Received
        BY <2>1
      <4> QED BY <1>5, <2>1, <3>2, <4>1 DEF Entry
    <3> QED BY <1>5, <3>1, <3>2
  <2> QED BY <1>1, <1>5, <2>1, <2>2 DEF GateInv
<1>9. HandInv'
  <2>1. InHand = 1 .. consumer.next - 1 /\ InHand' = 1 .. consumer.next
    BY <1>1, <1>6 DEF InHand
  <2>2. \A m \in InHand' : m = consumer.next \/ m \in InHand
    BY <1>2, <2>1
  <2>3. InHand \subseteq InHand' /\ consumer.next \in InHand'
    BY <1>2, <2>1
  <2>4. \A m : Entry(m)' = Entry(m)
    BY <1>1 DEF Entry
  <2>5. \A k \in DOMAIN gate' : gate'[k].height = hand.height => \E m \in InHand' : gate'[k] = Entry(m)
    BY <1>0, <1>1, <1>5, <2>3 DEF HandInv
  <2>6. \A m \in InHand' : \E k \in DOMAIN gate' : gate'[k] = Entry(m)
    BY <1>0, <1>1, <1>5, <2>2 DEF HandInv
  <2>7. gate' # <<>>
    BY <1>5
  <2>8. Received' = Received /\ out' = out /\ consumer.next \in 1 .. Len(hand.transfers) + 1
    BY <1>0, <1>1 DEF Received, HandInv
  <2> QED BY <1>0, <1>1, <1>2, <1>5, <1>6, <2>4, <2>5, <2>6, <2>7, <2>8 DEF HandInv
<1> QED BY <1>7, <1>8, <1>9 DEF StoreInv


(* The consumer goes on with the block in hand, or is done with it.          *)
LEMMA ConsumerStoreInv ==
  ASSUME ManagerInv, StoreInv, ManagerInv',
         UNCHANGED <<managerVars, main, cleaner, hand, gate, taken>>,
         IndexOK', leftover' \in BOOLEAN,
         cut' \subseteq finished', finished' \subseteq consumed, dropped' \subseteq 1 .. Len(gate),
         \/ consumer' = [at |-> "select", next |-> 0]
         \/ consumer.at = "save" /\ consumer' = [at |-> "confirm", next |-> consumer.next + 1]
         \/ consumer.at = "unconfirm" /\ consumer' = [consumer EXCEPT !.next = @ + 1]
  PROVE  StoreInv'
<1>0. TypeOK /\ HandInv /\ GateInv
  BY DEF StoreInv
<1>1. UNCHANGED <<out, irreversibleBlockChan, consumed>>
  BY DEF managerVars, channels, record
<1>2. consumer' \in [at : {"off", "select", "confirm", "save", "unconfirm"}, next : Nat]
  BY <1>0 DEF TypeOK
<1>3. TypeOK'
  BY <1>0, <1>1, <1>2 DEF TypeOK, ManagerInv, IndexOK
<1>4. GateInv'
  BY <1>0, <1>1 DEF GateInv, Received
<1>5. CASE consumer' = [at |-> "select", next |-> 0]
  BY <1>3, <1>4, <1>5 DEF HandInv, StoreInv
<1>6. CASE consumer.at = "save" /\ consumer' = [at |-> "confirm", next |-> consumer.next + 1]
  <2>1. InHand' = InHand
    BY <1>0, <1>6 DEF InHand, TypeOK
  <2>2. consumer'.next \in 1 .. Len(hand.transfers) + 1
    BY <1>0, <1>6, BlocksFacts DEF HandInv
  <2>3. HandInv'
    BY <1>0, <1>1, <1>6, <2>1, <2>2 DEF HandInv, Entry, Received
  <2> QED BY <1>3, <1>4, <2>3 DEF StoreInv
<1>7. CASE consumer.at = "unconfirm" /\ consumer' = [consumer EXCEPT !.next = @ + 1]
  <2>1. consumer'.at = "unconfirm" /\ consumer'.next > 0
    BY <1>0, <1>7 DEF TypeOK
  <2>2. HandInv'
    BY <1>0, <1>7, <2>1 DEF HandInv
  <2> QED BY <1>3, <1>4, <2>2 DEF StoreInv
<1> QED BY <1>5, <1>6, <1>7

LEMMA InHandIsConsumed ==
  ASSUME ManagerInv, StoreInv, consumer.at \in {"confirm", "save"} PROVE hand.height \in consumed
<1>1. Received > 0 /\ hand.height = out[Received]
  BY DEF StoreInv, HandInv
<1>2. Received \in Int
  BY OutHeights DEF ManagerInv, ManagerTypeOK, Received
<1> QED BY <1>1, <1>2 DEF ManagerInv, ChanIsTail

(* The document written for the transfer that is next.                       *)
LEMMA CurrentDoc ==
  ASSUME StoreInv, consumer.at \in {"save", "unconfirm"}, consumer.next <= Len(hand.transfers)
  PROVE  Doc(hand.height, Current) \in Docs /\ IndexOK /\ leftover \in BOOLEAN
<1>1. hand \in Blocks /\ consumer.next \in Nat \ {0}
  BY DEF StoreInv, HandInv, TypeOK
<1>2. hand.height \in Heights /\ hand.transfers \in Seq(Transfer)
  BY <1>1, BlocksFacts
<1>3. Current \in Transfer
  BY <1>1, <1>2 DEF Current
<1> QED BY <1>2, <1>3 DEF Doc, Docs, Transfer, StoreInv, TypeOK, IndexOK

LEMMA SaveConfirmedStoreInv ==
  ASSUME ManagerInv, StoreInv, ManagerInv', SaveConfirmed PROVE StoreInv'
<1>1. PICK outcome \in Outcomes :
        /\ UpdateTxInfo(Confirmed, Doc(hand.height, Current), outcome)
        /\ IF outcome = "failed"
           THEN Done /\ cut' = cut \cup {hand.height} /\ finished' = finished \cup {hand.height}
           ELSE consumer' = [at |-> "confirm", next |-> consumer.next + 1] /\ UNCHANGED <<cut, finished>>
        /\ dropped' \subseteq dropped \cup {Len(gate)}
  BY DEF SaveConfirmed
<1>2. consumer.at = "save" /\ UNCHANGED <<managerVars, main, cleaner, hand, gate, taken>>
  BY DEF SaveConfirmed
<1>3. IndexOK' /\ leftover' \in BOOLEAN
  BY <1>1, <1>2, CurrentDoc, UpdateFacts DEF StoreInv, HandInv
<1>4. cut' \subseteq finished' /\ finished' \subseteq consumed
  BY <1>1, <1>2, InHandIsConsumed DEF StoreInv, TypeOK
<1>5. dropped' \subseteq 1 .. Len(gate)
  <2>1. gate # <<>> /\ gate \in Seq(Entries)
    BY <1>2 DEF StoreInv, HandInv, GateInv
  <2>2. Len(gate) \in 1 .. Len(gate)
    BY <2>1
  <2> QED BY <1>1, <2>2 DEF StoreInv, TypeOK
<1> QED BY <1>1, <1>2, <1>3, <1>4, <1>5, ConsumerStoreInv DEF Done

LEMMA EndConfirmedStoreInv ==
  ASSUME ManagerInv, StoreInv, ManagerInv', EndConfirmed PROVE StoreInv'
<1>1. /\ consumer.at = "confirm" /\ UNCHANGED <<managerVars, main, cleaner, hand, index, leftover, gate, taken, dropped>>
      /\ cut' \subseteq cut \cup {hand.height} /\ finished' = finished \cup {hand.height} /\ Done
  BY DEF EndConfirmed
<1>2. IndexOK' /\ leftover' \in BOOLEAN
  BY <1>1 DEF StoreInv, TypeOK, IndexOK
<1>3. cut' \subseteq finished' /\ finished' \subseteq consumed /\ dropped' \subseteq 1 .. Len(gate)
  BY <1>1, InHandIsConsumed DEF StoreInv, TypeOK
<1> QED BY <1>1, <1>2, <1>3, ConsumerStoreInv DEF Done

LEMMA UnconfirmedStoreInv ==
  ASSUME ManagerInv, StoreInv, ManagerInv', SaveUnconfirmed \/ EndUnconfirmed PROVE StoreInv'
<1>1. UNCHANGED <<managerVars, main, cleaner, hand, gate, taken, cut, finished, dropped>> /\ consumer.at = "unconfirm"
  BY DEF SaveUnconfirmed, EndUnconfirmed
<1>2. cut \subseteq finished /\ finished \subseteq consumed /\ dropped \subseteq 1 .. Len(gate)
  BY DEF StoreInv, TypeOK
<1>3. CASE SaveUnconfirmed
  <2>1. PICK outcome \in Outcomes :
          /\ UpdateTxInfo(Written, Doc(hand.height, Current), outcome)
          /\ IF outcome = "failed" THEN Done ELSE consumer' = [consumer EXCEPT !.next = @ + 1]
    BY <1>3 DEF SaveUnconfirmed
  <2>2. consumer.next <= Len(hand.transfers)
    BY <1>3 DEF SaveUnconfirmed
  <2>3. IndexOK' /\ leftover' \in BOOLEAN
    BY <1>1, <2>1, <2>2, CurrentDoc, UpdateFacts
  <2> QED BY <1>1, <1>2, <2>1, <2>3, ConsumerStoreInv DEF Done
<1>4. CASE EndUnconfirmed
  <2>1. Done /\ UNCHANGED <<index, leftover>>
    BY <1>4 DEF EndUnconfirmed
  <2>2. IndexOK' /\ leftover' \in BOOLEAN
    BY <2>1 DEF StoreInv, TypeOK, IndexOK
  <2> QED BY <1>1, <1>2, <2>1, <2>2, ConsumerStoreInv DEF Done
<1> QED BY <1>3, <1>4

LEMMA CrashStoreInv ==
  ASSUME ManagerInv, StoreInv, ManagerInv', Crash PROVE StoreInv'
<1>1. /\ main' = "off" /\ cleaner' = "off" /\ consumer' = [at |-> "off", next |-> 0] /\ hand' = NoBlock
      /\ leftover' = FALSE /\ gate' = <<>> /\ taken' = 0 /\ cut' = {} /\ finished' = {} /\ dropped' = {}
      /\ index' = index
  BY DEF Crash
<1>2. /\ DOMAIN index' = {Written, Scanned, Confirmed}
      /\ \A name \in DOMAIN index' : index'[name] \subseteq Docs
  BY <1>1 DEF StoreInv, TypeOK
<1>3. /\ DOMAIN gate' = {} /\ gate' \in Seq(Entries)
      /\ taken' \in 0 .. Len(gate') /\ Len(gate') - taken' <= GateCap
  <2>1. gate' = <<>> /\ taken' = 0 /\ Len(<<>>) = 0 /\ 0 - 0 <= GateCap
    BY <1>1, StoreAssumption
  <2> QED BY <2>1
<1>4. TypeOK'
  <2>1. consumer' \in [at : {"off", "select", "confirm", "save", "unconfirm"}, next : Nat]
    BY <1>1
  <2> QED BY <1>1, <1>2, <1>3, <2>1 DEF TypeOK, ManagerInv
<1>5. HandInv' /\ GateInv'
  BY <1>1, <1>3 DEF HandInv, GateInv
<1> QED BY <1>4, <1>5 DEF StoreInv

LEMMA StoreInvStep == ManagerInv /\ StoreInv /\ [Next]_storeVars => StoreInv'
<1> SUFFICES ASSUME ManagerInv, StoreInv, [Next]_storeVars PROVE StoreInv'
  OBVIOUS
<1>0. ManagerInv' /\ TypeOK /\ IndexOK
  BY ManagerInvStep DEF StoreInv, TypeOK, IndexOK
<1>1. ASSUME UNCHANGED managerVars PROVE HistoryKept /\ consumed' = consumed
  BY <1>1 DEF managerVars, channels, record, HistoryKept, Received
<1>2. CASE (AdvanceChain /\ StoreIdle) \/ (Watcher /\ StoreIdle) \/ Start
  <2>1. HistoryKept /\ consumed' = consumed
    BY <1>2, WatcherKeepsHistory
  <2>2. UNCHANGED <<consumer, hand, index, leftover, gate, taken, cut, finished, dropped, cleaner>>
        /\ main' \in {main, "watchAllBlock"}
    BY <1>2 DEF StoreIdle, Start
  <2> QED BY <1>0, <2>1, <2>2, StoreInvFrame DEF TypeOK, IndexOK
<1>3. CASE WatchAllBlockReturns \/ ScanUnconfirmReturns \/ CleanerBegins
  <2>1. /\ UNCHANGED <<managerVars, hand, index, leftover, gate, taken, cut, finished, dropped>>
        /\ main' \in {main, "scanUnconfirm", "running"} /\ cleaner' \in {cleaner, "born", "loop"}
        /\ consumer' = consumer \/ consumer' = [at |-> "select", next |-> 0]
    BY <1>3 DEF WatchAllBlockReturns, ScanUnconfirmReturns, CleanerBegins
  <2> QED BY <1>0, <1>1, <2>1, StoreInvFrame DEF TypeOK, IndexOK
<1>4. CASE CleanUp
  <2>1. UNCHANGED <<managerVars, main, cleaner, consumer, hand, leftover, gate, taken, cut, finished, dropped>>
    BY <1>4 DEF CleanUp
  <2>2. IndexOK'
    BY <1>0, <1>4, CleanUpFacts
  <2> QED BY <1>0, <1>1, <2>1, <2>2, StoreInvFrame DEF TypeOK
<1>5. CASE GatewayTakes
  <2>1. /\ UNCHANGED <<managerVars, main, cleaner, consumer, hand, index, leftover, gate, cut, finished, dropped>>
        /\ taken < Len(gate) /\ taken' = taken + 1
    BY <1>5 DEF GatewayTakes
  <2>2. Len(gate) \in Nat /\ GateCap \in Nat
    BY StoreAssumption DEF StoreInv, GateInv
  <2>3. taken' \in 0 .. Len(gate) /\ Len(gate) - taken' <= GateCap
    BY <1>0, <2>1, <2>2 DEF TypeOK
  <2> QED BY <1>0, <1>1, <2>1, <2>3, StoreInvFrame DEF TypeOK, IndexOK
<1>6. CASE Consumer
  BY <1>0, <1>6, TakeConfirmedStoreInv, TakeUnconfirmedStoreInv, PushTransferStoreInv, SaveConfirmedStoreInv,
     EndConfirmedStoreInv, UnconfirmedStoreInv DEF Consumer
<1>7. CASE UNCHANGED storeVars
  <2>1. UNCHANGED <<managerVars, main, cleaner, consumer, hand, index, leftover, gate, taken, cut, finished, dropped>>
    BY <1>7 DEF storeVars
  <2> QED BY <1>0, <1>1, <2>1, StoreInvFrame DEF TypeOK, IndexOK
<1> QED BY <1>0, <1>2, <1>3, <1>4, <1>5, <1>6, <1>7, CrashStoreInv DEF Next

(***************************************************************************)
(* The state keeps its types: neither a channel nor the gateway's queue    *)
(* exceeds its capacity, and only a block that was received is finished.   *)
(***************************************************************************)
THEOREM StoreTypeCorrect == Spec => []TypeOK
<1>1. StoreInv => TypeOK
  BY DEF StoreInv
<1> QED BY <1>1, ManagerInvInit, ManagerInvStep, StoreInvInit, StoreInvStep, PTL DEF Spec

-----------------------------------------------------------------------------
(* The gateway's channel only grows while the program runs.                  *)
GateGrows == \A k \in DOMAIN gate : k \in DOMAIN gate' /\ gate'[k] = gate[k]

LEMMA PushGrows ==
  ASSUME StoreInv, PushTransfer
  PROVE  /\ GateGrows /\ gate' # <<>> /\ Len(gate') \in DOMAIN gate' /\ Len(gate') = Len(gate) + 1 /\ Len(gate) \in Nat
         /\ gate'[Len(gate')] = Entry(consumer.next)
         /\ \A k \in DOMAIN gate' : k = Len(gate') \/ k \in DOMAIN gate
         /\ Entry(consumer.next) \in Entries
<1>0. HandInv /\ GateInv
  BY DEF StoreInv
<1>1. /\ consumer.at = "confirm" /\ consumer.next <= Len(hand.transfers)
      /\ gate' = Append(gate, Entry(consumer.next))
  BY DEF PushTransfer, Current, Entry
<1>2. /\ hand.height \in Heights /\ hand.transfers \in Seq(Transfer)
      /\ consumer.next \in 1 .. Len(hand.transfers)
  BY <1>0, <1>1, BlocksFacts DEF HandInv
<1>3. Entry(consumer.next) \in Entries
  BY <1>2 DEF Entry, Entries
<1>4. gate \in Seq(Entries)
  BY <1>0 DEF GateInv
<1>5. /\ Len(gate) \in Nat /\ Len(gate') = Len(gate) + 1
      /\ DOMAIN gate = 1 .. Len(gate) /\ DOMAIN gate' = 1 .. Len(gate) + 1
      /\ \A k \in 1 .. Len(gate) : gate'[k] = gate[k]
      /\ gate'[Len(gate) + 1] = Entry(consumer.next)
      /\ \A k \in DOMAIN gate' : k = Len(gate) + 1 \/ k \in 1 .. Len(gate)
  BY <1>1, <1>3, <1>4, AppendFacts
<1>6. gate' # <<>>
  BY <1>5
<1> QED BY <1>3, <1>5, <1>6 DEF GateGrows

LEMMA OnlyPushMovesGate ==
  ASSUME [Next]_storeVars, ~ Crash, ~ PushTransfer PROVE gate' = gate
BY DEF Next, StoreIdle, Start, WatchAllBlockReturns, ScanUnconfirmReturns, CleanerBegins, CleanUp, Consumer,
   TakeConfirmed, TakeUnconfirmed, SaveConfirmed, EndConfirmed, SaveUnconfirmed, EndUnconfirmed, GatewayTakes,
   storeVars

LEMMA GateMonotone ==
  ASSUME StoreInv, [Next]_storeVars, ~ Crash PROVE GateGrows
BY PushGrows, OnlyPushMovesGate DEF GateGrows

(* All of a block in hand that was pushed is all that was to be found.       *)
LEMMA WholeBlockPushed ==
  ASSUME StoreInv, consumer.at = "confirm", consumer.next > Len(hand.transfers)
  PROVE  \A i \in DOMAIN Transfers[hand.height] :
           Pushed(hand.height, Transfers[hand.height][i]) \/ Transfers[hand.height][i].receipt # "packed"
<1> DEFINE h == hand.height
<1>0. /\ hand \in BlocksOf(h) /\ hand \in Blocks
      /\ consumer.next \in 1 .. Len(hand.transfers) + 1
      /\ \A m \in InHand : \E k \in DOMAIN gate : gate[k] = Entry(m)
  BY DEF StoreInv, HandInv
<1>1. h \in Heights /\ Transfers[h] \in Seq(Transfer) /\ hand.transfers \in Seq(Transfer)
  BY <1>0, BlocksFacts, ManagerAssumption
<1>2. PICK found : hand = [height |-> h, transfers |-> TempTransactions(Transfers[h], found)]
  BY <1>0 DEF BlocksOf, BlockRespDecodeTrx
<1>3. PICK f : Selects(hand.transfers, Transfers[h], f, Len(Transfers[h]))
  BY <1>1, <1>2, TempTransactionsSelects
<1>4. InHand = 1 .. Len(hand.transfers)
  BY <1>0, <1>1 DEF InHand
<1>5. ASSUME NEW i \in DOMAIN Transfers[h], Transfers[h][i].receipt = "packed" PROVE Pushed(h, Transfers[h][i])
  <2>1. PICK m \in 1 .. Len(hand.transfers) : f[m] = i
    BY <1>1, <1>3, <1>5 DEF Selects
  <2>2. hand.transfers[m] = Transfers[h][i]
    BY <1>3, <2>1 DEF Selects
  <2>3. PICK k \in DOMAIN gate : gate[k] = Entry(m)
    BY <1>0, <1>4
  <2> QED BY <2>2, <2>3 DEF Pushed, Entry
<1> QED BY <1>5

LEMMA WholeStep ==
  StoreInv /\ WholeUnlessCut /\ [Next]_storeVars => WholeUnlessCut'
<1> SUFFICES ASSUME StoreInv, WholeUnlessCut, [Next]_storeVars PROVE WholeUnlessCut'
  OBVIOUS
<1>1. CASE Crash
  BY <1>1 DEF Crash, WholeUnlessCut
<1>2. CASE ~ Crash
  <2>1. GateGrows
    BY <1>2, GateMonotone
  <2>2. \A h, t : Pushed(h, t) => Pushed(h, t)'
    BY <2>1 DEF Pushed, GateGrows
  <2>3. CASE EndConfirmed
    <3>1. CASE consumer.next <= Len(hand.transfers)
      <4>1. finished' \ cut' \subseteq finished \ cut
        BY <2>3, <3>1 DEF EndConfirmed
      <4> QED BY <2>2, <4>1 DEF WholeUnlessCut
    <3>2. CASE ~ (consumer.next <= Len(hand.transfers))
      <4>1. finished' = finished \cup {hand.height} /\ cut' = cut /\ consumer.at = "confirm"
        BY <2>3, <3>2 DEF EndConfirmed
      <4>2. consumer.next > Len(hand.transfers)
        BY <3>2, <4>1, BlocksFacts DEF StoreInv, HandInv
      <4> QED BY <2>2, <4>1, <4>2, WholeBlockPushed DEF WholeUnlessCut
    <3> QED BY <3>1, <3>2
  <2>4. CASE SaveConfirmed
    <3>1. finished' \ cut' \subseteq finished \ cut
      BY <2>4 DEF SaveConfirmed
    <3> QED BY <2>2, <3>1 DEF WholeUnlessCut
  <2>5. CASE ~ EndConfirmed /\ ~ SaveConfirmed
    <3>1. UNCHANGED <<cut, finished>>
      BY <1>2, <2>5 DEF Next, StoreIdle, Start, WatchAllBlockReturns, ScanUnconfirmReturns, CleanerBegins, CleanUp,
         Consumer, TakeConfirmed, TakeUnconfirmed, PushTransfer, SaveUnconfirmed, EndUnconfirmed, GatewayTakes,
         storeVars
    <3> QED BY <2>2, <3>1 DEF WholeUnlessCut
  <2> QED BY <2>3, <2>4, <2>5
<1> QED BY <1>1, <1>2

(***************************************************************************)
(* A block that was processed and not cut short was pushed whole, but for  *)
(* transfers that its receipts do not hold in a readable form.             *)
(***************************************************************************)
THEOREM WholeCorrect == Spec => []WholeUnlessCut
<1>1. Init => WholeUnlessCut
  BY DEF Init, WholeUnlessCut
<1> QED BY <1>1, ManagerInvInit, ManagerInvStep, StoreInvInit, StoreInvStep, WholeStep, PTL DEF Spec

-----------------------------------------------------------------------------
(* The consumer starts when Start is done waiting.                           *)
(* The consumer runs only while the program does.                          *)
ConsumerRuns == consumer.at # "off" => main = "running"

LEMMA ConsumerRunsStep == ConsumerRuns /\ [Next]_storeVars => ConsumerRuns'
BY DEF ConsumerRuns, Next, StoreIdle, Start, WatchAllBlockReturns, ScanUnconfirmReturns, CleanerBegins, CleanUp,
   Consumer, TakeConfirmed, TakeUnconfirmed, PushTransfer, SaveConfirmed, EndConfirmed, SaveUnconfirmed,
   EndUnconfirmed, GatewayTakes, Crash, storeVars

(* A block that was cut short is not in hand again.                         *)
CutInv ==
  /\ \A h \in cut : \E r \in 1 .. Received : h = out[r]
  /\ consumer.at \in {"confirm", "save"} => hand.height \notin cut

LEMMA CutInvStep == ManagerInv /\ StoreInv /\ CutInv /\ [Next]_storeVars => CutInv'
<1> SUFFICES ASSUME ManagerInv, StoreInv, CutInv, [Next]_storeVars PROVE CutInv'
  OBVIOUS
<1>1. CASE Crash
  BY <1>1 DEF Crash, CutInv
<1>2. CASE (AdvanceChain /\ StoreIdle) \/ (Watcher /\ StoreIdle) \/ Start
  <2>1. HistoryKept
    BY <1>2, WatcherKeepsHistory
  <2>2. UNCHANGED <<cut, consumer, hand>>
    BY <1>2 DEF StoreIdle, Start
  <2> QED BY <2>1, <2>2 DEF CutInv, HistoryKept
<1>3. CASE TakeConfirmed
  <2>1. Received' = Received + 1 /\ Received \in Nat /\ Received' <= Len(out) /\ hand'.height = out[Received']
    BY <1>3, TakeConfirmedFacts
  <2>2. cut' = cut /\ out' = out
    BY <1>3 DEF TakeConfirmed
  <2>3. \A h \in cut' : \E r \in 1 .. Received' : h = out'[r]
    <3>1. 1 .. Received \subseteq 1 .. Received'
      BY <2>1
    <3> QED BY <2>2, <3>1 DEF CutInv
  <2>4. hand'.height \notin cut'
    <3> SUFFICES ASSUME NEW h \in cut PROVE h # hand'.height
      BY <2>2
    <3>1. PICK r \in 1 .. Received : h = out[r]
      BY DEF CutInv
    <3>2. r \in DOMAIN out /\ Received' \in DOMAIN out /\ r < Received' /\ out[r] \in Nat /\ out[Received'] \in Nat
      BY <2>1, OutHeights DEF ManagerInv
    <3>3. out[r] < out[Received']
      BY <3>2 DEF ManagerInv, OutInOrder
    <3> QED BY <2>1, <3>1, <3>2, <3>3
  <2> QED BY <2>3, <2>4 DEF CutInv
<1>4. CASE SaveConfirmed \/ EndConfirmed
  <2>1. UNCHANGED <<out, irreversibleBlockChan, hand>> /\ consumer.at \in {"confirm", "save"}
    BY <1>4 DEF SaveConfirmed, EndConfirmed, managerVars, channels, record
  <2>2. cut' = cut \/ (cut' = cut \cup {hand.height} /\ consumer'.at = "select")
    BY <1>4 DEF SaveConfirmed, EndConfirmed, Done
  <2>3. Received' = Received /\ hand.height = out[Received] /\ Received \in 1 .. Received
    BY <2>1, OutHeights DEF Received, StoreInv, HandInv, ManagerInv, ManagerTypeOK
  <2> QED BY <2>1, <2>2, <2>3 DEF CutInv
<1>5. CASE TakeUnconfirmed
  <2>1. UNCHANGED <<out, irreversibleBlockChan, cut>> /\ consumer'.at = "unconfirm"
    BY <1>5 DEF TakeUnconfirmed, record
  <2> QED BY <2>1 DEF CutInv, Received
<1>6. CASE /\ ~ Crash /\ ~ (AdvanceChain /\ StoreIdle) /\ ~ (Watcher /\ StoreIdle) /\ ~ Start
           /\ ~ TakeConfirmed /\ ~ SaveConfirmed /\ ~ EndConfirmed /\ ~ TakeUnconfirmed
  <2>1. UNCHANGED managerVars
    BY <1>6, OtherStepsLeaveManager
  <2>2. UNCHANGED <<out, irreversibleBlockChan>>
    BY <2>1 DEF managerVars, channels, record
  <2>3. /\ cut' = cut /\ hand' = hand
        /\ consumer' = consumer \/ consumer'.at = "select" \/ consumer.at = "confirm" \/ consumer'.at = "unconfirm"
    BY <1>6 DEF Next, WatchAllBlockReturns, ScanUnconfirmReturns, CleanerBegins, CleanUp, Consumer,
       PushTransfer, SaveUnconfirmed, EndUnconfirmed, GatewayTakes, Done, StoreInv, TypeOK, storeVars
  <2> QED BY <2>2, <2>3 DEF CutInv, Received
<1> QED BY <1>1, <1>2, <1>3, <1>4, <1>5, <1>6

(* Only the consumer's writes move the index of confirmed transactions.     *)
LEMMA ConfirmedKept ==
  ASSUME StoreInv, [Next]_storeVars, ~ Crash, ~ SaveConfirmed PROVE index'[Confirmed] = index[Confirmed]
<1>0. IndexOK /\ leftover \in BOOLEAN
  BY DEF StoreInv, TypeOK, IndexOK
<1>1. CASE CleanUp
  BY <1>0, <1>1, CleanUpFacts
<1>2. CASE SaveUnconfirmed
  <2>1. PICK outcome \in Outcomes : UpdateTxInfo(Written, Doc(hand.height, Current), outcome)
    BY <1>2 DEF SaveUnconfirmed
  <2>2. Doc(hand.height, Current) \in Docs
    BY <1>2, CurrentDoc DEF SaveUnconfirmed
  <2>3. Confirmed \in DOMAIN index /\ Confirmed # Written
    BY <1>0 DEF IndexOK, Confirmed, Written
  <2> QED BY <1>0, <2>1, <2>2, <2>3, UpdateFacts
<1>3. CleanUp \/ SaveUnconfirmed \/ index' = index
  BY DEF Next, StoreIdle, Start, WatchAllBlockReturns, ScanUnconfirmReturns, CleanerBegins, Consumer,
     TakeConfirmed, TakeUnconfirmed, PushTransfer, EndConfirmed, EndUnconfirmed, GatewayTakes, storeVars
<1> QED BY <1>1, <1>2, <1>3

(* What the property says of one place.                                     *)
Accounted(k) == Stored(k) \/ LastOfCut(k) \/ k \in dropped \/ (k = Len(gate) /\ consumer.at = "save")

LEMMA PushAccounts ==
  ASSUME StoreInv, CutInv, PushTransfer, index'[Confirmed] = index[Confirmed],
         \A k \in DOMAIN gate : Accounted(k)
  PROVE  \A k \in DOMAIN gate' : Accounted(k)'
<1>1. /\ GateGrows /\ Len(gate') = Len(gate) + 1 /\ Len(gate) \in Nat
      /\ gate'[Len(gate')] = Entry(consumer.next)
      /\ \A k \in DOMAIN gate' : k = Len(gate') \/ k \in DOMAIN gate
  BY PushGrows
<1>2. DOMAIN gate = 1 .. Len(gate)
  BY DEF StoreInv, GateInv
<1>3. consumer.at = "confirm" /\ consumer' = [consumer EXCEPT !.at = "save"] /\ UNCHANGED <<cut, dropped>>
  BY DEF PushTransfer
<1>4. consumer'.at = "save"
  BY <1>3 DEF StoreInv, TypeOK
<1>5. gate'[Len(gate')].height \notin cut
  BY <1>1, <1>3 DEF CutInv, Entry
<1>6. ASSUME NEW k \in DOMAIN gate PROVE Accounted(k)'
  <2>1. k \in Nat /\ gate'[k] = gate[k] /\ \A j \in k .. Len(gate) : j \in k .. Len(gate') /\ gate'[j] = gate[j]
    BY <1>1, <1>2 DEF GateGrows
  <2>2. CASE Stored(k)
    BY <2>1, <2>2 DEF Stored, Accounted
  <2>3. CASE LastOfCut(k)
    <3>1. ASSUME NEW j \in k + 1 .. Len(gate') PROVE gate'[j].height # gate[k].height
      <4>1. j = Len(gate') \/ (j \in k + 1 .. Len(gate) /\ j \in DOMAIN gate)
        BY <1>1, <1>2, <2>1
      <4> QED BY <1>1, <1>5, <2>3, <4>1 DEF LastOfCut, GateGrows
    <3> QED BY <1>3, <2>1, <2>3, <3>1 DEF LastOfCut, Accounted
  <2>4. CASE k \in dropped
    BY <1>3, <2>4 DEF Accounted
  <2> QED BY <1>3, <2>2, <2>3, <2>4 DEF Accounted
<1> QED BY <1>1, <1>4, <1>6 DEF Accounted

LEMMA SaveAccounts ==
  ASSUME StoreInv, SaveConfirmed, \A k \in DOMAIN gate : Accounted(k)
  PROVE  \A k \in DOMAIN gate' : Accounted(k)'
<1>0. PICK n, doc : n = Len(gate) /\ doc = Doc(hand.height, Current)
  OBVIOUS
<1>1. gate' = gate /\ hand' = hand /\ consumer.at = "save"
  BY DEF SaveConfirmed
<1>2. PICK outcome \in Outcomes :
        /\ UpdateTxInfo(Confirmed, doc, outcome)
        /\ cut' = IF outcome = "failed" THEN cut \cup {hand.height} ELSE cut
        /\ dropped' = IF outcome = "refused" THEN dropped \cup {n} ELSE dropped
  BY <1>0 DEF SaveConfirmed
<1>3. gate[n] = Entry(consumer.next) /\ consumer.next <= Len(hand.transfers) /\ gate # <<>> /\ gate \in Seq(Entries)
  BY <1>0, <1>1 DEF StoreInv, HandInv, GateInv
<1>4. DOMAIN gate = 1 .. n /\ n \in Nat /\ n \in DOMAIN gate
  BY <1>0, <1>3
<1>5. doc = Doc(gate[n].height, gate[n].transfer) /\ doc.tx = gate[n].transfer.tx /\ gate[n].height = hand.height
  BY <1>0, <1>3 DEF Entry, Current, Doc
<1>6. /\ outcome = "written" => doc \in index'[Confirmed]
      /\ \A d \in index[Confirmed] : d \in index'[Confirmed] \/ (d.tx = doc.tx /\ doc \in index'[Confirmed])
  BY <1>0, <1>1, <1>2, <1>3, CurrentDoc, UpdateFacts
<1>7. ASSUME NEW k \in DOMAIN gate, Stored(k) PROVE Stored(k)'
  <2>1. PICK j \in k .. Len(gate) : /\ gate[j].transfer.tx = gate[k].transfer.tx
                                    /\ Doc(gate[j].height, gate[j].transfer) \in index[Confirmed]
    BY <1>7 DEF Stored
  <2>2. CASE Doc(gate[j].height, gate[j].transfer) \in index'[Confirmed]
    BY <1>1, <2>1, <2>2 DEF Stored
  <2>3. CASE Doc(gate[j].height, gate[j].transfer).tx = doc.tx /\ doc \in index'[Confirmed]
    <3>1. gate[n].transfer.tx = gate[k].transfer.tx
      BY <1>5, <2>1, <2>3 DEF Doc
    <3>2. n \in k .. Len(gate)
      BY <1>0, <1>4
    <3> QED BY <1>1, <1>5, <2>3, <3>1, <3>2 DEF Stored
  <2> QED BY <1>6, <2>1, <2>2, <2>3
<1>8. Accounted(n)'
  <2>1. CASE outcome = "written"
    <3>1. n \in n .. Len(gate)
      BY <1>0, <1>4
    <3> QED BY <1>1, <1>5, <1>6, <2>1, <3>1 DEF Stored, Accounted
  <2>2. CASE outcome = "refused"
    <3>1. n \in dropped'
      BY <1>2, <2>2
    <3> QED BY <3>1 DEF Accounted
  <2>3. CASE outcome = "failed"
    <3>1. gate[n].height \in cut'
      BY <1>2, <1>5, <2>3
    <3>2. \A j \in n + 1 .. Len(gate) : FALSE
      BY <1>0, <1>4
    <3> QED BY <1>1, <3>1, <3>2 DEF LastOfCut, Accounted
  <2> QED BY <2>1, <2>2, <2>3 DEF Outcomes
<1>9. ASSUME NEW k \in DOMAIN gate, k # n PROVE Accounted(k)'
  <2>1. Stored(k) \/ LastOfCut(k) \/ k \in dropped
    BY <1>0, <1>9 DEF Accounted
  <2>2. cut \subseteq cut' /\ dropped \subseteq dropped'
    BY <1>2
  <2> QED BY <1>1, <1>7, <2>1, <2>2 DEF LastOfCut, Accounted
<1> QED BY <1>1, <1>8, <1>9

LEMMA StoredStep ==
  StoreInv /\ CutInv /\ ConsumerRuns /\ StoredUnlessCut /\ [Next]_storeVars => StoredUnlessCut'
<1> SUFFICES ASSUME StoreInv, CutInv, ConsumerRuns, StoredUnlessCut, [Next]_storeVars PROVE StoredUnlessCut'
  OBVIOUS
<1>0. \A k \in DOMAIN gate : Accounted(k)
  BY DEF StoredUnlessCut, Accounted
<1>1. CASE Crash
  <2>1. DOMAIN gate' = {}
    BY <1>1 DEF Crash
  <2> QED BY <2>1 DEF StoredUnlessCut
<1>2. CASE ~ Crash /\ PushTransfer
  <2>1. ~ SaveConfirmed
    BY <1>2 DEF PushTransfer, SaveConfirmed
  <2>2. \A k \in DOMAIN gate' : Accounted(k)'
    BY <1>0, <1>2, <2>1, ConfirmedKept, PushAccounts
  <2> QED BY <2>2 DEF StoredUnlessCut, Accounted
<1>3. CASE SaveConfirmed
  <2>1. \A k \in DOMAIN gate' : Accounted(k)'
    BY <1>0, <1>3, SaveAccounts
  <2> QED BY <2>1 DEF StoredUnlessCut, Accounted
<1>4. CASE ~ Crash /\ ~ PushTransfer /\ ~ SaveConfirmed
  <2>1. gate' = gate /\ index'[Confirmed] = index[Confirmed]
    BY <1>4, OnlyPushMovesGate, ConfirmedKept
  <2>2. cut \subseteq cut' /\ dropped' = dropped /\ (consumer.at = "save" => consumer' = consumer)
    BY <1>4 DEF ConsumerRuns, Next, StoreIdle, Start, WatchAllBlockReturns, ScanUnconfirmReturns,
       CleanerBegins, CleanUp, Consumer, TakeConfirmed, TakeUnconfirmed, EndConfirmed, SaveUnconfirmed,
       EndUnconfirmed, GatewayTakes, storeVars
  <2>3. ASSUME NEW k \in DOMAIN gate PROVE Accounted(k)'
    BY <1>0, <2>1, <2>2 DEF Accounted, Stored, LastOfCut
  <2> QED BY <2>1, <2>3 DEF StoredUnlessCut, Accounted
<1> QED BY <1>1, <1>2, <1>3, <1>4

(***************************************************************************)
(* Every transfer that was pushed has its document or that of a later one  *)
(* of its transaction, but for the one being saved, the last one pushed of *)
(* a block that was cut short, and those whose document was refused in a   *)
(* request that succeeded.                                                 *)
(***************************************************************************)
THEOREM StoredCorrect == Spec => []StoredUnlessCut
<1>1. Init => StoredUnlessCut /\ ConsumerRuns /\ CutInv
  BY DEF Init, StoredUnlessCut, ConsumerRuns, CutInv
<1> QED BY <1>1, ManagerInvInit, ManagerInvStep, StoreInvInit, StoreInvStep, ConsumerRunsStep, CutInvStep,
        StoredStep, PTL DEF Spec

-----------------------------------------------------------------------------
(* The channel of the gateway, as the confirmed feed shows it.             *)
TheFeed == [k \in DOMAIN gate |-> <<gate[k].height, gate[k].transfer.id>>]

LEMMA EmptyFeed ==
  ASSUME NEW g, g = <<>> PROVE [k \in DOMAIN g |-> <<g[k].height, g[k].transfer.id>>] = <<>>
<1>1. DOMAIN g = {}
  OBVIOUS
<1> QED BY <1>1

LEMMA PushAppends ==
  ASSUME StoreInv, PushTransfer
  PROVE  TheFeed' = Append(TheFeed, <<hand.height, Current.id>>)
<1> DEFINE Items == Heights \X Nat
           item == <<hand.height, Current.id>>
           n == Len(gate)
<1>1. gate \in Seq(Entries) /\ gate' \in Seq(Entries) /\ n \in Nat
  <2>1. gate \in Seq(Entries)
    BY DEF StoreInv, GateInv
  <2>2. gate' = Append(gate, Entry(consumer.next))
    BY DEF PushTransfer, Current, Entry
  <2> QED BY <2>1, <2>2, PushGrows, AppendFacts
<1>2. /\ GateGrows /\ Len(gate') = n + 1 /\ gate'[n + 1] = Entry(consumer.next)
      /\ DOMAIN gate = 1 .. n /\ DOMAIN gate' = 1 .. n + 1
  BY <1>1, PushGrows
<1>3. \A e \in Entries : <<e.height, e.transfer.id>> \in Items
  BY DEF Entries, Transfer
<1>4. item \in Items /\ item = <<Entry(consumer.next).height, Entry(consumer.next).transfer.id>>
  BY <1>3, PushGrows DEF Entry, Current
<1> HIDE DEF Items, item
<1>5. /\ TheFeed \in Seq(Items) /\ Len(TheFeed) = n
      /\ \A k \in 1 .. n : TheFeed[k] = <<gate[k].height, gate[k].transfer.id>>
  BY <1>1, <1>2, <1>3 DEF TheFeed
<1>6. /\ TheFeed' \in Seq(Items) /\ Len(TheFeed') = n + 1
      /\ \A k \in 1 .. n + 1 : TheFeed'[k] = <<gate'[k].height, gate'[k].transfer.id>>
  BY <1>1, <1>2, <1>3 DEF TheFeed
<1> HIDE DEF n
<1>7. /\ Append(TheFeed, item) \in Seq(Items) /\ Len(Append(TheFeed, item)) = n + 1
      /\ \A k \in 1 .. n : Append(TheFeed, item)[k] = TheFeed[k]
      /\ Append(TheFeed, item)[n + 1] = item
  BY <1>4, <1>5, AppendFacts
<1>8. \A k \in 1 .. n + 1 : TheFeed'[k] = Append(TheFeed, item)[k]
  <2> TAKE k \in 1 .. n + 1
  <2>1. CASE k \in 1 .. n
    <3>1. gate'[k] = gate[k]
      BY <1>2, <2>1 DEF GateGrows
    <3> QED BY <1>5, <1>6, <1>7, <2>1, <3>1
  <2>2. CASE k = n + 1
    <3>1. n + 1 \in 1 .. n + 1
      BY <1>1 DEF n
    <3>2. TheFeed'[n + 1] = <<gate'[n + 1].height, gate'[n + 1].transfer.id>>
      BY <1>6, <3>1
    <3>3. gate'[n + 1] = Entry(consumer.next)
      BY <1>2 DEF n
    <3> QED BY <1>4, <1>7, <2>2, <3>2, <3>3
  <2>3. k \in 1 .. n \/ k = n + 1
    BY <1>1 DEF n
  <2> QED BY <2>1, <2>2, <2>3, Zenon
<1>9. TheFeed' = Append(TheFeed, item)
  BY <1>6, <1>7, <1>8, SeqEqual
<1> QED BY <1>9 DEF item

(* Pushing the next transfer of the block in hand is a step of the feed.     *)
LEMMA PushRefines ==
  ASSUME ManagerInv, StoreInv, PushTransfer
  PROVE  \E h \in Heights : \E i \in DOMAIN Transfers[h] : Feed!Emit(h, i)
<1> DEFINE h == hand.height
           next == consumer.next
<1>0. /\ hand \in BlocksOf(h) /\ hand \in Blocks /\ Received > 0 /\ h = out[Received]
      /\ consumer.at = "confirm" /\ next \in 1 .. Len(hand.transfers) /\ Current.ok
      /\ \A k \in DOMAIN gate : gate[k].height = h => \E m \in InHand : gate[k] = Entry(m)
      /\ \A m \in InHand : \E k \in DOMAIN gate : gate[k] = Entry(m)
      /\ InHand = 1 .. next - 1
  BY BlocksFacts DEF StoreInv, HandInv, PushTransfer, InHand
<1>1. h \in Heights /\ Transfers[h] \in Seq(Transfer) /\ hand.transfers \in Seq(Transfer)
  BY <1>0, BlocksFacts, ManagerAssumption
<1>2. PICK found : hand = [height |-> h, transfers |-> TempTransactions(Transfers[h], found)]
  BY <1>0 DEF BlocksOf, BlockRespDecodeTrx
<1>3. PICK f : Selects(hand.transfers, Transfers[h], f, Len(Transfers[h]))
  BY <1>1, <1>2, TempTransactionsSelects
<1>4. /\ \A m \in 1 .. Len(hand.transfers) : /\ f[m] \in 1 .. Len(Transfers[h])
                                             /\ hand.transfers[m] = Transfers[h][f[m]]
      /\ \A j, m \in 1 .. Len(hand.transfers) : j < m => f[j] < f[m]
      /\ \A j \in 1 .. Len(Transfers[h]) :
           Transfers[h][j].receipt # "packed" \/ \E m \in 1 .. Len(hand.transfers) : f[m] = j
  BY <1>3 DEF Selects
<1> DEFINE i == f[next]
<1>5. i \in DOMAIN Transfers[h] /\ i \in Nat /\ Current = Transfers[h][i] /\ next \in Nat
  BY <1>0, <1>1, <1>4 DEF Current
<1>6. \A k \in DOMAIN gate : TheFeed[k] = <<gate[k].height, gate[k].transfer.id>>
  BY DEF TheFeed
<1>7. DOMAIN TheFeed = DOMAIN gate
  BY DEF TheFeed
<1>8. h < lib
  <2>1. Received \in DOMAIN out
    BY <1>0, OutHeights DEF ManagerInv, ManagerTypeOK, ChanIsTail, Received
  <2> QED BY <1>0, <2>1 DEF ManagerInv, OutInOrder
<1>9. \A k \in DOMAIN gate : gate[k].height <= h
  <2> TAKE k \in DOMAIN gate
  <2>1. PICK r \in 1 .. Received : gate[k].height = out[r]
    BY DEF StoreInv, GateInv
  <2>2. /\ r \in DOMAIN out /\ Received \in DOMAIN out /\ r <= Received
        /\ out[r] \in Nat /\ out[Received] \in Nat /\ r \in Nat /\ Received \in Nat
    BY <1>0, OutHeights DEF ManagerInv, ManagerTypeOK, ChanIsTail, Received
  <2>3. r = Received \/ out[r] < out[Received]
    BY <2>2 DEF ManagerInv, OutInOrder
  <2> QED BY <1>0, <2>1, <2>2, <2>3
<1>10. \A j \in i .. Len(Transfers[h]) : ~ Feed!Fed(h, Transfers[h][j])
  <2> SUFFICES ASSUME NEW j \in i .. Len(Transfers[h]), NEW k \in DOMAIN gate,
                      gate[k].height = h, gate[k].transfer.id = Transfers[h][j].id
               PROVE  FALSE
    BY <1>6, <1>7 DEF Feed!Fed, TheFeed
  <2>1. PICK m \in 1 .. next - 1 : gate[k] = Entry(m)
    BY <1>0
  <2>2. m \in 1 .. Len(hand.transfers) /\ m < next
    BY <1>0, <1>5
  <2>3. f[m] \in 1 .. Len(Transfers[h]) /\ f[m] < i /\ Transfers[h][f[m]].id = Transfers[h][j].id
    BY <1>0, <1>4, <2>1, <2>2 DEF Entry
  <2>4. j \in DOMAIN Transfers[h] /\ f[m] \in DOMAIN Transfers[h]
    BY <1>1, <1>5, <2>3
  <2>5. f[m] = j
    BY <1>1, <2>3, <2>4, ManagerAssumption
  <2> QED BY <1>5, <2>3, <2>5
<1>11. \A j \in 1 .. i - 1 : Feed!Fed(h, Transfers[h][j]) \/ Transfers[h][j].receipt # "packed"
  <2> SUFFICES ASSUME NEW j \in 1 .. i - 1, Transfers[h][j].receipt = "packed" PROVE Feed!Fed(h, Transfers[h][j])
    OBVIOUS
  <2>1. j \in 1 .. Len(Transfers[h]) /\ j < i /\ j \in Nat
    BY <1>1, <1>5
  <2>2. PICK m \in 1 .. Len(hand.transfers) : f[m] = j
    BY <1>4, <2>1
  <2>3. m < next
    <3>1. ~ (next < m) /\ m # next
      BY <1>0, <1>4, <1>5, <2>1, <2>2
    <3> QED BY <1>1, <1>5, <3>1
  <2>4. PICK k \in DOMAIN gate : gate[k] = Entry(m)
    BY <1>0, <1>1, <1>5, <2>3
  <2>5. TheFeed[k] = <<h, Transfers[h][j].id>>
    BY <1>4, <1>6, <2>2, <2>4 DEF Entry
  <2> QED BY <1>7, <2>5 DEF Feed!Fed, TheFeed
<1>12. lib' = lib /\ TheFeed' = Append(TheFeed, <<h, Transfers[h][i].id>>)
  BY <1>5, PushAppends DEF PushTransfer, managerVars, chain
<1>13. Feed!Emit(h, i)
  <2>1. Transfers[h][i].ok
    BY <1>0, <1>5
  <2>2. \A k \in DOMAIN TheFeed : TheFeed[k][1] <= h
    BY <1>6, <1>7, <1>9
  <2> QED BY <1>8, <1>10, <1>11, <1>12, <2>1, <2>2 DEF Feed!Emit, TheFeed
<1>14. \E j \in DOMAIN Transfers[h] : Feed!Emit(h, j)
  <2> HIDE DEF h, i
  <2> QED BY <1>5, <1>13, Zenon DEF Feed!Emit
<1> QED
  <2> HIDE DEF h
  <2> QED BY <1>1, <1>14, Zenon DEF Feed!Emit

LEMMA FeedRefined ==
  ManagerInv /\ StoreInv /\ [Next]_storeVars => [Feed!FeedNext]_(Feed!feedVars)
<1> SUFFICES ASSUME ManagerInv, StoreInv, [Next]_storeVars PROVE [Feed!FeedNext]_(Feed!feedVars)
  OBVIOUS
<1>1. CASE AdvanceChain /\ StoreIdle
  <2>1. lib' = lib + 1 /\ gate' = gate
    BY <1>1 DEF AdvanceChain, StoreIdle
  <2> QED BY <2>1 DEF Feed!FeedNext, Feed!Extend
<1>2. CASE Crash
  <2>1. lib' = lib /\ gate' = <<>>
    BY <1>2 DEF Crash, ManagerCrash
  <2>2. TheFeed' = <<>>
    BY <2>1, EmptyFeed DEF TheFeed
  <2> QED BY <2>1, <2>2 DEF Feed!FeedNext, Feed!Forget, TheFeed
<1>3. CASE PushTransfer
  BY <1>3, PushRefines DEF Feed!FeedNext
<1>4. CASE ~ (AdvanceChain /\ StoreIdle) /\ ~ Crash /\ ~ PushTransfer
  <2>1. gate' = gate
    BY <1>4, OnlyPushMovesGate
  <2>2. lib' = lib
    <3>1. CASE Watcher
      BY <3>1 DEF Watcher, BeginScan, GetIrreversibleBlockHeight, Sleep, GetInfoFails, GetInfo, GetBlock,
         GetBlockFails, SendIrreversible, SaveHeight, GetReversibleBlock, GetReversibleBlockFails,
         SendReversible, managerVars, chain
    <3>2. CASE Start \/ TakeConfirmed \/ TakeUnconfirmed
      BY <3>2 DEF Start, TakeConfirmed, TakeUnconfirmed, chain
    <3> QED BY <1>4, <3>1, <3>2, OtherStepsLeaveManager DEF managerVars, chain
  <2> QED BY <2>1, <2>2 DEF Feed!feedVars
<1> QED BY <1>1, <1>2, <1>3, <1>4

(***************************************************************************)
(* EosStore implements the confirmed feed: the gateway gets transfers of   *)
(* irreversible blocks only, in the order of the chain, each at most once  *)
(* in a run, with nothing left out within a block before one that is       *)
(* pushed except what was looked up by its id and not found.               *)
(***************************************************************************)
THEOREM StoreImplementsFeed == Spec => ImplementsConfirmedFeed
<1>1. Init => Feed!FeedInit
  <2> SUFFICES ASSUME Init PROVE Feed!FeedInit
    OBVIOUS
  <2>1. lib = 0 /\ TheFeed = <<>>
    BY EmptyFeed DEF Init, ManagerInit, TheFeed
  <2> QED BY <2>1 DEF Feed!FeedInit, TheFeed
<1> QED BY <1>1, ManagerInvInit, ManagerInvStep, StoreInvInit, StoreInvStep, FeedRefined, PTL
        DEF Spec, ImplementsConfirmedFeed, Feed!FeedSpec
====
