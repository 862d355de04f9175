----------------------------- MODULE XinPlayer -----------------------------
(***************************************************************************)
(* The contract tools/contracts/xinplayer: accounts with a balance, videos *)
(* and orders.  Integers keep their width: a balance is a uint64, profit,  *)
(* expense and a video's count of orders are uint32, and so are the        *)
(* amounts of createtoken and destroytoken and the prices.  Every action   *)
(* is one transaction: a failed assertion leaves the tables as they were.  *)
(*                                                                         *)
(* Account names and video hashes are sequences of letters, because an     *)
(* order's id is the hash of their concatenation.  The hash itself, the    *)
(* first 64 bits of a sha256, is taken to be injective.                    *)
(***************************************************************************)
EXTENDS Integers, Sequences, FiniteSets, FiniteSetsExt

CONSTANTS
  Gateway,   (* the account dgateway1111                                     *)
  Users,     (* the other accounts of the chain                              *)
  Hashes,    (* the ipfs hashes of the videos considered                     *)
  Prices,    (* the prices and the amounts of the actions considered         *)
  Wide,      (* 2^64 in the code                                             *)
  Narrow,    (* 2^32 in the code                                             *)
  MaxIssued  (* how much is ever issued (bound)                              *)

Signers == Users \cup {Gateway}

XinAssumption ==
  /\ Narrow \in Nat \ {0} /\ Wide \in Nat /\ Narrow <= Wide
  /\ Prices \subseteq 0 .. Narrow - 1
  /\ MaxIssued \in Nat
  /\ IsFiniteSet(Users) /\ Signers \subseteq Seq(STRING) /\ Hashes \subseteq Seq(STRING)

VARIABLES
  accounts, (* account_table: user -> row, or NoRow                          *)
  videos,   (* video_table: hash -> row, or NoRow                            *)
  orders,   (* order_table: a set of rows                                    *)
  issued    (* history: the sum of what was issued                           *)

vars == <<accounts, videos, orders, issued>>

NoRow == [none |-> TRUE]

gen_video_id(data) == data

OrderId(buyer, hash) == gen_video_id(buyer \o hash)

HasAccount(user) == accounts[user] # NoRow

(* modify: a balance and a total keep their width.                         *)
Pay(balances, user, amount) == [balances EXCEPT ![user].balance = (@ - amount + Wide) % Wide]
Gain(balances, user, amount) == [balances EXCEPT ![user].balance = (@ + amount) % Wide]

-----------------------------------------------------------------------------
issue(amount) ==
  /\ HasAccount(Gateway)
  /\ issued + amount <= MaxIssued
  /\ accounts' = Gain(accounts, Gateway, amount)
  /\ issued' = issued + amount
  /\ UNCHANGED <<videos, orders>>

createtoken(user, amount) ==
  /\ HasAccount(Gateway) /\ HasAccount(user)
  /\ accounts[Gateway].balance >= amount
  /\ accounts' = Gain(Pay(accounts, Gateway, amount), user, amount)
  /\ UNCHANGED <<videos, orders, issued>>

destroytoken(user, amount) ==
  /\ HasAccount(user) /\ HasAccount(Gateway)
  /\ accounts[user].balance >= amount
  /\ accounts' = Pay(Gain(accounts, Gateway, amount), user, amount)
  /\ UNCHANGED <<videos, orders, issued>>

newaccount(user) ==
  /\ ~ HasAccount(user)
  /\ accounts' = [accounts EXCEPT ![user] = [balance |-> 0, profit |-> 0, expense |-> 0]]
  /\ UNCHANGED <<videos, orders, issued>>

(* The publisher needs no account of the contract.                         *)
publishvideo(publisher, hash, price) ==
  /\ videos[hash] = NoRow
  /\ videos' = [videos EXCEPT ![hash] = [user |-> publisher, price |-> price, orders |-> 0]]
  /\ UNCHANGED <<accounts, orders, issued>>

(* Buyer and publisher may be the same account; both rows are then one.    *)
buyvideoStale(buyer, hash) == \* mutation: the publisher's row is written from the value read before
  LET video == videos[hash]
      id == OrderId(buyer, hash)
  IN /\ video # NoRow
     /\ \A order \in orders : order.id # id
     /\ HasAccount(buyer) /\ HasAccount(video.user)
     /\ accounts[buyer].balance >= video.price
     /\ orders' = orders \cup {[id |-> id, video |-> hash, user |-> buyer]}
     /\ videos' = [videos EXCEPT ![hash].orders = (@ + 1) % Narrow]
     /\ accounts' =
          [Pay([accounts EXCEPT ![buyer].expense = (@ + video.price) % Narrow], buyer, video.price)
             EXCEPT ![video.user] =
               [accounts[video.user] EXCEPT !.profit = (@ + video.price) % Narrow,
                                            !.balance = (@ + video.price) % Wide]]
     /\ UNCHANGED issued

buyvideo(buyer, hash) ==
  LET video == videos[hash]
      id == OrderId(buyer, hash)
  IN /\ video # NoRow
     /\ \A order \in orders : order.id # id
     /\ HasAccount(buyer)
     /\ accounts[buyer].balance >= video.price
     /\ HasAccount(video.user)
     /\ orders' = orders \cup {[id |-> id, video |-> hash, user |-> buyer]}
     /\ videos' = [videos EXCEPT ![hash].orders = (@ + 1) % Narrow]
     /\ accounts' =
          LET paid == [Pay(accounts, buyer, video.price)
                         EXCEPT ![buyer].expense = (@ + video.price) % Narrow]
          IN [Gain(paid, video.user, video.price)
                EXCEPT ![video.user].profit = (@ + video.price) % Narrow]
     /\ UNCHANGED issued

-----------------------------------------------------------------------------
Init ==
  /\ accounts = [user \in Signers |-> NoRow]
  /\ videos = [hash \in Hashes |-> NoRow]
  /\ orders = {}
  /\ issued = 0

(* issue and createtoken need the gateway's authority, the others the      *)
(* user's; who that is, is the user they name.                             *)
Next ==
  \/ \E amount \in Prices : issue(amount)
  \/ \E user \in Signers : \E amount \in Prices : createtoken(user, amount)
  \/ \E user \in Signers : \E amount \in Prices : destroytoken(user, amount)
  \/ \E user \in Signers : newaccount(user)
  \/ \E user \in Signers : \E hash \in Hashes : \E price \in Prices : publishvideo(user, hash, price)
  \/ \E user \in Signers : \E hash \in Hashes : buyvideo(user, hash)

Spec == Init /\ [][Next]_vars

-----------------------------------------------------------------------------
Holders == {user \in Signers : HasAccount(user)}

Sum(value(_)) == MapThenSumSet(value, Holders)

TypeOK ==
  /\ \A user \in Signers :
       accounts[user] = NoRow \/
       accounts[user] \in [balance : 0 .. Wide - 1, profit : 0 .. Narrow - 1, expense : 0 .. Narrow - 1]
  /\ \A hash \in Hashes :
       videos[hash] = NoRow \/
       videos[hash] \in [user : Signers, price : 0 .. Narrow - 1, orders : 0 .. Narrow - 1]
  /\ orders \subseteq [id : Seq(STRING), video : Hashes, user : Signers]
  /\ issued \in 0 .. MaxIssued

(***************************************************************************)
(* Tokens move between accounts and only issue makes new ones: while less  *)
(* than 2^64 has been issued the balances sum to it, so that no balance    *)
(* can wrap, and after that they do so modulo 2^64.                        *)
(***************************************************************************)
BalancesSumToIssued ==
  LET total == Sum(LAMBDA user : accounts[user].balance)
  IN IF issued < Wide THEN total = issued ELSE total % Wide = issued % Wide

(* What buyers have spent is what publishers have earned, on uint32 totals  *)
(* that both wrap, also for a publisher who buys from himself.             *)
ProfitsAreExpenses ==
  Sum(LAMBDA user : accounts[user].profit) % Narrow
    = Sum(LAMBDA user : accounts[user].expense) % Narrow

(* A video's counter is the number of its rows in the order table.         *)
OrdersAreCounted ==
  \A hash \in Hashes : videos[hash] # NoRow =>
    videos[hash].orders = Cardinality({order \in orders : order.video = hash}) % Narrow
=============================================================================
