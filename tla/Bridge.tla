------------------------------- MODULE Bridge -------------------------------
(***************************************************************************)
(* The round trip of a pegged token: actions built by a watcher or by a    *)
(* user are executed by the token contracts, eosio.token for EOS and the   *)
(* contract eosio.token2 that the gateway deployed on its own account, and *)
(* the scan of EOSWatcherMain reports deposits and destructions to the     *)
(* gateway.  This composes ActionBuilding, Token2 and PushEvents.          *)
(*                                                                         *)
(* A transaction is known by its id, here its place in "transactions", and *)
(* blocks list receipts, with the transaction or with its id alone.  One   *)
(* with a delay is listed in full before it is executed, if it ever is,    *)
(* and by id when it is: the scan looks at the body and not at the status  *)
(* of a receipt.  The gateway's account stays the one it was deployed with *)
(* (EventLookup has it change), and what a restart loses of the events is  *)
(* BlockScan's; that it reports some again is here.                        *)
(***************************************************************************)
EXTENDS ActionBuilding, Sequences, FiniteSets, FiniteSetsExt

CONSTANTS
  Users,     (* the accounts other than the gateway and eosio.token          *)
  Wrapped,   (* the entry of the pegged token in the watcher's list          *)
  Amounts,   (* the amounts used                                             *)
  MaxTxs     (* number of transactions considered (bound of the model)       *)

SystemToken == "eosio.token"

EOS == [ActionAccount |-> SystemToken, ActionNameDestroy |-> "transfer",
        ActionNameCreate |-> "transfer", Symbol |-> "EOS", Precision |-> 4]

Watched == <<EOS, Wrapped>>

Tokens == {"EOS", Wrapped.Symbol}
Holders == Users \cup {Gateway}
Everybody == Holders \cup {SystemToken}

(* The pegged token is eosio.token2 on the gateway's account.              *)
BridgeAssumption ==
  /\ Wrapped.ActionAccount = Gateway
  /\ Wrapped.ActionNameDestroy = "solvent" /\ Wrapped.ActionNameCreate = "issue"
  /\ Wrapped.Precision \in {4, 8}
  /\ {Gateway, SystemToken} \cap Users = {} /\ IsFiniteSet(Users)
  /\ Gateway # SystemToken
  /\ Amounts \subseteq Nat /\ MaxTxs \in Nat

VARIABLES
  ledgers,      (* per contract the tables it keeps                          *)
  transactions, (* those that a node accepted: their actions and their kind  *)
  executed,     (* the ids of those that were executed                       *)
  receipts,     (* what the blocks list, in their order: [id, packed]        *)
  position,     (* how many of the receipts the scan has come to             *)
  reported,     (* the ids that events sent to the gateway carry             *)
  (* history *)
  done,         (* executed actions of each kind: how much they moved        *)
  missed        (* ids of watcher-built destructions that got no event       *)

vars == <<ledgers, transactions, executed, receipts, position, reported, done, missed>>

(* The two contracts.  Their operators map tables to tables.               *)
Sys == INSTANCE Token WITH
         Self <- SystemToken, Existing <- Holders, Missing <- {Nobody}, Names <- Tokens,
         tables <- ledgers[SystemToken], signer <- SystemToken
Peg == INSTANCE Token2 WITH
         Self <- Gateway, Existing <- Users \cup {SystemToken}, Missing <- {Nobody}, Names <- Tokens,
         tables <- ledgers[Gateway], signer <- Gateway

Events == INSTANCE PushEvents

(* What executing one action may leave of the ledgers.                     *)
ExecuteSystem(l, a) ==
  {[l EXCEPT ![SystemToken] = t] : t \in
     CASE a.name = "create" -> Sys!Create(l[SystemToken], a.auth, a.to, a.quantity)
       [] a.name = "issue" -> Sys!Issue(l[SystemToken], a.auth, a.to, a.quantity)
       [] a.name = "transfer" -> Sys!Transfer(l[SystemToken], a.auth, a.from, a.to, a.quantity)
       [] OTHER -> {}}

ExecutePeg(l, a) ==
  {[l EXCEPT ![Gateway] = t] : t \in
     CASE a.name = "create" -> Peg!Create(l[Gateway], a.auth, a.to, a.quantity)
       [] a.name = "issue" -> Peg!Issue(l[Gateway], a.auth, a.to, a.quantity)
       [] a.name = "transfer" -> Peg!Transfer(l[Gateway], a.auth, a.from, a.to, a.quantity)
       [] a.name = "solvent" -> Peg!Solvent(l[Gateway], a.auth, a.from, a.quantity)
       [] OTHER -> {}}

Execute(l, a) ==
  IF a.account = SystemToken THEN ExecuteSystem(l, a)
  ELSE IF a.account = Gateway THEN ExecutePeg(l, a) ELSE {}

-----------------------------------------------------------------------------
(* EOS exists and is in the hands of the users.                            *)
Supply == 2

InitialLedgers ==
  [self \in {SystemToken, Gateway} |->
     [stat |-> [n \in Tokens |->
        IF self = SystemToken /\ n = "EOS"
        THEN [issuer |-> SystemToken, supply |-> Supply * Cardinality(Users),
              max_supply |-> Supply * Cardinality(Users), precision |-> 4]
        ELSE [issuer |-> self, supply |-> 0, max_supply |-> 0, precision |-> 0]],
      accounts |-> [a \in Everybody |-> [n \in Tokens |->
        IF self = SystemToken /\ n = "EOS" /\ a \in Users THEN Supply ELSE 0]]]]

Init ==
  /\ ledgers = InitialLedgers
  /\ transactions = <<>> /\ executed = {}
  /\ receipts = <<>> /\ position = 0
  /\ reported = {} /\ missed = {}
  /\ done = [deposited |-> 0, issued |-> 0, destroyed |-> 0]

(* What the watchers build; the gateway chooses the arguments.             *)
BuiltByMain ==
  {CreateTransferAction(f, t, n) : f \in Holders, t \in Holders, n \in Amounts}
  \cup {CreateTransferActionDispatcher(Gateway, f, t, n, Wrapped.Precision, Wrapped.Symbol) :
           f \in Holders, t \in Holders, n \in Amounts}
  \cup {CreateCreateAction(Gateway, i, 2 * n, p, Wrapped.Symbol) :
           i \in Holders, n \in Amounts, p \in {4, 8}}
  \cup {CreateIssueAction(Gateway, t, n, Wrapped.Symbol) : t \in Holders, n \in Amounts}
  \cup {CreateIssueActionDispatcher(Gateway, t, n, 4, Wrapped.Symbol) : t \in Holders, n \in Amounts}
  \cup {CreateSolventAction(Gateway, f, n, p, Wrapped.Symbol) :
           f \in Users, n \in Amounts, p \in {4, 8}}

BuiltByContract ==
  {ContractTransfer(Wrapped, f, t, n) : f \in Holders, t \in Holders, n \in Amounts}
  \cup {ContractCreate(Wrapped, i, 2 * n) : i \in Holders, n \in Amounts}
  \cup {ContractIssue(Wrapped, t, n) : t \in Holders, n \in Amounts}
  \cup {ContractSolvent(Wrapped, f, n) : f \in Users, n \in Amounts}

BuiltByFirst == {FirstTransfer(SystemToken, "transfer", f, t, n) : f \in Users, t \in Holders, n \in Amounts}

(* How much of a kind the actions of a transaction moved.                  *)
Moved(actions, test(_)) ==
  LET amount(k) == IF k \in DOMAIN actions /\ test(actions[k]) THEN actions[k].quantity.amount ELSE 0
  IN amount(1) + amount(2)

IsDeposit(a) == a.account = SystemToken /\ a.name = "transfer" /\ a.to = Gateway
IsIssue(a) == a.account = Gateway /\ a.name = "issue"
IsDestruction(a) == a.account = Gateway /\ a.name = "solvent"

(* A transaction of one or two actions is executed as a whole.             *)
Run(id, actions) ==
  /\ \E l \in UNION {IF Len(actions) = 1 THEN {m} ELSE Execute(m, actions[2]) :
                       m \in Execute(ledgers, actions[1])} :
       ledgers' = l
  /\ executed' = executed \cup {id}
  /\ done' = [deposited |-> done.deposited + Moved(actions, IsDeposit),
              issued |-> done.issued + Moved(actions, IsIssue),
              destroyed |-> done.destroyed + Moved(actions, IsDestruction)]

NextId == Len(transactions) + 1

(* A new transaction, and a receipt of it.                                 *)
Accept(actions, kind) ==
  /\ NextId <= MaxTxs
  /\ transactions' = Append(transactions, [actions |-> actions, kind |-> kind])
  /\ receipts' = Append(receipts, [id |-> NextId, packed |-> kind # "deferred"])
  /\ UNCHANGED <<position, reported, missed>>

SubmitBuilt ==
  \E a \in BuiltByMain \cup BuiltByContract \cup BuiltByFirst :
    Accept(<<a>>, "built") /\ Run(NextId, <<a>>)

(* A user puts two actions into one transaction.                           *)
SubmitTwo ==
  \E a, b \in BuiltByContract :
    /\ a.name = "solvent" /\ a.auth = b.auth
    /\ Accept(<<a, b>>, "two") /\ Run(NextId, <<a, b>>)

(* A contract sends the action in a transaction of its own, that its block *)
(* lists by id.                                                            *)
SubmitDeferred ==
  \E a \in BuiltByContract \cup BuiltByFirst : Accept(<<a>>, "deferred") /\ Run(NextId, <<a>>)

(* A user asks for a delay: listed now, in full, and executed later ...    *)
SubmitDelayed ==
  /\ \E a \in BuiltByContract \cup BuiltByFirst : a.auth \in Users /\ Accept(<<a>>, "delayed")
  /\ UNCHANGED <<ledgers, executed, done>>

(* ... listed by id, unless it is cancelled or fails.                      *)
ExecuteDelayed ==
  /\ \E id \in DOMAIN transactions \ executed :
       /\ transactions[id].kind = "delayed"
       /\ Run(id, transactions[id].actions)
       /\ receipts' = Append(receipts, [id |-> id, packed |-> FALSE])
  /\ UNCHANGED <<transactions, position, reported, missed>>

(* The scan reaches the next receipt; the event carries its id and amount. *)
Seen(receipt, tx) ==
  LET a == tx.actions[1]
  IN [packed |-> receipt.packed, unpacks |-> TRUE, standard |-> TRUE, actions |-> Len(tx.actions),
      account |-> a.account, name |-> a.name, from |-> a.from, to |-> a.to,
      quantity |-> [Symbol |-> a.quantity.symbol.name, Precision |-> a.quantity.symbol.precision]]

IsEvent(receipt, tx) ==
  Events!UpdateEOSPushEvent(Seen(receipt, tx), Watched, Gateway).answer = "event"

(* A destruction that a watcher built, in the precision of the entry.      *)
Expected(tx) ==
  /\ tx.kind = "built" /\ IsDestruction(tx.actions[1])
  /\ tx.actions[1].quantity.symbol.precision = Wrapped.Precision

Scan ==
  /\ position < Len(receipts)
  /\ position' = position + 1
  /\ LET receipt == receipts[position']
         tx == transactions[receipt.id]
         event == IsEvent(receipt, tx)
     IN /\ reported' = IF event THEN reported \cup {receipt.id} ELSE reported
        /\ missed' = IF ~ event /\ Expected(tx) THEN missed \cup {receipt.id} ELSE missed
  /\ UNCHANGED <<ledgers, transactions, executed, receipts, done>>

(* The watcher starts again at the block it wrote to its database, that it *)
(* may have reported already, or at an earlier one if writes failed.       *)
Restart ==
  /\ position' \in 0 .. position - 1
  /\ UNCHANGED <<ledgers, transactions, executed, receipts, reported, done, missed>>

Next ==
  \/ SubmitBuilt \/ SubmitTwo \/ SubmitDeferred \/ SubmitDelayed \/ ExecuteDelayed
  \/ Scan \/ Restart

Spec == Init /\ [][Next]_vars

-----------------------------------------------------------------------------
Kinds == {"built", "two", "deferred", "delayed"}

TypeOK ==
  /\ Sys!TypeOK
  /\ Peg!TypeOK
  /\ \A id \in DOMAIN transactions : transactions[id].kind \in Kinds
  /\ position \in 0 .. Len(receipts)
  /\ executed \cup reported \cup missed \subseteq DOMAIN transactions
  /\ done \in [deposited : Nat, issued : Nat, destroyed : Nat]

(* What the events for executed transactions of a contract tell to pay,    *)
(* an id being paid for once however often it is reported.                 *)
EventAmounts(self) ==
  [id \in DOMAIN transactions |->
     LET a == transactions[id].actions[1] IN IF a.account = self THEN a.quantity.amount ELSE 0]

Told(self) == MapThenSumSet(LAMBDA id : EventAmounts(self)[id], reported \cap executed)

(***************************************************************************)
(* The peg, for a gateway that pays once for each id and not before the    *)
(* transaction was executed: what is outstanding of the token and what the *)
(* gateway was told to pay out for never add up to more than was issued,   *)
(* whoever calls what, however it is packed, and across restarts of the    *)
(* watcher.                                                                *)
(***************************************************************************)
PegHolds == ledgers[Gateway].stat[Wrapped.Symbol].supply + Told(Gateway) <= done.issued

(***************************************************************************)
(* The gateway is told of no more EOS than it was sent.                    *)
(***************************************************************************)
DepositsAreReal ==
  Told(SystemToken) <= done.deposited
    /\ done.deposited >= ledgers[SystemToken].accounts[Gateway]["EOS"]

(***************************************************************************)
(* The gateway can rely on an event without waiting, except for a          *)
(* transaction that its sender delayed: nothing in an event tells it.      *)
(***************************************************************************)
OnlyDelayedAreEarly ==
  \A id \in reported \ executed : transactions[id].kind = "delayed"

(***************************************************************************)
(* A destruction that a watcher built in a transaction of its own, in the  *)
(* precision of the watched entry, and that the contract accepted, is      *)
(* reported whenever the scan passes it: builder, contract and parser      *)
(* agree on account, name, symbol and authority.                           *)
(***************************************************************************)
BuiltIsReported == missed = {}
=============================================================================
