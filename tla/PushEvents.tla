----------------------------- MODULE PushEvents -----------------------------
(***************************************************************************)
(* Which transactions eoswatcher/eoswatchermain.go turns into events: the  *)
(* body of UpdateEOSPushEvent, that sees the packed transactions of a      *)
(* block, and GetEventByTxid, that looks one transaction up by its id and  *)
(* sees its action data as a JSON object.                                  *)
(*                                                                         *)
(* A token contract is a record of the fields of TokenContract.  A         *)
(* transaction is described by what the two functions test: whether the    *)
(* receipt has a packed body and the body unpacks, the number of actions,  *)
(* and the account, name, sender, receiver and quantity of the first one;  *)
(* "standard" says that the action data has the fields that go with the    *)
(* name.  Memo, amount and id are copied through and left out.             *)
(*                                                                         *)
(* The gateway's account is a field that UpdateGateway may set between any *)
(* two reads of it, so each operator takes the values that were read.      *)
(***************************************************************************)
EXTENDS Integers, Sequences

NoEvent == [answer |-> "none"]

SystemToken == "eosio.token"

(***************************************************************************)
(* The process-wide registry of action types.  eos-go registers those of   *)
(* eosio.token; the constructor registers, for every other contract of the *)
(* list and in its order, Solvent for the destroy name and then Issue for  *)
(* the create name, a later registration replacing an earlier one.         *)
(***************************************************************************)
Registers(contract, account, name) ==
  /\ contract.ActionAccount = account
  /\ account # SystemToken
  /\ name \in {contract.ActionNameDestroy, contract.ActionNameCreate}

SystemType(name) ==
  CASE name = "transfer" -> "Transfer" [] name = "issue" -> "Issue" [] OTHER -> "none"

RegisteredType(contracts, account, name) ==
  LET by == {i \in DOMAIN contracts : Registers(contracts[i], account, name)}
  IN IF by = {}
     THEN IF account = SystemToken THEN SystemType(name) ELSE "none"
     ELSE LET last == CHOOSE i \in by : \A j \in by : j <= i
          IN IF name = contracts[last].ActionNameCreate THEN "Issue" ELSE "Solvent"

(* The quantity has the symbol and precision of the contract entry.        *)
IsQuantityOf(contract, quantity) ==
  quantity.Precision = contract.Precision /\ quantity.Symbol = contract.Symbol

(***************************************************************************)
(* The typed data of an unpacked transaction, as the scan sees it: the     *)
(* cast succeeds only for the type that goes with the name, a transfer     *)
(* must be to the gateway, and there is no typed case for issue.           *)
(***************************************************************************)
TypedTransferAnyReceiver(tx, type, contract, gateway) == \* mutation: the receiver is not checked
  type = "Transfer" /\ IsQuantityOf(contract, tx.quantity)

TypedTransfer(tx, type, contract, gateway) ==
  type = "Transfer" /\ tx.to = gateway /\ IsQuantityOf(contract, tx.quantity)

TypedSolventForEOS(tx, type, contract) == \* mutation: the precision of EOS is expected
  type = "Solvent" /\ contract.Precision = 4 /\ IsQuantityOf(contract, tx.quantity)

TypedSolvent(tx, type, contract) ==
  type = "Solvent" /\ IsQuantityOf(contract, tx.quantity)

(***************************************************************************)
(* The JSON object of a transaction that was looked up.  A transfer is one *)
(* from or to the gateway: the field is read once for the sender and once  *)
(* more, if that fails, for the receiver.                                  *)
(***************************************************************************)
JSONTransfer(tx, contract, first, second) ==
  tx.standard /\ (tx.from = first \/ tx.to = second) /\ IsQuantityOf(contract, tx.quantity)

JSONSolvent(tx, contract) == tx.standard /\ IsQuantityOf(contract, tx.quantity)

JSONIssue(tx, contract) == tx.standard /\ IsQuantityOf(contract, tx.quantity)

(* ActionDataParse chooses by the action's name, on either representation. *)
ParsesTyped(tx, type, contract, gateway) ==
  \/ tx.name = "transfer" /\ TypedTransfer(tx, type, contract, gateway)
  \/ tx.name = "solvent" /\ TypedSolvent(tx, type, contract)

ParsesJSON(tx, contract, first, second) ==
  \/ tx.name = "transfer" /\ JSONTransfer(tx, contract, first, second)
  \/ tx.name = "solvent" /\ JSONSolvent(tx, contract)
  \/ tx.name = "issue" /\ JSONIssue(tx, contract)

EventFrom(tx) ==
  [answer |-> "event", Account |-> tx.account, Name |-> tx.name,
   Symbol |-> tx.quantity.Symbol, Precision |-> tx.quantity.Precision]

(* One turn of the loop of UpdateEOSPushEvent over the token contracts.    *)
Pushes(tx, contracts, i, gateway) ==
  /\ tx.packed /\ tx.unpacks /\ tx.standard
  /\ tx.actions = 1
  /\ tx.account = contracts[i].ActionAccount
  /\ tx.name = contracts[i].ActionNameDestroy
  /\ ParsesTyped(tx, RegisteredType(contracts, tx.account, tx.name), contracts[i], gateway)

(* The whole loop, for a gateway that does not change while it runs.       *)
UpdateEOSPushEvent(tx, contracts, gateway) ==
  IF \E i \in DOMAIN contracts : Pushes(tx, contracts, i, gateway) THEN EventFrom(tx) ELSE NoEvent

(***************************************************************************)
(* One turn of the loop of GetEventByTxid; a create action is an event     *)
(* here as well.                                                           *)
(***************************************************************************)
FindsAnyTransfer(tx, contracts, i, first, second) == \* mutation: the gateway need not take part
  /\ tx.actions = 1
  /\ tx.account = contracts[i].ActionAccount
  /\ tx.name \in {contracts[i].ActionNameDestroy, contracts[i].ActionNameCreate}
  /\ tx.standard /\ IsQuantityOf(contracts[i], tx.quantity)

Finds(tx, contracts, i, first, second) ==
  /\ tx.actions = 1
  /\ tx.account = contracts[i].ActionAccount
  /\ tx.name \in {contracts[i].ActionNameDestroy, contracts[i].ActionNameCreate}
  /\ ParsesJSON(tx, contracts[i], first, second)
=============================================================================
