--------------------------- MODULE ActionBuilding ---------------------------
(***************************************************************************)
(* The actions that the watchers build for a gateway.  An action is the    *)
(* contract's account, the action's name, the account that authorises it   *)
(* and its data; memos and the permission, always active, are left out.    *)
(* Fields that a data type does not have are Nobody.                       *)
(***************************************************************************)
EXTENDS Integers

CONSTANT Gateway

Nobody == "nobody"

Quantity(amount, precision, symbol) ==
  [amount |-> amount, symbol |-> [name |-> symbol, precision |-> precision]]

BuiltAction(account, name, auth, from, to, quantity) ==
  [account |-> account, name |-> name, auth |-> auth, from |-> from, to |-> to, quantity |-> quantity]

-----------------------------------------------------------------------------
(* EOSWatcherMain: account, precision and symbol are arguments.            *)
CreateTransferActionDispatcher(account, from, to, amount, precision, symbol) ==
  BuiltAction(account, "transfer", from, from, to, Quantity(amount, precision, symbol))

CreateTransferAction(from, to, amount) ==
  CreateTransferActionDispatcher("eosio.token", from, to, amount, 4, "EOS")

CreateCreateAction(account, issuer, amount, precision, symbol) ==
  BuiltAction(account, "create", Gateway, Nobody, issuer, Quantity(amount, precision, symbol))

CreateIssueActionDispatcher(account, to, amount, precision, symbol) ==
  BuiltAction(account, "issue", Gateway, Nobody, to, Quantity(amount, precision, symbol))

CreateIssueAction(account, to, amount, symbol) ==
  CreateIssueActionDispatcher(account, to, amount, 8, symbol)

CreateSolventAction(account, from, amount, precision, symbol) ==
  BuiltAction(account, "solvent", from, from, Nobody, Quantity(amount, precision, symbol))

-----------------------------------------------------------------------------
(* EOSWatcherContract: they are the watcher's fields.                      *)
ContractTransfer(ew, from, to, amount) ==
  BuiltAction(ew.ActionAccount, "transfer", from, from, to, Quantity(amount, ew.Precision, ew.Symbol))

ContractCreate(ew, issuer, amount) ==
  BuiltAction(ew.ActionAccount, "create", Gateway, Nobody, issuer,
              Quantity(amount, ew.Precision, ew.Symbol))

ContractIssue(ew, to, amount) ==
  BuiltAction(ew.ActionAccount, "issue", Gateway, Nobody, to, Quantity(amount, ew.Precision, ew.Symbol))

ContractSolvent(ew, from, amount) ==
  BuiltAction(ew.ActionAccount, "solvent", from, from, Nobody, Quantity(amount, ew.Precision, ew.Symbol))

-----------------------------------------------------------------------------
(* EOSWatcher: a transfer of EOS under any account and action name.        *)
FirstTransfer(account, name, from, to, amount) ==
  BuiltAction(account, name, from, from, to, Quantity(amount, 4, "EOS"))
=============================================================================
