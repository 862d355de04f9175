------------------------------- MODULE Token -------------------------------
(***************************************************************************)
(* The contract tools/contracts/eosio.token: create, issue and transfer on *)
(* two tables, the statistics per symbol name and the balances per owner   *)
(* and symbol name.  A failed eosio_assert undoes the whole transaction,   *)
(* the inline transfer of an issue included, so an action maps the tables  *)
(* to the set of tables it may leave: none when an assertion fails.        *)
(***************************************************************************)
EXTENDS Integers, FiniteSets, FiniteSetsExt

CONSTANTS
  Self,     (* the account of the contract                                   *)
  Existing, (* the other accounts of the chain                               *)
  Missing,  (* names of no account                                           *)
  Names,    (* symbol names                                                  *)
  Amounts   (* the amounts of the actions considered, among them bad ones    *)

Accounts == Existing \cup {Self}
Parties == Accounts \cup Missing
Symbols == [name : Names, precision : {4, 8}]
Assets == [symbol : Symbols, amount : Amounts]

ASSUME TokenAssumption ==
  /\ Self \notin Existing
  /\ Accounts \cap Missing = {}
  /\ IsFiniteSet(Accounts)
  /\ Amounts \subseteq Int

VARIABLES
  tables, (* [stat, accounts]: the rows of the two tables                    *)
  signer  (* history: who authorised the last transaction                    *)

vars == <<tables, signer>>

(* A missing row of stat is None, a missing balance is 0: sub_balance      *)
(* erases a row that would become 0.                                       *)
None == [issuer |-> Self, supply |-> 0, max_supply |-> 0, precision |-> 0]

IsSymbolOf(row, symbol) == row # None /\ row.precision = symbol.precision

(* add_balance and sub_balance.                                            *)
AddBalance(t, owner, quantity) ==
  {[t EXCEPT !.accounts[owner][quantity.symbol.name] = @ + quantity.amount]}

SubBalance(t, owner, quantity) ==
  LET have == t.accounts[owner][quantity.symbol.name]
  IN IF have > 0 /\ have >= quantity.amount
     THEN {[t EXCEPT !.accounts[owner][quantity.symbol.name] = have - quantity.amount]}
     ELSE {}

Create(t, auth, issuer, maximum) ==
  LET name == maximum.symbol.name
  IN IF auth = Self /\ maximum.amount > 0 /\ t.stat[name] = None
     THEN {[t EXCEPT !.stat[name] = [issuer |-> issuer, supply |-> 0, max_supply |-> maximum.amount,
                                     precision |-> maximum.symbol.precision]]}
     ELSE {}

TransferUnsigned(t, auth, from, to, quantity) == \* mutation: require_auth is missing
  LET row == t.stat[quantity.symbol.name]
  IN IF from # to /\ to \in Accounts /\ quantity.amount > 0 /\ IsSymbolOf(row, quantity.symbol)
     THEN UNION {AddBalance(u, to, quantity) : u \in SubBalance(t, from, quantity)}
     ELSE {}

Transfer(t, auth, from, to, quantity) ==
  LET row == t.stat[quantity.symbol.name]
  IN IF /\ from # to
        /\ auth = from
        /\ to \in Accounts
        /\ quantity.amount > 0
        /\ IsSymbolOf(row, quantity.symbol)
     THEN UNION {AddBalance(u, to, quantity) : u \in SubBalance(t, from, quantity)}
     ELSE {}

(* The quantity goes to the issuer, and an inline transfer moves it on.    *)
IssueTwice(t, auth, to, quantity) == \* mutation: the issuer keeps what the inline transfer moves
  LET row == t.stat[quantity.symbol.name]
  IN IF row # None /\ auth = row.issuer /\ quantity.amount > 0 /\ IsSymbolOf(row, quantity.symbol)
        /\ quantity.amount <= row.max_supply - row.supply
     THEN UNION {AddBalance(u, to, quantity) : u \in
            AddBalance([t EXCEPT !.stat[quantity.symbol.name].supply = @ + quantity.amount],
                       row.issuer, quantity)}
     ELSE {}

IssueWithoutLimit(t, auth, to, quantity) == \* mutation: the maximum is compared with the quantity alone
  LET row == t.stat[quantity.symbol.name]
  IN IF row # None /\ auth = row.issuer /\ quantity.amount > 0 /\ IsSymbolOf(row, quantity.symbol)
        /\ quantity.amount <= row.max_supply
     THEN AddBalance([t EXCEPT !.stat[quantity.symbol.name].supply = @ + quantity.amount],
                     row.issuer, quantity)
     ELSE {}

Issue(t, auth, to, quantity) ==
  LET row == t.stat[quantity.symbol.name]
      issued == [t EXCEPT !.stat[quantity.symbol.name].supply = @ + quantity.amount]
  IN IF /\ row # None
        /\ auth = row.issuer
        /\ quantity.amount > 0
        /\ IsSymbolOf(row, quantity.symbol)
        /\ quantity.amount <= row.max_supply - row.supply
     THEN IF to = row.issuer
          THEN AddBalance(issued, row.issuer, quantity)
          ELSE UNION {Transfer(u, row.issuer, row.issuer, to, quantity) :
                        u \in AddBalance(issued, row.issuer, quantity)}
     ELSE {}

-----------------------------------------------------------------------------
Init ==
  /\ tables = [stat |-> [n \in Names |-> None],
               accounts |-> [a \in Accounts |-> [n \in Names |-> 0]]]
  /\ signer = Self

(* A transaction of one action, authorised by one account.                 *)
Commit(auth, results) ==
  /\ tables' \in results
  /\ signer' = auth

TokenNext ==
  \E auth \in Accounts : \E quantity \in Assets :
    \/ \E issuer \in Accounts : Commit(auth, Create(tables, auth, issuer, quantity))
    \/ \E to \in Parties : Commit(auth, Issue(tables, auth, to, quantity))
    \/ \E from \in Accounts : \E to \in Parties : Commit(auth, Transfer(tables, auth, from, to, quantity))

-----------------------------------------------------------------------------
Rows == [issuer : Accounts, supply : Nat, max_supply : Nat, precision : {0, 4, 8}]

TypeOK ==
  /\ tables \in [stat : [Names -> Rows], accounts : [Accounts -> [Names -> Nat]]]
  /\ signer \in Accounts

(***************************************************************************)
(* Supply and balances are kept in separate rows by separate helpers, and  *)
(* an issue touches them in two actions: the supply of a token is always   *)
(* the sum of its balances, and never above the maximum.                   *)
(***************************************************************************)
Held(balances, n) == MapThenSumSet(LAMBDA a : balances[a][n], Accounts)

SupplyIsSum == \A n \in Names : tables.stat[n].supply = Held(tables.accounts, n)

SupplyWithinMaximum == \A n \in Names : tables.stat[n].supply <= tables.stat[n].max_supply

(***************************************************************************)
(* A balance shrinks only in a transaction its owner authorised, whatever  *)
(* inline actions are run.                                                 *)
(***************************************************************************)
OnlyOwnerPays ==
  [][\A a \in Accounts : \A n \in Names :
       tables'.accounts[a][n] < tables.accounts[a][n] => a = signer']_vars
=============================================================================
