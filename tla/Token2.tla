------------------------------- MODULE Token2 -------------------------------
(***************************************************************************)
(* The contract tools/contracts/eosio.token2: the token with one action    *)
(* more, solvent, by which an owner destroys tokens.  It is the action the *)
(* watchers report to the gateway.                                         *)
(***************************************************************************)
EXTENDS Token

SolventOnlyBalance(t, auth, from, quantity) == \* mutation: the supply is not reduced
  LET row == t.stat[quantity.symbol.name]
  IN IF auth = from /\ quantity.amount > 0 /\ IsSymbolOf(row, quantity.symbol)
        /\ quantity.amount <= row.supply
     THEN SubBalance(t, from, quantity)
     ELSE {}

Solvent(t, auth, from, quantity) ==
  LET row == t.stat[quantity.symbol.name]
  IN IF /\ row # None
        /\ auth = from
        /\ quantity.amount > 0
        /\ IsSymbolOf(row, quantity.symbol)
        /\ quantity.amount <= row.supply
     THEN SubBalance([t EXCEPT !.stat[quantity.symbol.name].supply = @ - quantity.amount], from, quantity)
     ELSE {}

Next ==
  \/ TokenNext
  \/ \E auth \in Accounts : \E from \in Accounts : \E quantity \in Assets :
       Commit(auth, Solvent(tables, auth, from, quantity))

Spec == Init /\ [][Next]_vars
=============================================================================
