----------------------------- MODULE ChainProofs -----------------------------
(***************************************************************************)
(* What TLAPS proves of the programs of MCChain, for every value of the    *)
(* constants and each in a part of its own:                                *)
(*                                                                         *)
(*   the token contract, of which Credited says what add_balance and       *)
(*     sub_balance leave and Sound what any action does to the tables;     *)
(*   the peg, whose invariant PegInv bounds what the executed              *)
(*     transactions tell the gateway to pay, each once (Backed);           *)
(*   the video contract, whose totals follow every write of a field        *)
(*     (Shifts) up to what has wrapped (Ledger);                           *)
(*   and the two ways to learn of a transaction.                           *)
(***************************************************************************)
EXTENDS MCChain, Sequences, FiniteSums, SequenceTheorems

-----------------------------------------------------------------------------
(***************************************************************************)
(* The token contract.                                                     *)
(***************************************************************************)
(* The balances of one name, whose sum is Held.                            *)
Balances(f, n) == [a \in Accounts |-> f[a][n]]

LEMMA HeldIsSum ==
  ASSUME NEW f, NEW n
  PROVE  Held(f, n) = SumOver(Balances(f, n), Accounts)
<1> DEFINE w == Balances(f, n)
           F(g) == [s \in SUBSET Accounts |-> IF s = {} THEN 0 ELSE f[One(s)][n] + g[s \ {One(s)}]]
           G == CHOOSE g : g = F(g)
<1>1. Held(f, n) = G[Accounts]
  BY Zenon DEF Held, MapThenSumSet, MapThenFoldSet, One
<1>2. \A g : F(g) = [s \in SUBSET Accounts |-> SumStep(g, w, s)]
  <2>1. \A s \in SUBSET Accounts : s # {} => One(s) \in Accounts
    BY DEF One
  <2> QED BY <2>1 DEF SumStep, Balances
<1> HIDE DEF F, w
<1>3. G = F(G)
  <2>1. PICK g : IsSum(g, w, SUBSET Accounts)
    BY SumExists, TokenAssumption
  <2>2. g = F(g)
    BY <1>2, <2>1 DEF IsSum
  <2> QED BY <2>2
<1> HIDE DEF G
<1>4. Sums(G, w, Accounts)
  <2>1. G = [s \in SUBSET Accounts |-> SumStep(G, w, s)]
    BY <1>2, <1>3
  <2> QED BY <2>1, Zenon DEF Sums
<1> QED BY <1>1, <1>4, SumIsRounds, TokenAssumption DEF w

(* f2 differs from f by d, at x alone.                                     *)
Differ(f, f2, n, x, d) ==
  \A a \in Accounts : f[a][n] \in Int /\ f2[a][n] = f[a][n] + (IF a = x THEN d ELSE 0)

(* The sum follows a change of one balance.                                *)
LEMMA HeldChanges ==
  ASSUME NEW n, NEW f, NEW f2, NEW x \in Accounts, NEW d \in Int, Differ(f, f2, n, x, d)
  PROVE  /\ Held(f, n) \in Int
         /\ Held(f2, n) = Held(f, n) + d
<1> DEFINE w == Balances(f, n)
           v == Balances(f2, n)
<1>1. \A a \in Accounts : w[a] \in Int /\ v[a] = w[a] + (IF a = x THEN d ELSE 0)
  BY DEF Differ, Balances
<1>2. Held(f, n) = SumOver(w, Accounts) /\ Held(f2, n) = SumOver(v, Accounts)
  BY HeldIsSum
<1> HIDE DEF w, v
<1> QED BY <1>1, <1>2, SumChange, TokenAssumption

LEMMA HeldZero ==
  ASSUME NEW n, NEW f, \A a \in Accounts : f[a][n] = 0
  PROVE  Held(f, n) = 0
<1> DEFINE w == Balances(f, n)
<1>1. \A a \in Accounts : w[a] \in Int /\ (a \notin {} => w[a] = 0)
  BY DEF Balances
<1>2. Held(f, n) = SumOver(w, Accounts)
  BY HeldIsSum
<1> HIDE DEF w
<1>3. SumOver(w, Accounts) = SumOver(w, Accounts \cap {}) /\ Accounts \cap {} = {}
  BY <1>1, SumSupport, TokenAssumption
<1> QED BY <1>2, <1>3, SumEmpty

(* The tables the contract can leave.                                      *)
Tables == [stat : [Names -> Rows], accounts : [Accounts -> [Names -> Nat]]]

(* The two invariants, of any tables.                                      *)
Capped(t) == \A n \in Names : t.stat[n].supply <= t.stat[n].max_supply

Balanced(t) == \A n \in Names : t.stat[n].supply = Held(t.accounts, n)

(* The inductive invariant.                                                *)
TokenInv == tables \in Tables /\ signer \in Accounts /\ Balanced(tables) /\ Capped(tables)

(* Only the rows of the accounts in payers lose.                           *)
PaidBy(t, u, payers) ==
  \A a \in Accounts : \A n \in Names : u.accounts[a][n] < t.accounts[a][n] => a \in payers

(* What add_balance, sub_balance and the changes of stat leave.            *)
Credited(t, u, owner, name, d) ==
  /\ u \in Tables /\ u.stat = t.stat
  /\ \A a \in Accounts : \A n \in Names :
       u.accounts[a][n] = t.accounts[a][n] + (IF a = owner /\ n = name THEN d ELSE 0)
  /\ \A n \in Names : /\ Held(t.accounts, n) \in Int
                      /\ Held(u.accounts, n) = Held(t.accounts, n) + (IF n = name THEN d ELSE 0)

LEMMA CreditedFacts ==
  ASSUME NEW t \in Tables, NEW owner \in Accounts, NEW name \in Names, NEW v \in Nat,
         NEW u, u = [t EXCEPT !.accounts[owner][name] = v]
  PROVE  Credited(t, u, owner, name, v - t.accounts[owner][name])
<1> DEFINE d == v - t.accounts[owner][name]
<1>1. /\ t.stat \in [Names -> Rows] /\ t.accounts \in [Accounts -> [Names -> Nat]]
      /\ t = [stat |-> t.stat, accounts |-> t.accounts]
  BY DEF Tables
<1>2. u = [stat |-> t.stat, accounts |-> [t.accounts EXCEPT ![owner][name] = v]]
  BY <1>1
<1>3. u \in Tables /\ u.stat = t.stat
  <2>1. [t.accounts EXCEPT ![owner][name] = v] \in [Accounts -> [Names -> Nat]]
    BY <1>1
  <2> QED BY <1>1, <1>2, <2>1 DEF Tables
<1>4. \A a \in Accounts : \A n \in Names :
        /\ t.accounts[a][n] \in Nat
        /\ u.accounts[a][n] = IF a = owner /\ n = name THEN v ELSE t.accounts[a][n]
  BY <1>1, <1>2
<1>5. \A a \in Accounts : \A n \in Names :
        u.accounts[a][n] = t.accounts[a][n] + (IF a = owner /\ n = name THEN d ELSE 0)
  BY <1>4
<1>6. ASSUME NEW n \in Names
      PROVE  /\ Held(t.accounts, n) \in Int
             /\ Held(u.accounts, n) = Held(t.accounts, n) + (IF n = name THEN d ELSE 0)
  <2> DEFINE e == IF n = name THEN d ELSE 0
  <2>1. e \in Int /\ d \in Int
    BY <1>4
  <2>2. \A a \in Accounts : /\ t.accounts[a][n] \in Int
                            /\ u.accounts[a][n] = t.accounts[a][n] + (IF a = owner THEN e ELSE 0)
    BY <1>4, <1>5
  <2> DEFINE f == t.accounts
             f2 == u.accounts
  <2> HIDE DEF e, d
  <2>3. Held(f, n) \in Int /\ Held(f2, n) = Held(f, n) + e
    <3>1. Differ(f, f2, n, owner, e)
      BY <2>2 DEF Differ
    <3> HIDE DEF f, f2
    <3> QED BY <2>1, <3>1, HeldChanges
  <2> QED BY <2>3 DEF e
<1> QED BY <1>3, <1>5, <1>6 DEF Credited

LEMMA AddBalanceFacts ==
  ASSUME NEW t \in Tables, NEW owner \in Accounts, NEW quantity \in Assets, quantity.amount > 0,
         NEW u \in AddBalance(t, owner, quantity)
  PROVE  Credited(t, u, owner, quantity.symbol.name, quantity.amount)
<1> DEFINE name == quantity.symbol.name
           have == t.accounts[owner][name]
<1>1. name \in Names /\ quantity.amount \in Int
  BY TokenAssumption DEF Assets, Symbols
<1>2. have \in Nat /\ have + quantity.amount \in Nat
  BY <1>1 DEF Tables
<1>3. u = [t EXCEPT !.accounts[owner][name] = have + quantity.amount]
  BY <1>1 DEF AddBalance, Tables
<1>4. Credited(t, u, owner, name, (have + quantity.amount) - have)
  BY <1>1, <1>2, <1>3, CreditedFacts
<1>5. (have + quantity.amount) - have = quantity.amount
  BY <1>1, <1>2
<1> QED BY <1>4, <1>5

LEMMA SubBalanceFacts ==
  ASSUME NEW t \in Tables, NEW owner \in Accounts, NEW quantity \in Assets, quantity.amount > 0,
         NEW u \in SubBalance(t, owner, quantity)
  PROVE  Credited(t, u, owner, quantity.symbol.name, 0 - quantity.amount)
<1> DEFINE name == quantity.symbol.name
           have == t.accounts[owner][name]
<1>1. name \in Names /\ quantity.amount \in Int
  BY TokenAssumption DEF Assets, Symbols
<1>2. have \in Nat /\ have >= quantity.amount /\ have - quantity.amount \in Nat
  BY <1>1 DEF Tables, SubBalance
<1>3. u = [t EXCEPT !.accounts[owner][name] = have - quantity.amount]
  BY <1>1 DEF SubBalance
<1>4. Credited(t, u, owner, name, (have - quantity.amount) - have)
  BY <1>1, <1>2, <1>3, CreditedFacts
<1>5. (have - quantity.amount) - have = 0 - quantity.amount
  BY <1>1, <1>2
<1> QED BY <1>4, <1>5

LEMMA SupplyFacts ==
  ASSUME NEW t \in Tables, NEW name \in Names, NEW v \in Nat,
         NEW u, u = [t EXCEPT !.stat[name].supply = v]
  PROVE  /\ u \in Tables /\ u.accounts = t.accounts
         /\ \A n \in Names : /\ u.stat[n].supply = IF n = name THEN v ELSE t.stat[n].supply
                             /\ u.stat[n].max_supply = t.stat[n].max_supply
                             /\ u.stat[n].issuer = t.stat[n].issuer
                             /\ t.stat[n].supply \in Nat /\ t.stat[n].max_supply \in Nat
                             /\ t.stat[n].issuer \in Accounts
<1>1. /\ t.stat \in [Names -> Rows] /\ t.accounts \in [Accounts -> [Names -> Nat]]
      /\ t = [stat |-> t.stat, accounts |-> t.accounts]
  BY DEF Tables
<1> DEFINE row == t.stat[name]
<1>2. /\ row \in Rows
      /\ row = [issuer |-> row.issuer, supply |-> row.supply, max_supply |-> row.max_supply,
                precision |-> row.precision]
  BY <1>1 DEF Rows
<1>3. [t.stat[name] EXCEPT !.supply = v] \in Rows
  BY <1>2 DEF Rows
<1> DEFINE stat2 == [t.stat EXCEPT ![name] = [@ EXCEPT !.supply = v]]
<1>4. stat2 \in [Names -> Rows]
  BY <1>1, <1>3
<1>5. u = [stat |-> stat2, accounts |-> t.accounts]
  BY <1>1
<1>6. \A n \in Names : n # name => stat2[n] = t.stat[n]
  BY <1>1
<1>7. stat2[name] = [row EXCEPT !.supply = v]
  BY <1>1
<1>8. /\ stat2[name].supply = v /\ stat2[name].max_supply = row.max_supply
      /\ stat2[name].issuer = row.issuer
  BY <1>2, <1>7
<1>9. \A n \in Names : t.stat[n].supply \in Nat /\ t.stat[n].max_supply \in Nat /\ t.stat[n].issuer \in Accounts
  BY <1>1 DEF Rows
<1>10. u.stat = stat2 /\ u.accounts = t.accounts
  BY <1>5
<1>11. u \in Tables
  BY <1>1, <1>4, <1>5 DEF Tables
<1>12. ASSUME NEW n \in Names
       PROVE  /\ stat2[n].supply = IF n = name THEN v ELSE t.stat[n].supply
              /\ stat2[n].max_supply = t.stat[n].max_supply
              /\ stat2[n].issuer = t.stat[n].issuer
  <2>1. CASE n = name
    BY <1>8, <2>1
  <2>2. CASE n # name
    BY <1>6, <2>2
  <2> QED BY <2>1, <2>2
<1> HIDE DEF stat2
<1> QED BY <1>9, <1>10, <1>11, <1>12

(* What every action does to the tables, whoever authorised it.            *)
Sound(t, u, auth) ==
  /\ u \in Tables
  /\ Balanced(t) => Balanced(u)
  /\ Capped(t) => Capped(u)
  /\ PaidBy(t, u, {auth})

LEMMA TransferSound ==
  ASSUME NEW t \in Tables, NEW auth, NEW from \in Accounts, NEW to \in Parties, NEW quantity \in Assets,
         NEW u \in Transfer(t, auth, from, to, quantity)
  PROVE  Sound(t, u, auth) /\ u.stat = t.stat
<1> DEFINE name == quantity.symbol.name
<1>1. name \in Names /\ quantity.amount \in Int
  BY TokenAssumption DEF Assets, Symbols
<1>2. /\ from # to /\ auth = from /\ to \in Accounts /\ quantity.amount > 0
      /\ \E w \in SubBalance(t, from, quantity) : u \in AddBalance(w, to, quantity)
  BY Zenon DEF Transfer
<1>3. PICK w \in SubBalance(t, from, quantity) : u \in AddBalance(w, to, quantity)
  BY <1>2
<1>4. Credited(t, w, from, name, 0 - quantity.amount)
  BY <1>2, <1>3, SubBalanceFacts
<1>5. Credited(w, u, to, name, quantity.amount)
  BY <1>2, <1>3, <1>4, AddBalanceFacts DEF Credited
<1>6. u \in Tables /\ u.stat = t.stat
  BY <1>4, <1>5 DEF Credited
<1>7. \A n \in Names : Held(u.accounts, n) = Held(t.accounts, n)
  BY <1>1, <1>4, <1>5 DEF Credited
<1>8. ASSUME NEW a \in Accounts, NEW n \in Names, u.accounts[a][n] < t.accounts[a][n] PROVE a = auth
  <2>1. /\ w.accounts[a][n] = t.accounts[a][n] + (IF a = from /\ n = name THEN 0 - quantity.amount ELSE 0)
        /\ u.accounts[a][n] = w.accounts[a][n] + (IF a = to /\ n = name THEN quantity.amount ELSE 0)
    BY <1>4, <1>5 DEF Credited
  <2>2. t.accounts[a][n] \in Nat
    BY DEF Tables
  <2> QED BY <1>1, <1>2, <1>8, <2>1, <2>2
<1> QED BY <1>6, <1>7, <1>8 DEF Sound, Balanced, Capped, PaidBy

LEMMA CreateSound ==
  ASSUME NEW t \in Tables, NEW auth, NEW issuer \in Accounts, NEW maximum \in Assets,
         NEW u \in Create(t, auth, issuer, maximum)
  PROVE  Sound(t, u, auth)
<1> DEFINE name == maximum.symbol.name
           row == [issuer |-> issuer, supply |-> 0, max_supply |-> maximum.amount,
                   precision |-> maximum.symbol.precision]
<1>1. name \in Names /\ maximum.amount \in Int /\ maximum.symbol.precision \in {4, 8}
  BY TokenAssumption DEF Assets, Symbols
<1>2. maximum.amount > 0 /\ t.stat[name] = None /\ u = [t EXCEPT !.stat[name] = row]
  BY Zenon DEF Create
<1>3. row \in Rows
  BY <1>1, <1>2 DEF Rows
<1>4. /\ t.stat \in [Names -> Rows] /\ t.accounts \in [Accounts -> [Names -> Nat]]
      /\ t = [stat |-> t.stat, accounts |-> t.accounts]
  BY DEF Tables
<1> DEFINE stat2 == [t.stat EXCEPT ![name] = row]
<1>5. u = [stat |-> stat2, accounts |-> t.accounts]
  BY <1>2, <1>4
<1>6. stat2 \in [Names -> Rows] /\ \A n \in Names : stat2[n] = IF n = name THEN row ELSE t.stat[n]
  BY <1>3, <1>4
<1>7. u \in Tables
  BY <1>4, <1>5, <1>6 DEF Tables
<1>8. u.stat = stat2 /\ u.accounts = t.accounts
  BY <1>5
<1>9. \A n \in Names : stat2[n].supply = t.stat[n].supply
  BY <1>2, <1>6 DEF None
<1>10. Balanced(t) => Balanced(u)
  <2> HIDE DEF stat2
  <2> QED BY <1>8, <1>9 DEF Balanced
<1>11. Capped(t) => Capped(u)
  <2>1. row.supply <= row.max_supply
    BY <1>1, <1>2
  <2> HIDE DEF stat2, row
  <2> QED BY <1>6, <1>8, <2>1 DEF Capped
<1>12. PaidBy(t, u, {auth})
  <2> SUFFICES ASSUME NEW a \in Accounts, NEW n \in Names, t.accounts[a][n] < t.accounts[a][n] PROVE FALSE
    BY <1>8 DEF PaidBy
  <2> QED BY <1>4
<1> QED BY <1>7, <1>10, <1>11, <1>12 DEF Sound

LEMMA IssueSound ==
  ASSUME NEW t \in Tables, NEW auth, NEW to \in Parties, NEW quantity \in Assets,
         NEW u \in Issue(t, auth, to, quantity)
  PROVE  Sound(t, u, auth)
<1> DEFINE name == quantity.symbol.name
           row == t.stat[name]
           minted == [t EXCEPT !.stat[name].supply = @ + quantity.amount]
<1>1. name \in Names /\ quantity.amount \in Int
  BY TokenAssumption DEF Assets, Symbols
<1>2. /\ auth = row.issuer /\ quantity.amount > 0 /\ quantity.amount <= row.max_supply - row.supply
      /\ \E w \in AddBalance(minted, row.issuer, quantity) :
           u = w \/ u \in Transfer(w, row.issuer, row.issuer, to, quantity)
  <2>1. /\ auth = row.issuer /\ quantity.amount > 0 /\ quantity.amount <= row.max_supply - row.supply
        /\ \/ u \in AddBalance(minted, row.issuer, quantity)
           \/ u \in UNION {Transfer(w, row.issuer, row.issuer, to, quantity) :
                              w \in AddBalance(minted, row.issuer, quantity)}
    BY Zenon DEF Issue
  <2> HIDE DEF minted, row
  <2> QED BY <2>1
<1>3. /\ row.supply \in Nat /\ row.max_supply \in Nat /\ row.issuer \in Accounts
      /\ row.supply + quantity.amount \in Nat
  BY <1>1, <1>2 DEF Tables, Rows
<1>4. /\ minted \in Tables /\ minted.accounts = t.accounts
      /\ \A n \in Names : /\ minted.stat[n].supply = IF n = name THEN row.supply + quantity.amount ELSE t.stat[n].supply
                          /\ minted.stat[n].max_supply = t.stat[n].max_supply
                          /\ t.stat[n].supply \in Nat /\ t.stat[n].max_supply \in Nat
  BY <1>1, <1>3, SupplyFacts
<1> HIDE DEF minted
<1>5. PICK w \in AddBalance(minted, row.issuer, quantity) :
        u = w \/ u \in Transfer(w, row.issuer, row.issuer, to, quantity)
  BY <1>2
<1>6. Credited(minted, w, row.issuer, name, quantity.amount)
  BY <1>2, <1>3, <1>4, AddBalanceFacts
<1> HIDE DEF row
<1>7. Sound(t, w, auth)
  <2>1. Balanced(t) => Balanced(w)
    <3> SUFFICES ASSUME Balanced(t), NEW n \in Names PROVE w.stat[n].supply = Held(w.accounts, n)
      BY DEF Balanced
    <3>1. t.stat[n].supply = Held(t.accounts, n) /\ w.stat = minted.stat
      BY <1>6 DEF Balanced, Credited
    <3>2. Held(w.accounts, n) = Held(t.accounts, n) + (IF n = name THEN quantity.amount ELSE 0)
      BY <1>4, <1>6 DEF Credited
    <3> QED BY <1>1, <1>4, <3>1, <3>2 DEF row
  <2>2. Capped(t) => Capped(w)
    <3> SUFFICES ASSUME Capped(t), NEW n \in Names PROVE w.stat[n].supply <= w.stat[n].max_supply
      BY DEF Capped
    <3>1. t.stat[n].supply <= t.stat[n].max_supply /\ w.stat = minted.stat
      BY <1>6 DEF Capped, Credited
    <3> QED BY <1>1, <1>2, <1>3, <1>4, <3>1 DEF row
  <2>3. PaidBy(t, w, {auth})
    <3> SUFFICES ASSUME NEW a \in Accounts, NEW n \in Names, w.accounts[a][n] < t.accounts[a][n] PROVE FALSE
      BY DEF PaidBy
    <3>1. w.accounts[a][n] = t.accounts[a][n] + (IF a = row.issuer /\ n = name THEN quantity.amount ELSE 0)
      BY <1>4, <1>6 DEF Credited
    <3>2. t.accounts[a][n] \in Nat
      BY DEF Tables
    <3> QED BY <1>1, <1>2, <3>1, <3>2
  <2> QED BY <1>6, <2>1, <2>2, <2>3 DEF Sound, Credited
<1>8. CASE u = w
  BY <1>7, <1>8
<1>9. CASE u \in Transfer(w, row.issuer, row.issuer, to, quantity)
  <2>1. Sound(w, u, auth) /\ w \in Tables
    BY <1>2, <1>3, <1>7, <1>9, TransferSound DEF Sound
  <2>2. PaidBy(t, u, {auth})
    <3> SUFFICES ASSUME NEW a \in Accounts, NEW n \in Names, u.accounts[a][n] < t.accounts[a][n], a # auth
                 PROVE  FALSE
      BY DEF PaidBy
    <3>1. t.accounts[a][n] \in Nat /\ w.accounts[a][n] \in Nat /\ u.accounts[a][n] \in Nat
      BY <2>1 DEF Tables, Sound
    <3>2. ~ (w.accounts[a][n] < t.accounts[a][n]) /\ ~ (u.accounts[a][n] < w.accounts[a][n])
      BY <1>7, <2>1 DEF Sound, PaidBy
    <3> QED BY <3>1, <3>2
  <2> QED BY <1>7, <2>1, <2>2 DEF Sound
<1> QED BY <1>5, <1>8, <1>9

LEMMA SolventSound ==
  ASSUME NEW t \in Tables, NEW auth, NEW from \in Accounts, NEW quantity \in Assets,
         NEW u \in Solvent(t, auth, from, quantity)
  PROVE  Sound(t, u, auth)
<1> DEFINE name == quantity.symbol.name
           row == t.stat[name]
           less == [t EXCEPT !.stat[name].supply = @ - quantity.amount]
<1>1. name \in Names /\ quantity.amount \in Int
  BY TokenAssumption DEF Assets, Symbols
<1>2. /\ auth = from /\ quantity.amount > 0 /\ quantity.amount <= row.supply
      /\ u \in SubBalance(less, from, quantity)
  BY Zenon DEF Solvent
<1>3. row.supply \in Nat /\ row.supply - quantity.amount \in Nat
  BY <1>1, <1>2 DEF Tables, Rows
<1>4. /\ less \in Tables /\ less.accounts = t.accounts
      /\ \A n \in Names : /\ less.stat[n].supply = IF n = name THEN row.supply - quantity.amount ELSE t.stat[n].supply
                          /\ less.stat[n].max_supply = t.stat[n].max_supply
                          /\ t.stat[n].supply \in Nat /\ t.stat[n].max_supply \in Nat
  BY <1>1, <1>3, SupplyFacts
<1> HIDE DEF less, row
<1>5. Credited(less, u, from, name, 0 - quantity.amount)
  BY <1>2, <1>4, SubBalanceFacts
<1>6. Balanced(t) => Balanced(u)
  <2> SUFFICES ASSUME Balanced(t), NEW n \in Names PROVE u.stat[n].supply = Held(u.accounts, n)
    BY DEF Balanced
  <2>1. t.stat[n].supply = Held(t.accounts, n) /\ u.stat = less.stat
    BY <1>5 DEF Balanced, Credited
  <2>2. Held(u.accounts, n) = Held(t.accounts, n) + (IF n = name THEN 0 - quantity.amount ELSE 0)
    BY <1>4, <1>5 DEF Credited
  <2> QED BY <1>1, <1>4, <2>1, <2>2 DEF row
<1>7. Capped(t) => Capped(u)
  <2> SUFFICES ASSUME Capped(t), NEW n \in Names PROVE u.stat[n].supply <= u.stat[n].max_supply
    BY DEF Capped
  <2>1. t.stat[n].supply <= t.stat[n].max_supply /\ u.stat = less.stat
    BY <1>5 DEF Capped, Credited
  <2> QED BY <1>1, <1>2, <1>3, <1>4, <2>1 DEF row
<1>8. PaidBy(t, u, {auth})
  <2> SUFFICES ASSUME NEW a \in Accounts, NEW n \in Names, u.accounts[a][n] < t.accounts[a][n] PROVE a = from
    BY <1>2 DEF PaidBy
  <2>1. u.accounts[a][n] = t.accounts[a][n] + (IF a = from /\ n = name THEN 0 - quantity.amount ELSE 0)
    BY <1>4, <1>5 DEF Credited
  <2>2. t.accounts[a][n] \in Nat
    BY DEF Tables
  <2> QED BY <1>1, <2>1, <2>2
<1> QED BY <1>5, <1>6, <1>7, <1>8 DEF Sound, Credited

-----------------------------------------------------------------------------
LEMMA NextSound ==
  ASSUME tables \in Tables, Next
  PROVE  signer' \in Accounts /\ Sound(tables, tables', signer')
<1>1. PICK auth \in Accounts, quantity \in Assets :
        /\ signer' = auth
        /\ \/ \E issuer \in Accounts : tables' \in Create(tables, auth, issuer, quantity)
           \/ \E to \in Parties : tables' \in Issue(tables, auth, to, quantity)
           \/ \E from \in Accounts : \E to \in Parties : tables' \in Transfer(tables, auth, from, to, quantity)
           \/ \E from \in Accounts : tables' \in Solvent(tables, auth, from, quantity)
  BY Zenon DEF Next, TokenNext, Commit
<1> QED BY <1>1, CreateSound, IssueSound, TransferSound, SolventSound

LEMMA TokenInvInit == Init => TokenInv
<1> SUFFICES ASSUME Init PROVE TokenInv
  OBVIOUS
<1>1. tables = [stat |-> [n \in Names |-> None], accounts |-> [a \in Accounts |-> [n \in Names |-> 0]]]
  BY DEF Init
<1>2. None \in Rows /\ signer \in Accounts
  BY DEF None, Rows, Accounts, Init
<1>3. tables \in Tables
  BY <1>1, <1>2 DEF Tables
<1>4. \A n \in Names : tables.stat[n].supply = 0 /\ tables.stat[n].max_supply = 0
  BY <1>1 DEF None
<1>5. \A n \in Names : Held(tables.accounts, n) = 0
  <2> TAKE n \in Names
  <2> DEFINE f == tables.accounts
  <2>1. \A a \in Accounts : f[a][n] = 0
    BY <1>1
  <2> HIDE DEF f
  <2>2. Held(f, n) = 0
    BY <2>1, HeldZero
  <2> QED BY <2>2 DEF f
<1> QED BY <1>2, <1>3, <1>4, <1>5 DEF TokenInv, Balanced, Capped

LEMMA TokenInvStep == TokenInv /\ [Next]_vars => TokenInv'
<1> SUFFICES ASSUME TokenInv, [Next]_vars PROVE TokenInv'
  OBVIOUS
<1>1. CASE Next
  BY <1>1, NextSound DEF TokenInv, Sound, Balanced, Capped
<1>2. CASE UNCHANGED vars
  BY <1>2 DEF TokenInv, vars, Balanced, Capped
<1> QED BY <1>1, <1>2

(***************************************************************************)
(* The tables keep their types: no supply and no balance is ever negative. *)
(***************************************************************************)
THEOREM TokenTypeCorrect == Spec => []TypeOK
<1>1. TokenInv => TypeOK
  BY DEF TokenInv, TypeOK, Tables
<1> QED BY <1>1, TokenInvInit, TokenInvStep, PTL DEF Spec

(***************************************************************************)
(* However issues with their inline transfer, transfers and destructions   *)
(* follow each other, the supply of a token is the sum of its balances.    *)
(***************************************************************************)
THEOREM SupplyCorrect == Spec => []SupplyIsSum
<1>1. TokenInv => SupplyIsSum
  BY DEF TokenInv, SupplyIsSum, Balanced
<1> QED BY <1>1, TokenInvInit, TokenInvStep, PTL DEF Spec

(***************************************************************************)
(* The supply never exceeds the maximum the token was created with.        *)
(***************************************************************************)
THEOREM MaximumCorrect == Spec => []SupplyWithinMaximum
<1>1. TokenInv => SupplyWithinMaximum
  BY DEF TokenInv, SupplyWithinMaximum, Capped
<1> QED BY <1>1, TokenInvInit, TokenInvStep, PTL DEF Spec

(***************************************************************************)
(* Only a transaction the owner authorised makes a balance smaller, the    *)
(* inline transfer of an issue included.                                   *)
(***************************************************************************)
THEOREM OwnerPaysCorrect == Spec => OnlyOwnerPays
<1> DEFINE Paid == \A a \in Accounts : \A n \in Names :
                     tables'.accounts[a][n] < tables.accounts[a][n] => a = signer'
<1>1. TokenInv /\ [Next]_vars => [Paid]_vars
  BY NextSound DEF TokenInv, Sound, PaidBy
<1> QED BY <1>1, TokenInvInit, TokenInvStep, PTL DEF Spec, OnlyOwnerPays

-----------------------------------------------------------------------------
(***************************************************************************)
(* The peg.                                                                *)
(***************************************************************************)
Banks == [stat : [Peg!Tokens -> [issuer : Peg!Everybody, supply : Nat, max_supply : Nat, precision : {0, 4, 8}]],
          accounts : [Peg!Everybody -> [Peg!Tokens -> Nat]]]

Quantities == [amount : Nat, symbol : [name : Peg!Tokens, precision : {4, 8}]]

LEMMA PegConstants == Peg!BridgeAssumption
  BY ChainAssumption

LEMMA PegNames ==
  /\ Peg!Sys!Accounts = Peg!Everybody /\ Peg!Peg!Accounts = Peg!Everybody
  /\ Gateway \in Peg!Everybody /\ Peg!SystemToken \in Peg!Everybody /\ Gateway # Peg!SystemToken
  /\ Wrapped.Symbol \in Peg!Tokens /\ "EOS" \in Peg!Tokens
  /\ Peg!Holders \subseteq Peg!Everybody
  BY PegConstants DEF Peg!BridgeAssumption, Peg!Sys!Accounts, Peg!Peg!Accounts, Peg!Everybody, Peg!Holders, Peg!Tokens

(* A balance or a supply of stat is changed.                               *)
Sets(t, u, a, n, v) == u = [t EXCEPT !.accounts[a][n] = v]
SetsSupply(t, u, n, v) == u = [t EXCEPT !.stat[n].supply = v]

LEMMA BalanceSet ==
  ASSUME NEW t \in Banks, NEW a \in Peg!Everybody, NEW n \in Peg!Tokens, NEW v \in Nat,
         NEW u, Sets(t, u, a, n, v)
  PROVE  /\ u \in Banks /\ u.stat = t.stat
         /\ \A b \in Peg!Everybody : \A m \in Peg!Tokens :
              u.accounts[b][m] = IF a = b /\ n = m THEN v ELSE t.accounts[b][m]
<1>1. /\ t.accounts \in [Peg!Everybody -> [Peg!Tokens -> Nat]]
      /\ t = [stat |-> t.stat, accounts |-> t.accounts]
  BY DEF Banks
<1>2. u = [stat |-> t.stat, accounts |-> [t.accounts EXCEPT ![a][n] = v]]
  BY <1>1 DEF Sets
<1>3. [t.accounts EXCEPT ![a][n] = v] \in [Peg!Everybody -> [Peg!Tokens -> Nat]]
  BY <1>1
<1>4. u.stat = t.stat /\ u.accounts = [t.accounts EXCEPT ![a][n] = v]
  BY <1>2
<1>5. u \in Banks
  BY <1>2, <1>3 DEF Banks
<1>6. \A b \in Peg!Everybody : \A m \in Peg!Tokens :
        [t.accounts EXCEPT ![a][n] = v][b][m] = IF a = b /\ n = m THEN v ELSE t.accounts[b][m]
  BY <1>1
<1> QED BY <1>4, <1>5, <1>6

LEMMA SupplySet ==
  ASSUME NEW t \in Banks, NEW n \in Peg!Tokens, NEW v \in Nat, NEW u, SetsSupply(t, u, n, v)
  PROVE  /\ u \in Banks /\ u.accounts = t.accounts
         /\ \A m \in Peg!Tokens : u.stat[m].supply = IF n = m THEN v ELSE t.stat[m].supply
         /\ u.stat[n].issuer = t.stat[n].issuer
<1> DEFINE Rows2 == [issuer : Peg!Everybody, supply : Nat, max_supply : Nat, precision : {0, 4, 8}]
<1>1. /\ t.stat \in [Peg!Tokens -> Rows2] /\ t.accounts \in [Peg!Everybody -> [Peg!Tokens -> Nat]]
      /\ t = [stat |-> t.stat, accounts |-> t.accounts]
  BY DEF Banks
<1>2. u = [stat |-> [t.stat EXCEPT ![n].supply = v], accounts |-> t.accounts]
  BY <1>1 DEF SetsSupply
<1>3. /\ [t.stat[n] EXCEPT !.supply = v] \in Rows2 /\ [t.stat[n] EXCEPT !.supply = v].supply = v
      /\ [t.stat[n] EXCEPT !.supply = v].issuer = t.stat[n].issuer
  BY <1>1
<1>4. [t.stat EXCEPT ![n].supply = v] = [t.stat EXCEPT ![n] = [t.stat[n] EXCEPT !.supply = v]]
  BY <1>1
<1> DEFINE s == [t.stat EXCEPT ![n].supply = v]
<1>5. s \in [Peg!Tokens -> Rows2] /\ s[n] = [t.stat[n] EXCEPT !.supply = v] /\ \A m \in Peg!Tokens : m # n => s[m] = t.stat[m]
  BY <1>1, <1>3, <1>4
<1>6. u.stat = s /\ u.accounts = t.accounts
  BY <1>2
<1> HIDE DEF s
<1>7. u \in Banks
  BY <1>1, <1>2, <1>5 DEF Banks, s
<1>8. \A m \in Peg!Tokens : s[m].supply = IF n = m THEN v ELSE t.stat[m].supply
  BY <1>3, <1>5
<1> QED BY <1>3, <1>5, <1>6, <1>7, <1>8

(* A transfer, of either contract: what is taken here is put there.        *)
Paid(t, u, from, to, q) ==
  LET n == q.symbol.name IN
  /\ q.amount > 0 /\ to \in Peg!Everybody /\ t.accounts[from][n] >= q.amount
  /\ \E w : /\ Sets(t, w, from, n, t.accounts[from][n] - q.amount)
            /\ Sets(w, u, to, n, w.accounts[to][n] + q.amount)

LEMMA SysTransferPays ==
  ASSUME NEW t \in Banks, NEW auth, NEW from \in Peg!Everybody, NEW to, NEW q \in Quantities,
         NEW u \in Peg!Sys!Transfer(t, auth, from, to, q)
  PROVE  Paid(t, u, from, to, q)
<1>1. q.symbol.name \in Peg!Tokens /\ q.amount \in Nat
  BY DEF Quantities
<1>2. /\ to \in Peg!Everybody /\ q.amount > 0
      /\ \E w \in Peg!Sys!SubBalance(t, from, q) : u \in Peg!Sys!AddBalance(w, to, q)
  BY Zenon, PegNames DEF Peg!Sys!Transfer
<1>3. PICK w \in Peg!Sys!SubBalance(t, from, q) : u \in Peg!Sys!AddBalance(w, to, q)
  BY <1>2
<1>4. /\ t.accounts[from][q.symbol.name] >= q.amount
      /\ Sets(t, w, from, q.symbol.name, t.accounts[from][q.symbol.name] - q.amount)
  BY <1>1, <1>3 DEF Peg!Sys!SubBalance, Sets
<1>5. w \in Banks
  BY <1>1, <1>4, BalanceSet DEF Banks
<1>6. Sets(w, u, to, q.symbol.name, w.accounts[to][q.symbol.name] + q.amount)
  BY <1>1, <1>2, <1>3, <1>5 DEF Peg!Sys!AddBalance, Banks, Sets
<1> QED BY <1>2, <1>4, <1>6 DEF Paid

LEMMA PegTransferPays ==
  ASSUME NEW t \in Banks, NEW auth, NEW from \in Peg!Everybody, NEW to, NEW q \in Quantities,
         NEW u \in Peg!Peg!Transfer(t, auth, from, to, q)
  PROVE  Paid(t, u, from, to, q)
<1>1. q.symbol.name \in Peg!Tokens /\ q.amount \in Nat
  BY DEF Quantities
<1>2. /\ to \in Peg!Everybody /\ q.amount > 0
      /\ \E w \in Peg!Peg!SubBalance(t, from, q) : u \in Peg!Peg!AddBalance(w, to, q)
  BY Zenon, PegNames DEF Peg!Peg!Transfer
<1>3. PICK w \in Peg!Peg!SubBalance(t, from, q) : u \in Peg!Peg!AddBalance(w, to, q)
  BY <1>2
<1>4. /\ t.accounts[from][q.symbol.name] >= q.amount
      /\ Sets(t, w, from, q.symbol.name, t.accounts[from][q.symbol.name] - q.amount)
  BY <1>1, <1>3 DEF Peg!Peg!SubBalance, Sets
<1>5. w \in Banks
  BY <1>1, <1>4, BalanceSet DEF Banks
<1>6. Sets(w, u, to, q.symbol.name, w.accounts[to][q.symbol.name] + q.amount)
  BY <1>1, <1>2, <1>3, <1>5 DEF Peg!Peg!AddBalance, Banks, Sets
<1> QED BY <1>2, <1>4, <1>6 DEF Paid

(* It leaves stat alone, and only its receiver gets more.                  *)
LEMMA PaidFacts ==
  ASSUME NEW t \in Banks, NEW from \in Peg!Everybody, NEW to, NEW q \in Quantities, NEW u, Paid(t, u, from, to, q)
  PROVE  /\ u \in Banks /\ u.stat = t.stat
         /\ u.accounts[Gateway]["EOS"] <= t.accounts[Gateway]["EOS"] + (IF to = Gateway THEN q.amount ELSE 0)
<1> DEFINE n == q.symbol.name
           left == t.accounts[from][n] - q.amount
<1>1. n \in Peg!Tokens /\ q.amount \in Nat /\ to \in Peg!Everybody
  BY DEF Quantities, Paid
<1>2. /\ t.accounts[from][n] \in Nat /\ left \in Nat /\ left <= t.accounts[from][n]
      /\ \E w : Sets(t, w, from, n, left) /\ Sets(w, u, to, n, w.accounts[to][n] + q.amount)
  BY <1>1 DEF Paid, Banks
<1>3. PICK w : Sets(t, w, from, n, left) /\ Sets(w, u, to, n, w.accounts[to][n] + q.amount)
  BY <1>2
<1> HIDE DEF left, n
<1>4. /\ w \in Banks /\ w.stat = t.stat
      /\ \A b \in Peg!Everybody : \A m \in Peg!Tokens :
              w.accounts[b][m] = IF from = b /\ n = m THEN left ELSE t.accounts[b][m]
  BY <1>1, <1>2, <1>3, BalanceSet
<1>5. w.accounts[to][n] \in Nat /\ w.accounts[to][n] + q.amount \in Nat
  BY <1>1, <1>4 DEF Banks
<1>6. /\ u \in Banks /\ u.stat = w.stat
      /\ \A b \in Peg!Everybody : \A m \in Peg!Tokens :
              u.accounts[b][m] = IF to = b /\ n = m THEN w.accounts[to][n] + q.amount ELSE w.accounts[b][m]
  BY <1>1, <1>3, <1>4, <1>5, BalanceSet
<1>7. /\ "EOS" \in Peg!Tokens /\ Gateway \in Peg!Everybody
      /\ w.accounts[Gateway]["EOS"] \in Nat /\ t.accounts[Gateway]["EOS"] \in Nat
  BY <1>4, PegNames DEF Banks
<1>8. w.accounts[Gateway]["EOS"] <= t.accounts[Gateway]["EOS"]
  BY <1>2, <1>4, <1>7
<1>9. u.accounts[Gateway]["EOS"] =
        IF to = Gateway /\ n = "EOS" THEN w.accounts[Gateway]["EOS"] + q.amount ELSE w.accounts[Gateway]["EOS"]
  BY <1>6, <1>7
<1> QED BY <1>1, <1>4, <1>6, <1>7, <1>8, <1>9

(* The other actions of the pegged token: only its supply is of interest.  *)
Changes(t, u, n, d) ==
  u \in Banks /\ \A m \in Peg!Tokens : u.stat[m].supply = t.stat[m].supply + (IF m = n THEN d ELSE 0)

LEMMA CreateFacts ==
  ASSUME NEW t \in Banks, NEW auth, NEW issuer \in Peg!Everybody, NEW q \in Quantities,
         NEW u \in Peg!Peg!Create(t, auth, issuer, q)
  PROVE  Changes(t, u, q.symbol.name, 0)
<1> DEFINE n == q.symbol.name
           row == [issuer |-> issuer, supply |-> 0, max_supply |-> q.amount, precision |-> q.symbol.precision]
           Rows2 == [issuer : Peg!Everybody, supply : Nat, max_supply : Nat, precision : {0, 4, 8}]
<1>1. n \in Peg!Tokens /\ q.amount \in Nat /\ q.symbol.precision \in {4, 8}
  BY DEF Quantities
<1>2. t.stat[n].supply = 0 /\ u = [t EXCEPT !.stat[n] = row]
  BY DEF Peg!Peg!Create, Peg!Peg!None
<1>3. row \in Rows2 /\ row.supply = 0
  BY <1>1
<1>4. /\ t.stat \in [Peg!Tokens -> Rows2] /\ t.accounts \in [Peg!Everybody -> [Peg!Tokens -> Nat]]
      /\ t = [stat |-> t.stat, accounts |-> t.accounts]
  BY DEF Banks
<1> HIDE DEF row
<1>5. u = [stat |-> [t.stat EXCEPT ![n] = row], accounts |-> t.accounts]
  BY <1>2, <1>4
<1>6. [t.stat EXCEPT ![n] = row] \in [Peg!Tokens -> Rows2]
  BY <1>3, <1>4
<1>7. u \in Banks /\ u.stat = [t.stat EXCEPT ![n] = row]
  BY <1>4, <1>5, <1>6 DEF Banks
<1>8. \A m \in Peg!Tokens : u.stat[m].supply = t.stat[m].supply /\ t.stat[m].supply \in Nat
  BY <1>1, <1>2, <1>3, <1>4, <1>7
<1> QED BY <1>7, <1>8 DEF Changes

LEMMA IssueFacts ==
  ASSUME NEW t \in Banks, NEW auth, NEW to, NEW q \in Quantities, NEW u \in Peg!Peg!Issue(t, auth, to, q)
  PROVE  Changes(t, u, q.symbol.name, q.amount)
<1> DEFINE n == q.symbol.name
           more == t.stat[n].supply + q.amount
           issued2 == [t EXCEPT !.stat[n].supply = @ + q.amount]
           owner == t.stat[n].issuer
<1>1. n \in Peg!Tokens /\ q.amount \in Nat /\ q.symbol.precision \in {4, 8}
  BY DEF Quantities
<1>2. more \in Nat /\ owner \in Peg!Everybody
  BY <1>1 DEF Banks
<1>3. SetsSupply(t, issued2, n, more)
  BY DEF SetsSupply
<1>4. /\ q.amount > 0
      /\ \E v \in Peg!Peg!AddBalance(issued2, owner, q) : u = v \/ u \in Peg!Peg!Transfer(v, owner, owner, to, q)
  BY DEF Peg!Peg!Issue
<1>5. PICK v \in Peg!Peg!AddBalance(issued2, owner, q) : u = v \/ u \in Peg!Peg!Transfer(v, owner, owner, to, q)
  BY <1>4
<1>6. Sets(issued2, v, owner, n, issued2.accounts[owner][n] + q.amount)
  BY <1>5 DEF Peg!Peg!AddBalance, Sets
<1> HIDE DEF issued2, more, owner, n
<1>7. /\ issued2 \in Banks
      /\ \A m \in Peg!Tokens : issued2.stat[m].supply = IF n = m THEN more ELSE t.stat[m].supply
  BY <1>1, <1>2, <1>3, SupplySet
<1>8. issued2.accounts[owner][n] + q.amount \in Nat
  BY <1>1, <1>2, <1>7 DEF Banks
<1>9. v \in Banks /\ v.stat = issued2.stat
  BY <1>1, <1>2, <1>6, <1>7, <1>8, BalanceSet
<1>10. u \in Banks /\ u.stat = v.stat
  <2>1. CASE u = v
    BY <1>9, <2>1
  <2>2. CASE u \in Peg!Peg!Transfer(v, owner, owner, to, q)
    <3>1. Paid(v, u, owner, to, q)
      BY <1>2, <1>9, <2>2, PegTransferPays
    <3> QED BY <1>2, <1>9, <3>1, PaidFacts
  <2> QED BY <1>5, <2>1, <2>2
<1>11. \A m \in Peg!Tokens : t.stat[m].supply \in Nat
  BY DEF Banks
<1> QED BY <1>1, <1>7, <1>9, <1>10, <1>11 DEF Changes, more, n

LEMMA SolventFacts ==
  ASSUME NEW t \in Banks, NEW auth, NEW from \in Peg!Everybody, NEW q \in Quantities,
         NEW u \in Peg!Peg!Solvent(t, auth, from, q)
  PROVE  Changes(t, u, q.symbol.name, 0 - q.amount)
<1> DEFINE n == q.symbol.name
           less == t.stat[n].supply - q.amount
           reduced == [t EXCEPT !.stat[n].supply = @ - q.amount]
           left == reduced.accounts[from][n] - q.amount
<1>1. n \in Peg!Tokens /\ q.amount \in Nat /\ t.stat[n].supply \in Nat
  BY DEF Quantities, Banks
<1>2. q.amount <= t.stat[n].supply /\ u \in Peg!Peg!SubBalance(reduced, from, q)
  BY DEF Peg!Peg!Solvent
<1>3. less \in Nat /\ SetsSupply(t, reduced, n, less)
  BY <1>1, <1>2 DEF SetsSupply
<1>4. reduced.accounts[from][n] >= q.amount /\ Sets(reduced, u, from, n, left)
  BY <1>2 DEF Peg!Peg!SubBalance, Sets
<1> HIDE DEF reduced, less, n
<1>5. /\ reduced \in Banks
      /\ \A m \in Peg!Tokens : reduced.stat[m].supply = IF n = m THEN less ELSE t.stat[m].supply
  BY <1>1, <1>3, SupplySet
<1>6. left \in Nat
  BY <1>1, <1>4, <1>5 DEF Banks
<1> HIDE DEF left
<1>7. u \in Banks /\ u.stat = reduced.stat
  BY <1>1, <1>4, <1>5, <1>6, BalanceSet
<1>8. \A m \in Peg!Tokens : t.stat[m].supply \in Nat
  BY DEF Banks
<1> QED BY <1>1, <1>5, <1>7, <1>8 DEF Changes, less, n

-----------------------------------------------------------------------------
(* Actions and transactions as the watchers and users make them.           *)
Actions == [account : {Peg!SystemToken, Gateway}, name : {"create", "issue", "transfer", "solvent"},
            auth : Peg!Everybody, from : Peg!Everybody \cup {Peg!Nobody}, to : Peg!Everybody \cup {Peg!Nobody},
            quantity : Quantities]

Transactions == [actions : Seq(Actions), kind : Peg!Kinds]

Proper(a) ==
  /\ a \in Actions
  /\ a.account = Peg!SystemToken => a.name = "transfer"
  /\ a.account = Gateway /\ a.name # "transfer" => a.quantity.symbol.name = Wrapped.Symbol
  /\ a.name \in {"transfer", "solvent"} => a.from \in Peg!Everybody
  /\ a.name = "create" => a.to \in Peg!Everybody

ProperTx(x) ==
  /\ x \in Transactions /\ x.actions # <<>> /\ Proper(x.actions[1])
  /\ x.kind # "two" => Len(x.actions) = 1

LEMMA MadeProper ==
  ASSUME NEW account \in {Peg!SystemToken, Gateway}, NEW name \in {"create", "issue", "transfer", "solvent"},
         NEW auth \in Peg!Everybody, NEW from \in Peg!Everybody \cup {Peg!Nobody},
         NEW to \in Peg!Everybody \cup {Peg!Nobody}, NEW amount \in Nat, NEW precision \in {4, 8}, NEW symbol \in Peg!Tokens,
         account = Peg!SystemToken => name = "transfer",
         account = Gateway /\ name # "transfer" => symbol = Wrapped.Symbol,
         name \in {"transfer", "solvent"} => from \in Peg!Everybody,
         name = "create" => to \in Peg!Everybody
  PROVE  Proper(Peg!BuiltAction(account, name, auth, from, to, Peg!Quantity(amount, precision, symbol)))
<1>1. Peg!Quantity(amount, precision, symbol) \in Quantities
  BY DEF Peg!Quantity, Quantities
<1>2. Peg!Quantity(amount, precision, symbol).symbol.name = symbol
  BY DEF Peg!Quantity
<1> HIDE DEF Peg!Quantity
<1> QED BY <1>1, <1>2 DEF Proper, Peg!BuiltAction, Actions

LEMMA BuiltProper == \A a \in Peg!BuiltByMain \cup Peg!BuiltByContract \cup Peg!BuiltByFirst : Proper(a)
<1> USE DEF Peg!CreateTransferActionDispatcher, Peg!CreateTransferAction, Peg!CreateCreateAction,
        Peg!CreateIssueActionDispatcher, Peg!CreateIssueAction, Peg!CreateSolventAction, Peg!ContractTransfer,
        Peg!ContractCreate, Peg!ContractIssue, Peg!ContractSolvent, Peg!FirstTransfer
<1>0. /\ Gateway \in Peg!Everybody /\ Gateway # Peg!SystemToken /\ Wrapped.Symbol \in Peg!Tokens /\ "EOS" \in Peg!Tokens
      /\ Peg!Holders \subseteq Peg!Everybody /\ Users \subseteq Peg!Holders
      /\ \A n \in BuiltAmounts : n \in Nat /\ 2 * n \in Nat
      /\ Wrapped.ActionAccount = Gateway /\ Wrapped.Precision \in {4, 8} /\ Peg!SystemToken = "eosio.token"
  BY PegNames, PegConstants DEF Peg!BridgeAssumption, Peg!Holders, Peg!SystemToken
<1>1. \A f \in Peg!Holders, t \in Peg!Holders, n \in BuiltAmounts, p \in {4, 8} :
        /\ Proper(Peg!BuiltAction("eosio.token", "transfer", f, f, t, Peg!Quantity(n, 4, "EOS")))
        /\ Proper(Peg!BuiltAction(Gateway, "transfer", f, f, t, Peg!Quantity(n, p, Wrapped.Symbol)))
  BY <1>0, MadeProper
<1>2. \A t \in Peg!Holders, n \in BuiltAmounts, p \in {4, 8} :
        /\ Proper(Peg!BuiltAction(Gateway, "create", Gateway, Peg!Nobody, t, Peg!Quantity(2 * n, p, Wrapped.Symbol)))
        /\ Proper(Peg!BuiltAction(Gateway, "issue", Gateway, Peg!Nobody, t, Peg!Quantity(n, p, Wrapped.Symbol)))
  BY <1>0, MadeProper
<1>3. \A f \in Users, n \in BuiltAmounts, p \in {4, 8} :
        Proper(Peg!BuiltAction(Gateway, "solvent", f, f, Peg!Nobody, Peg!Quantity(n, p, Wrapped.Symbol)))
  BY <1>0, MadeProper
<1>4. ASSUME NEW a \in Peg!BuiltByMain PROVE Proper(a)
  BY <1>0, <1>1, <1>2, <1>3 DEF Peg!BuiltByMain
<1>5. ASSUME NEW a \in Peg!BuiltByContract PROVE Proper(a)
  BY <1>0, <1>1, <1>2, <1>3 DEF Peg!BuiltByContract
<1>6. ASSUME NEW a \in Peg!BuiltByFirst PROVE Proper(a)
  BY <1>0, <1>1 DEF Peg!BuiltByFirst, Peg!SystemToken
<1> QED BY <1>4, <1>5, <1>6

(* What executing an action does to the two ledgers.                       *)
Ledgers == [{Peg!SystemToken, Gateway} -> Banks]

Supply(l) == l[Gateway].stat[Wrapped.Symbol].supply
Deposits(l) == l[Peg!SystemToken].accounts[Gateway]["EOS"]

Counts(cond, a) == IF cond THEN a.quantity.amount ELSE 0

Executed(l, m, a) ==
  /\ m \in Ledgers
  /\ Supply(m) + Counts(Peg!IsDestruction(a), a) = Supply(l) + Counts(Peg!IsIssue(a), a)
  /\ Deposits(m) <= Deposits(l) + Counts(Peg!IsDeposit(a), a)

LEMMA LedgerNumbers == ASSUME NEW l \in Ledgers PROVE Supply(l) \in Nat /\ Deposits(l) \in Nat
  BY PegNames DEF Ledgers, Banks, Supply, Deposits

LEMMA ExecuteFacts ==
  ASSUME NEW l \in Ledgers, NEW a, Proper(a), NEW m \in Peg!Execute(l, a)
  PROVE  Executed(l, m, a)
<1> DEFINE q == a.quantity
           sys == l[Peg!SystemToken]
           peg == l[Gateway]
<1>0. /\ Gateway # Peg!SystemToken /\ q \in Quantities /\ q.amount \in Nat /\ Wrapped.Symbol \in Peg!Tokens
      /\ sys \in Banks /\ peg \in Banks /\ Supply(l) \in Nat /\ Deposits(l) \in Nat
      /\ a.account \in {Peg!SystemToken, Gateway} /\ a.name \in {"create", "issue", "transfer", "solvent"}
  BY PegNames, LedgerNumbers DEF Ledgers, Proper, Actions, Quantities
<1>1. CASE a.account = Peg!SystemToken
  <2>1. a.name = "transfer" /\ a.from \in Peg!Everybody
    BY <1>1 DEF Proper
  <2>2. \E t \in Peg!Sys!Transfer(sys, a.auth, a.from, a.to, q) : m = [l EXCEPT ![Peg!SystemToken] = t]
    BY <1>1, <2>1, Zenon DEF Peg!Execute, Peg!ExecuteSystem
  <2>3. PICK t \in Peg!Sys!Transfer(sys, a.auth, a.from, a.to, q) : m = [l EXCEPT ![Peg!SystemToken] = t]
    BY <2>2
  <2>4. Paid(sys, t, a.from, a.to, q)
    BY <1>0, <2>1, SysTransferPays
  <2>5. t \in Banks /\ t.accounts[Gateway]["EOS"] <= sys.accounts[Gateway]["EOS"] + (IF a.to = Gateway THEN q.amount ELSE 0)
    BY <1>0, <2>1, <2>4, PaidFacts
  <2>6. m \in Ledgers /\ m[Peg!SystemToken] = t /\ m[Gateway] = peg
    BY <1>0, <2>3, <2>5 DEF Ledgers
  <2> QED BY <1>0, <1>1, <2>1, <2>5, <2>6
          DEF Executed, Counts, Supply, Deposits, Peg!IsDestruction, Peg!IsIssue, Peg!IsDeposit
<1>2. CASE a.account = Gateway
  <2> DEFINE d == IF a.name = "issue" THEN q.amount ELSE IF a.name = "solvent" THEN 0 - q.amount ELSE 0
  <2>1. \E t : m = [l EXCEPT ![Gateway] = t] /\ Changes(peg, t, Wrapped.Symbol, d)
    <3>1. CASE a.name = "create"
      <4>1. \E t \in Peg!Peg!Create(peg, a.auth, a.to, q) : m = [l EXCEPT ![Gateway] = t]
        BY <1>0, <1>2, <3>1, Zenon DEF Peg!Execute, Peg!ExecutePeg
      <4> QED BY <1>0, <1>2, <3>1, <4>1, CreateFacts DEF Proper
    <3>2. CASE a.name = "issue"
      <4>1. \E t \in Peg!Peg!Issue(peg, a.auth, a.to, q) : m = [l EXCEPT ![Gateway] = t]
        BY <1>0, <1>2, <3>2, Zenon DEF Peg!Execute, Peg!ExecutePeg
      <4> QED BY <1>0, <1>2, <3>2, <4>1, IssueFacts DEF Proper
    <3>3. CASE a.name = "transfer"
      <4>1. \E t \in Peg!Peg!Transfer(peg, a.auth, a.from, a.to, q) : m = [l EXCEPT ![Gateway] = t]
        BY <1>0, <1>2, <3>3, Zenon DEF Peg!Execute, Peg!ExecutePeg
      <4>2. PICK t \in Peg!Peg!Transfer(peg, a.auth, a.from, a.to, q) : m = [l EXCEPT ![Gateway] = t]
        BY <4>1
      <4>3. Paid(peg, t, a.from, a.to, q)
        BY <1>0, <3>3, PegTransferPays DEF Proper
      <4>4. t \in Banks /\ t.stat = peg.stat
        BY <1>0, <3>3, <4>3, PaidFacts DEF Proper
      <4>5. \A n \in Peg!Tokens : peg.stat[n].supply \in Nat
        BY <1>0 DEF Banks
      <4>6. d = 0
        BY <3>3
      <4> HIDE DEF d
      <4>7. Changes(peg, t, Wrapped.Symbol, d)
        BY <4>4, <4>5, <4>6 DEF Changes
      <4> QED BY <4>2, <4>7
    <3>4. CASE a.name = "solvent"
      <4>1. \E t \in Peg!Peg!Solvent(peg, a.auth, a.from, q) : m = [l EXCEPT ![Gateway] = t]
        BY <1>0, <1>2, <3>4, Zenon DEF Peg!Execute, Peg!ExecutePeg
      <4> QED BY <1>0, <1>2, <3>4, <4>1, SolventFacts DEF Proper
    <3> QED BY <1>0, <3>1, <3>2, <3>3, <3>4
  <2>2. PICK t : m = [l EXCEPT ![Gateway] = t] /\ Changes(peg, t, Wrapped.Symbol, d)
    BY <2>1
  <2>3. m \in Ledgers /\ m[Gateway] = t /\ m[Peg!SystemToken] = sys
    BY <1>0, <2>2 DEF Ledgers, Changes
  <2>4. Supply(m) = Supply(l) + d /\ Deposits(m) = Deposits(l)
    BY <1>0, <2>2, <2>3 DEF Changes, Supply, Deposits
  <2> QED BY <1>0, <1>2, <2>3, <2>4 DEF Executed, Counts, Peg!IsDestruction, Peg!IsIssue, Peg!IsDeposit
<1> QED BY <1>0, <1>1, <1>2

-----------------------------------------------------------------------------
(***************************************************************************)
(* What events may tell of the transactions: the executed ones, whichever  *)
(* of them are reported, come to at most a total.                          *)
(***************************************************************************)
Due(self, x) ==
  Counts(Len(x.actions) = 1 /\ (IF self = Gateway THEN Peg!IsDestruction(x.actions[1]) ELSE Peg!IsDeposit(x.actions[1])),
         x.actions[1])

Dues(self, q) == [id \in DOMAIN q |-> Due(self, q[id])]

Backed(self, q, ids, total) == \A S \in SUBSET ids : SumOver(Dues(self, q), S) <= total

ProperTxs(q) == q \in Seq(Transactions) /\ \A i \in DOMAIN q : ProperTx(q[i])

(* The transactions of q are those of p and possibly more.                 *)
Extends(q, p) == \A i \in DOMAIN p : i \in DOMAIN q /\ q[i] = p[i]

LEMMA DueIsNat == ASSUME NEW self, NEW x, ProperTx(x) PROVE Due(self, x) \in Nat
  BY DEF Due, Counts, ProperTx, Proper, Actions, Quantities

LEMMA DuesFacts ==
  ASSUME NEW self, NEW q, ProperTxs(q)
  PROVE  /\ IsFiniteSet(DOMAIN q)
         /\ \A i \in DOMAIN q : Dues(self, q)[i] = Due(self, q[i]) /\ Dues(self, q)[i] \in Nat
<1>1. DOMAIN q = 1 .. Len(q) /\ Len(q) \in Nat
  BY DEF ProperTxs
<1>2. IsFiniteSet(1 .. Len(q))
  <2>1. 1 \in Int /\ Len(q) \in Int
    BY <1>1
  <2> QED BY <2>1, FS_Interval
<1>3. IsFiniteSet(DOMAIN q)
  BY <1>1, <1>2
<1>4. \A i \in DOMAIN q : Dues(self, q)[i] = Due(self, q[i]) /\ Dues(self, q)[i] \in Nat
  <2>1. \A i \in DOMAIN q : Dues(self, q)[i] = Due(self, q[i])
    BY DEF Dues
  <2>2. \A i \in DOMAIN q : Due(self, q[i]) \in Nat
    BY DueIsNat DEF ProperTxs
  <2> QED BY <2>1, <2>2
<1> QED BY <1>3, <1>4

LEMMA BackedStays ==
  ASSUME NEW self, NEW p, ProperTxs(p), NEW q, ProperTxs(q), Extends(q, p), NEW ids \in SUBSET DOMAIN p,
         NEW total, Backed(self, p, ids, total)
  PROVE  Backed(self, q, ids, total)
<1> SUFFICES ASSUME NEW S \in SUBSET ids PROVE SumOver(Dues(self, q), S) <= total
  BY DEF Backed
<1>1. IsFiniteSet(S)
  BY DuesFacts, FS_Subset
<1>2. Agree(Dues(self, q), Dues(self, p), S)
  BY DEF Agree, Dues, Extends
<1>3. SumOver(Dues(self, q), S) = SumOver(Dues(self, p), S)
  BY <1>1, <1>2, SumSame
<1> QED BY <1>3 DEF Backed

LEMMA BackedMore ==
  ASSUME NEW self, NEW q, ProperTxs(q), NEW ids \in SUBSET DOMAIN q, NEW total \in Nat, Backed(self, q, ids, total),
         NEW x \in DOMAIN q, NEW d \in Nat, Due(self, q[x]) <= d
  PROVE  Backed(self, q, ids \cup {x}, total + d)
<1> SUFFICES ASSUME NEW S \in SUBSET (ids \cup {x}) PROVE SumOver(Dues(self, q), S) <= total + d
  BY DEF Backed
<1> DEFINE w == Dues(self, q)
<1>1. IsFiniteSet(S) /\ w[x] \in Nat /\ w[x] <= d /\ \A i \in S : w[i] \in Nat /\ w[i] \in Int
  <2>1. S \subseteq DOMAIN q
    OBVIOUS
  <2>2. IsFiniteSet(S) /\ \A i \in DOMAIN q : w[i] = Due(self, q[i]) /\ w[i] \in Nat
    BY <2>1, DuesFacts, FS_Subset
  <2> HIDE DEF w
  <2> QED BY <2>1, <2>2
<1>2. IsFiniteSet(S \ {x}) /\ SumOver(w, S \ {x}) <= total
  BY <1>1, FS_Subset DEF Backed
<1>3. SumOver(w, S \ {x}) \in Nat
  BY <1>1, <1>2, SumIsNat
<1>4. CASE x \in S
  <2>1. SumOver(w, S) = w[x] + SumOver(w, S \ {x})
    BY <1>1, <1>4, SumRemove
  <2> HIDE DEF w
  <2>2. SumOver(w, S) <= total + d
    BY <1>1, <1>2, <1>3, <2>1
  <2> QED BY <2>2 DEF w
<1>5. CASE x \notin S
  <2>1. S \ {x} = S
    BY <1>5
  <2> HIDE DEF w
  <2>2. SumOver(w, S) <= total + d
    BY <1>2, <1>3, <2>1
  <2> QED BY <2>2 DEF w
<1> QED BY <1>4, <1>5

LEMMA AppendProper ==
  ASSUME NEW q, ProperTxs(q), NEW x, ProperTx(x)
  PROVE  /\ ProperTxs(Append(q, x)) /\ Extends(Append(q, x), q) /\ Append(q, x)[Len(q) + 1] = x
         /\ DOMAIN Append(q, x) = DOMAIN q \cup {Len(q) + 1} /\ Len(q) + 1 \notin DOMAIN q
<1>1. /\ Len(q) \in Nat /\ DOMAIN q = 1 .. Len(q) /\ x \in Transactions /\ Append(q, x) \in Seq(Transactions)
      /\ DOMAIN Append(q, x) = 1 .. Len(q) + 1
      /\ Append(q, x)[Len(q) + 1] = x /\ \A i \in 1 .. Len(q) : Append(q, x)[i] = q[i]
  BY DEF ProperTxs, ProperTx
<1>2. DOMAIN Append(q, x) = DOMAIN q \cup {Len(q) + 1} /\ Len(q) + 1 \notin DOMAIN q
  BY <1>1
<1> QED BY <1>1, <1>2 DEF ProperTxs, Extends

-----------------------------------------------------------------------------
(* The inductive invariant: the amounts, ...                               *)
AmountsInv ==
  /\ ledgers \in Ledgers
  /\ done \in [deposited : Nat, issued : Nat, destroyed : Nat]
  /\ Supply(ledgers) + done.destroyed <= done.issued
  /\ Deposits(ledgers) <= done.deposited
  /\ Backed(Gateway, transactions, executed, done.destroyed)
  /\ Backed(Peg!SystemToken, transactions, executed, done.deposited)

(* ... what blocks list of a transaction, which of them get an event, ...  *)
ListedRight(receipt) ==
  /\ receipt.id \in DOMAIN transactions
  /\ receipt.id \in executed \/ transactions[receipt.id].kind = "delayed"
  /\ transactions[receipt.id].kind = "built" => receipt.packed

ReportedRight(id) ==
  /\ id \in executed \/ transactions[id].kind = "delayed"
  /\ LET x == transactions[id] IN Due(x.actions[1].account, x) = x.actions[1].quantity.amount

(* ... and the lists themselves.                                           *)
ListsInv ==
  /\ ProperTxs(transactions) /\ executed \subseteq DOMAIN transactions
  /\ receipts \in Seq([id : Nat, packed : BOOLEAN]) /\ \A i \in DOMAIN receipts : ListedRight(receipts[i])
  /\ position \in 0 .. Len(receipts)
  /\ reported \subseteq DOMAIN transactions /\ \A id \in reported : ReportedRight(id)
  /\ missed = {}

PegInv == AmountsInv /\ ListsInv

LEMMA ToldIsBacked ==
  ASSUME ListsInv, NEW self \in {Peg!SystemToken, Gateway}, NEW total, Backed(self, transactions, executed, total)
  PROVE  Peg!Told(self) <= total /\ Peg!Told(self) \in Nat
<1> DEFINE ids == reported \cap executed
           w == Peg!EventAmounts(self)
           v == Dues(self, transactions)
<1>1. Peg!Told(self) = SumOver(w, ids)
  BY Zenon DEF Peg!Told, SumOver, Peg!MapThenSumSet, Peg!MapThenFoldSet, MapThenSumSet, MapThenFoldSet
<1>2. ids \subseteq DOMAIN transactions /\ ids \in SUBSET executed /\ IsFiniteSet(ids)
  BY DuesFacts, FS_Subset DEF ListsInv
<1>3. ASSUME NEW id \in ids PROVE w[id] = v[id] /\ v[id] \in Nat
  <2> DEFINE x == transactions[id]
             a == x.actions[1]
  <2>1. id \in DOMAIN transactions /\ ProperTx(x) /\ Due(a.account, x) = a.quantity.amount
    BY <1>2 DEF ListsInv, ProperTxs, ReportedRight
  <2>2. w[id] = (IF a.account = self THEN a.quantity.amount ELSE 0) /\ v[id] = Due(self, x) /\ v[id] \in Nat
    BY <2>1, DueIsNat DEF Peg!EventAmounts, Dues
  <2>3. a.account # self => Due(self, x) = 0
    BY PegNames DEF Due, Counts, Peg!IsDestruction, Peg!IsDeposit
  <2> QED BY <2>1, <2>2, <2>3
<1> HIDE DEF w, v, ids
<1>4. Agree(w, v, ids) /\ SumOver(v, ids) \in Nat
  BY <1>2, <1>3, SumIsNat DEF Agree
<1>5. SumOver(w, ids) = SumOver(v, ids) /\ SumOver(v, ids) <= total
  BY <1>2, <1>4, SumSame DEF Backed, v
<1> QED BY <1>1, <1>4, <1>5

LEMMA PegSafe == PegInv => PegSound /\ BuiltIsReported
<1> SUFFICES ASSUME PegInv PROVE PegSound /\ BuiltIsReported
  OBVIOUS
<1>1. /\ ledgers[Peg!SystemToken] \in Banks /\ ledgers[Gateway] \in Banks /\ Supply(ledgers) \in Nat
      /\ done.issued \in Nat /\ done.destroyed \in Nat /\ done.deposited \in Nat
  BY LedgerNumbers, PegNames DEF PegInv, AmountsInv, Ledgers
<1>2. Peg!Sys!TypeOK /\ Peg!Peg!TypeOK
  BY <1>1, PegNames DEF Peg!Sys!TypeOK, Peg!Peg!TypeOK, Peg!Sys!Rows, Peg!Peg!Rows, Banks
<1>3. Peg!TypeOK
  <2>1. \A id \in DOMAIN transactions : transactions[id].kind \in Peg!Kinds
    BY DEF PegInv, ListsInv, ProperTxs, ProperTx, Transactions
  <2> QED BY <1>2, <2>1 DEF PegInv, AmountsInv, ListsInv, Peg!TypeOK
<1>4. Peg!Told(Gateway) <= done.destroyed /\ Peg!Told(Peg!SystemToken) <= done.deposited
  BY ToldIsBacked DEF PegInv, AmountsInv
<1>5. Peg!Told(Gateway) \in Nat
  BY ToldIsBacked DEF PegInv, AmountsInv
<1>6. Peg!PegHolds
  BY <1>1, <1>4, <1>5 DEF PegInv, AmountsInv, Peg!PegHolds, Supply
<1>7. Peg!DepositsAreReal
  BY <1>4, PegNames, LedgerNumbers DEF PegInv, AmountsInv, Peg!DepositsAreReal, Deposits
<1>8. Peg!OnlyDelayedAreEarly /\ Peg!BuiltIsReported
  BY DEF PegInv, ListsInv, ReportedRight, Peg!OnlyDelayedAreEarly, Peg!BuiltIsReported
<1> QED BY <1>3, <1>6, <1>7, <1>8 DEF PegSound, BuiltIsReported

LEMMA PegInitial == Peg!Init => PegInv
<1> SUFFICES ASSUME Peg!Init PROVE PegInv
  OBVIOUS
<1> DEFINE total == 2 * Cardinality(Users)
<1>1. total \in Nat
  <2>1. IsFiniteSet(Users)
    BY PegConstants, Zenon DEF Peg!BridgeAssumption, Peg!IsFiniteSet, IsFiniteSet
  <2> QED BY <2>1, FS_CardinalityType
<1>2. Peg!Supply * Peg!Cardinality(Users) = total
  BY Zenon DEF Peg!Supply, Peg!Cardinality, Cardinality
<1> DEFINE row(self, n) == IF self = Peg!SystemToken /\ n = "EOS"
                           THEN [issuer |-> Peg!SystemToken, supply |-> total, max_supply |-> total, precision |-> 4]
                           ELSE [issuer |-> self, supply |-> 0, max_supply |-> 0, precision |-> 0]
           balance(self, a, n) == IF self = Peg!SystemToken /\ n = "EOS" /\ a \in Users THEN Peg!Supply ELSE 0
           bank(self) == [stat |-> [n \in Peg!Tokens |-> row(self, n)],
                          accounts |-> [a \in Peg!Everybody |-> [n \in Peg!Tokens |-> balance(self, a, n)]]]
<1>3. ledgers = [self \in {Peg!SystemToken, Gateway} |-> bank(self)]
  BY <1>2 DEF Peg!Init, Peg!InitialLedgers
<1> HIDE DEF total
<1>4. \A self \in {Peg!SystemToken, Gateway} : bank(self) \in Banks
  <2>1. \A self \in {Peg!SystemToken, Gateway} : \A n \in Peg!Tokens :
          row(self, n) \in [issuer : Peg!Everybody, supply : Nat, max_supply : Nat, precision : {0, 4, 8}]
    BY <1>1, PegNames
  <2>2. \A self \in {Peg!SystemToken, Gateway} : \A a \in Peg!Everybody : \A n \in Peg!Tokens : balance(self, a, n) \in Nat
    BY DEF Peg!Supply
  <2> HIDE DEF row, balance
  <2> QED BY <2>1, <2>2 DEF Banks
<1>5. ledgers \in Ledgers
  <2> HIDE DEF bank
  <2> QED BY <1>3, <1>4 DEF Ledgers
<1>6. Supply(ledgers) = 0 /\ Deposits(ledgers) = 0
  BY <1>3, PegNames, PegConstants DEF Supply, Deposits, Peg!BridgeAssumption
<1>7. ProperTxs(transactions) /\ transactions = <<>> /\ executed = {}
  BY DEF Peg!Init, ProperTxs
<1>8. \A self \in {Peg!SystemToken, Gateway} : Backed(self, transactions, {}, 0)
  <2>1. \A self : \A S \in SUBSET {} : SumOver(Dues(self, transactions), S) = 0
    BY SumEmpty
  <2> QED BY <2>1 DEF Backed
<1>9. ListsInv
  BY <1>7 DEF Peg!Init, ListsInv
<1> QED BY <1>5, <1>6, <1>7, <1>8, <1>9 DEF PegInv, AmountsInv, Peg!Init

(* A transaction was executed, and what it moved is accounted for.         *)
Ran(id, dep, iss, des) ==
  /\ executed' = executed \cup {id}
  /\ ledgers' \in Ledgers /\ Supply(ledgers') + des = Supply(ledgers) + iss
  /\ Deposits(ledgers') <= Deposits(ledgers) + dep
  /\ done' = [deposited |-> done.deposited + dep, issued |-> done.issued + iss, destroyed |-> done.destroyed + des]

Moves(actions, dep, des) ==
  \A x : x.actions = actions => Due(Gateway, x) <= des /\ Due(Peg!SystemToken, x) <= dep

LEMMA RunOne ==
  ASSUME AmountsInv, NEW a, Proper(a), NEW id, Peg!Run(id, <<a>>)
  PROVE  \E dep, iss, des \in Nat : Ran(id, dep, iss, des) /\ Moves(<<a>>, dep, des)
<1> DEFINE dep == Counts(Peg!IsDeposit(a), a)
           iss == Counts(Peg!IsIssue(a), a)
           des == Counts(Peg!IsDestruction(a), a)
<1>1. executed' = executed \cup {id} /\ ledgers' \in Peg!Execute(ledgers, a)
  BY DEF Peg!Run
<1>2. dep \in Nat /\ iss \in Nat /\ des \in Nat
  BY DEF Counts, Proper, Actions, Quantities
<1>3. /\ Peg!Moved(<<a>>, Peg!IsDeposit) = dep /\ Peg!Moved(<<a>>, Peg!IsIssue) = iss
      /\ Peg!Moved(<<a>>, Peg!IsDestruction) = des
  BY <1>2 DEF Peg!Moved, Counts
<1>4. done' = [deposited |-> done.deposited + dep, issued |-> done.issued + iss, destroyed |-> done.destroyed + des]
  BY <1>3, Zenon DEF Peg!Run
<1>5. Moves(<<a>>, dep, des)
  BY <1>2, PegNames DEF Moves, Due, Counts
<1>6. Executed(ledgers, ledgers', a)
  BY <1>1, ExecuteFacts DEF AmountsInv
<1> HIDE DEF dep, iss, des
<1>7. /\ ledgers' \in Ledgers /\ Supply(ledgers') + des = Supply(ledgers) + iss
      /\ Deposits(ledgers') <= Deposits(ledgers) + dep
  BY <1>6 DEF Executed, dep, iss, des
<1> QED BY <1>1, <1>2, <1>4, <1>5, <1>7 DEF Ran

LEMMA RunTwo ==
  ASSUME AmountsInv, NEW a, Proper(a), NEW b, Proper(b), NEW id, Peg!Run(id, <<a, b>>)
  PROVE  \E dep, iss, des \in Nat : Ran(id, dep, iss, des) /\ Moves(<<a, b>>, dep, des)
<1> DEFINE dep == Counts(Peg!IsDeposit(a), a) + Counts(Peg!IsDeposit(b), b)
           iss == Counts(Peg!IsIssue(a), a) + Counts(Peg!IsIssue(b), b)
           des == Counts(Peg!IsDestruction(a), a) + Counts(Peg!IsDestruction(b), b)
<1>1. executed' = executed \cup {id} /\ \E l \in Peg!Execute(ledgers, a) : ledgers' \in Peg!Execute(l, b)
  BY DEF Peg!Run
<1>2. \A c \in {a, b} : \A t \in BOOLEAN : Counts(t, c) \in Nat
  BY DEF Counts, Proper, Actions, Quantities
<1>3. \A c \in {a, b} : Peg!IsDeposit(c) \in BOOLEAN /\ Peg!IsIssue(c) \in BOOLEAN /\ Peg!IsDestruction(c) \in BOOLEAN
  BY DEF Peg!IsDeposit, Peg!IsIssue, Peg!IsDestruction
<1>4. /\ Counts(Peg!IsDeposit(a), a) \in Nat /\ Counts(Peg!IsDeposit(b), b) \in Nat
      /\ Counts(Peg!IsIssue(a), a) \in Nat /\ Counts(Peg!IsIssue(b), b) \in Nat
      /\ Counts(Peg!IsDestruction(a), a) \in Nat /\ Counts(Peg!IsDestruction(b), b) \in Nat
  BY <1>2, <1>3
<1>5. /\ Peg!Moved(<<a, b>>, Peg!IsDeposit) = dep /\ Peg!Moved(<<a, b>>, Peg!IsIssue) = iss
      /\ Peg!Moved(<<a, b>>, Peg!IsDestruction) = des
  BY DEF Peg!Moved, Counts
<1>6. done' = [deposited |-> done.deposited + dep, issued |-> done.issued + iss, destroyed |-> done.destroyed + des]
  BY <1>5, Zenon DEF Peg!Run
<1>7. PICK l \in Peg!Execute(ledgers, a) : ledgers' \in Peg!Execute(l, b)
  BY <1>1
<1>8. Executed(ledgers, l, a)
  BY ExecuteFacts DEF AmountsInv
<1>9. Executed(l, ledgers', b)
  BY <1>7, <1>8, ExecuteFacts DEF Executed
<1>10. Supply(l) \in Nat /\ Deposits(l) \in Nat /\ ledgers \in Ledgers /\ Supply(ledgers) \in Nat /\ Deposits(ledgers) \in Nat
  BY <1>8, LedgerNumbers DEF Executed, AmountsInv
<1>11. ledgers' \in Ledgers /\ Supply(ledgers') \in Nat /\ Deposits(ledgers') \in Nat
  BY <1>9, LedgerNumbers DEF Executed
<1>12. /\ Supply(ledgers') + des = Supply(ledgers) + iss
       /\ Deposits(ledgers') <= Deposits(ledgers) + dep
  BY <1>4, <1>8, <1>9, <1>10, <1>11 DEF Executed
<1>13. dep \in Nat /\ iss \in Nat /\ des \in Nat
  BY <1>4
<1> HIDE DEF dep, iss, des
<1>14. Moves(<<a, b>>, dep, des)
  BY <1>13 DEF Moves, Due, Counts
<1> QED BY <1>1, <1>6, <1>11, <1>12, <1>13, <1>14 DEF Ran

LEMMA RanKeeps ==
  ASSUME PegInv, NEW id, NEW dep \in Nat, NEW iss \in Nat, NEW des \in Nat, Ran(id, dep, iss, des),
         ProperTxs(transactions'), Extends(transactions', transactions), id \in DOMAIN transactions',
         Due(Gateway, transactions'[id]) <= des, Due(Peg!SystemToken, transactions'[id]) <= dep
  PROVE  AmountsInv'
<1>1. /\ Supply(ledgers) \in Nat /\ Supply(ledgers') \in Nat /\ Deposits(ledgers) \in Nat /\ Deposits(ledgers') \in Nat
      /\ done.issued \in Nat /\ done.destroyed \in Nat /\ done.deposited \in Nat
  BY LedgerNumbers DEF PegInv, AmountsInv, Ran
<1>2. executed \in SUBSET DOMAIN transactions /\ executed \in SUBSET DOMAIN transactions' /\ ProperTxs(transactions)
  BY DEF PegInv, ListsInv, Extends
<1>3. /\ Backed(Gateway, transactions', executed, done.destroyed)
      /\ Backed(Peg!SystemToken, transactions', executed, done.deposited)
  BY <1>2, BackedStays DEF PegInv, AmountsInv
<1>4. /\ Backed(Gateway, transactions', executed', done.destroyed + des)
      /\ Backed(Peg!SystemToken, transactions', executed', done.deposited + dep)
  BY <1>1, <1>2, <1>3, BackedMore DEF Ran
<1>5. /\ done'.deposited = done.deposited + dep /\ done'.issued = done.issued + iss
      /\ done'.destroyed = done.destroyed + des
      /\ done' = [deposited |-> done.deposited + dep, issued |-> done.issued + iss, destroyed |-> done.destroyed + des]
  BY DEF Ran
<1>6. Supply(ledgers') + (done.destroyed + des) <= done.issued + iss
  <2>1. \A s0, s1, d, i \in Nat : s1 + des = s0 + iss /\ s0 + d <= i => s1 + (d + des) <= i + iss
    OBVIOUS
  <2> QED BY <1>1, <2>1 DEF PegInv, AmountsInv, Ran
<1>7. Deposits(ledgers') <= done.deposited + dep
  BY <1>1 DEF PegInv, AmountsInv, Ran
<1>8. done' \in [deposited : Nat, issued : Nat, destroyed : Nat]
  <2>1. \A m, n \in Nat : m + n \in Nat
    OBVIOUS
  <2>2. done.deposited + dep \in Nat /\ done.issued + iss \in Nat /\ done.destroyed + des \in Nat
    BY <1>1, <2>1
  <2> QED BY <1>5, <2>2
<1>9. Supply(ledgers)' = Supply(ledgers') /\ Deposits(ledgers)' = Deposits(ledgers') /\ ledgers' \in Ledgers
  BY DEF Supply, Deposits, Ran
<1> QED BY <1>4, <1>5, <1>6, <1>7, <1>8, <1>9 DEF AmountsInv

(* The lists after a new transaction, executed or delayed, or a receipt.   *)
LEMMA AcceptKeeps ==
  ASSUME ListsInv, NEW x, ProperTx(x), Peg!Accept(x.actions, x.kind),
         executed' = executed \cup {Peg!NextId} \/ (executed' = executed /\ x.kind = "delayed")
  PROVE  /\ ListsInv' /\ Extends(transactions', transactions) /\ Peg!NextId \in DOMAIN transactions'
         /\ transactions'[Peg!NextId] = x
<1> DEFINE id == Len(transactions) + 1
           receipt == [id |-> id, packed |-> x.kind # "deferred"]
<1>0. ProperTxs(transactions) /\ id = Peg!NextId
  BY DEF ListsInv, Peg!NextId
<1>1. /\ transactions' = Append(transactions, x) /\ receipts' = Append(receipts, receipt)
      /\ UNCHANGED <<position, reported, missed>>
  <2>1. x = [actions |-> x.actions, kind |-> x.kind]
    BY DEF ProperTx, Transactions
  <2> QED BY <1>0, <2>1 DEF Peg!Accept
<1>2. /\ ProperTxs(transactions') /\ Extends(transactions', transactions) /\ transactions'[id] = x
      /\ DOMAIN transactions' = DOMAIN transactions \cup {id} /\ id \notin DOMAIN transactions
  BY <1>0, <1>1, AppendProper
<1>3. id \in Nat /\ Len(receipts) \in Nat /\ receipt \in [id : Nat, packed : BOOLEAN]
  BY <1>0 DEF ListsInv, ProperTxs
<1>4. /\ receipts' \in Seq([id : Nat, packed : BOOLEAN]) /\ Len(receipts') = Len(receipts) + 1
      /\ \A i \in DOMAIN receipts' : receipts'[i] = receipt \/ (i \in DOMAIN receipts /\ receipts'[i] = receipts[i])
  BY <1>1, <1>3 DEF ListsInv
<1>5. executed \subseteq executed' /\ executed' \subseteq DOMAIN transactions' /\ (id \in executed' \/ x.kind = "delayed")
  BY <1>0, <1>2 DEF ListsInv
<1>6. \A i \in DOMAIN transactions : i \in DOMAIN transactions' /\ transactions'[i] = transactions[i]
  BY <1>2 DEF Extends
<1>7. /\ id \in DOMAIN transactions' /\ transactions'[id] = x
      /\ receipt.id = id /\ receipt.packed = (x.kind # "deferred")
  BY <1>2
<1>9. ASSUME NEW i \in DOMAIN receipts' PROVE ListedRight(receipts[i])'
  <2>1. CASE receipts'[i] = receipt
    <3> HIDE DEF id, receipt
    <3> QED BY <1>5, <1>7, <2>1 DEF ListedRight
  <2>2. CASE i \in DOMAIN receipts /\ receipts'[i] = receipts[i]
    <3>1. ListedRight(receipts[i])
      BY <2>2 DEF ListsInv
    <3> QED BY <1>5, <1>6, <2>2, <3>1 DEF ListedRight
  <2> QED BY <1>4, <2>1, <2>2
<1>10. reported' \subseteq DOMAIN transactions' /\ \A r \in reported' : ReportedRight(r)'
  BY <1>1, <1>2, <1>5, <1>6 DEF ListsInv, ReportedRight
<1>11. position' \in 0 .. Len(receipts') /\ missed' = {}
  BY <1>1, <1>3, <1>4 DEF ListsInv
<1> QED BY <1>0, <1>2, <1>4, <1>5, <1>9, <1>10, <1>11 DEF ListsInv

LEMMA SubmitKeeps ==
  ASSUME PegInv, NEW x, ProperTx(x), Peg!Accept(x.actions, x.kind), Peg!Run(Peg!NextId, x.actions),
         \E dep, iss, des \in Nat : Ran(Peg!NextId, dep, iss, des) /\ Moves(x.actions, dep, des)
  PROVE  PegInv'
<1>1. PICK dep, iss, des \in Nat : Ran(Peg!NextId, dep, iss, des) /\ Moves(x.actions, dep, des)
  OBVIOUS
<1>2. /\ ListsInv' /\ Extends(transactions', transactions) /\ Peg!NextId \in DOMAIN transactions'
      /\ transactions'[Peg!NextId] = x
  BY <1>1, AcceptKeeps DEF Ran, PegInv
<1>3. Due(Gateway, x) <= des /\ Due(Peg!SystemToken, x) <= dep
  BY <1>1 DEF Moves
<1>4. AmountsInv'
  BY <1>1, <1>2, <1>3, RanKeeps DEF ListsInv
<1> QED BY <1>2, <1>4 DEF PegInv

LEMMA SubmitOneKeeps ==
  ASSUME PegInv, NEW a, Proper(a), NEW kind \in {"built", "deferred"},
         Peg!Accept(<<a>>, kind), Peg!Run(Peg!NextId, <<a>>)
  PROVE  PegInv'
<1> DEFINE x == [actions |-> <<a>>, kind |-> kind]
<1>1. ProperTx(x) /\ x.actions = <<a>> /\ x.kind = kind
  BY DEF ProperTx, Transactions, Proper, Peg!Kinds
<1>2. \E dep, iss, des \in Nat : Ran(Peg!NextId, dep, iss, des) /\ Moves(<<a>>, dep, des)
  BY RunOne DEF PegInv
<1> HIDE DEF x
<1> QED BY <1>1, <1>2, SubmitKeeps

LEMMA SubmitTwoKeeps ==
  ASSUME PegInv, NEW a, Proper(a), NEW b, Proper(b), Peg!Accept(<<a, b>>, "two"), Peg!Run(Peg!NextId, <<a, b>>)
  PROVE  PegInv'
<1> DEFINE x == [actions |-> <<a, b>>, kind |-> "two"]
<1>1. ProperTx(x) /\ x.actions = <<a, b>> /\ x.kind = "two"
  BY DEF ProperTx, Transactions, Proper, Peg!Kinds
<1>2. \E dep, iss, des \in Nat : Ran(Peg!NextId, dep, iss, des) /\ Moves(<<a, b>>, dep, des)
  BY RunTwo DEF PegInv
<1> HIDE DEF x
<1> QED BY <1>1, <1>2, SubmitKeeps

LEMMA SubmitDelayedKeeps ==
  ASSUME PegInv, NEW a, Proper(a), Peg!Accept(<<a>>, "delayed"), UNCHANGED <<ledgers, executed, done>>
  PROVE  PegInv'
<1> DEFINE x == [actions |-> <<a>>, kind |-> "delayed"]
<1>1. ProperTx(x) /\ x.actions = <<a>> /\ x.kind = "delayed"
  BY DEF ProperTx, Transactions, Proper, Peg!Kinds
<1> HIDE DEF x
<1>2. ListsInv' /\ Extends(transactions', transactions)
  BY <1>1, AcceptKeeps DEF PegInv
<1>3. /\ Backed(Gateway, transactions', executed, done.destroyed)
      /\ Backed(Peg!SystemToken, transactions', executed, done.deposited)
  BY <1>2, BackedStays DEF PegInv, AmountsInv, ListsInv
<1>4. AmountsInv'
  BY <1>3 DEF PegInv, AmountsInv, Supply, Deposits
<1> QED BY <1>2, <1>4 DEF PegInv

LEMMA ExecuteDelayedKeeps == ASSUME PegInv, Peg!ExecuteDelayed PROVE PegInv'
<1>1. PICK id \in DOMAIN transactions \ executed :
        /\ transactions[id].kind = "delayed" /\ Peg!Run(id, transactions[id].actions)
        /\ receipts' = Append(receipts, [id |-> id, packed |-> FALSE])
  BY DEF Peg!ExecuteDelayed
<1> DEFINE x == transactions[id]
           a == x.actions[1]
           receipt == [id |-> id, packed |-> FALSE]
<1>2. UNCHANGED <<transactions, position, reported, missed>>
  BY DEF Peg!ExecuteDelayed
<1>3. ProperTxs(transactions) /\ ProperTx(x) /\ Len(receipts) \in Nat /\ id \in Nat
  BY <1>1 DEF PegInv, ListsInv, ProperTxs
<1>4. Proper(a) /\ x.actions = <<a>>
  BY <1>1, <1>3 DEF ProperTx, Transactions
<1>5. \E dep, iss, des \in Nat : Ran(id, dep, iss, des) /\ Moves(<<a>>, dep, des)
  <2>1. Peg!Run(id, <<a>>)
    BY <1>1, <1>4
  <2> HIDE DEF a
  <2> QED BY <1>4, <2>1, RunOne DEF PegInv
<1>6. PICK dep, iss, des \in Nat : Ran(id, dep, iss, des) /\ Moves(<<a>>, dep, des)
  BY <1>5
<1>7. AmountsInv'
  <2>1. Due(Gateway, x) <= des /\ Due(Peg!SystemToken, x) <= dep
    BY <1>4, <1>6 DEF Moves
  <2>2. Extends(transactions', transactions) /\ ProperTxs(transactions')
    BY <1>2, <1>3 DEF Extends
  <2> QED BY <1>1, <1>2, <1>6, <2>1, <2>2, RanKeeps
<1>8. executed' = executed \cup {id} /\ executed' \subseteq DOMAIN transactions
  BY <1>6 DEF Ran, PegInv, ListsInv
<1>9. /\ receipts' \in Seq([id : Nat, packed : BOOLEAN]) /\ Len(receipts') = Len(receipts) + 1
      /\ \A i \in DOMAIN receipts' : receipts'[i] = receipt \/ (i \in DOMAIN receipts /\ receipts'[i] = receipts[i])
  BY <1>1, <1>3 DEF PegInv, ListsInv
<1>10. ASSUME NEW i \in DOMAIN receipts' PROVE ListedRight(receipts[i])'
  <2>1. CASE receipts'[i] = receipt
    <3>1. receipts'[i].id = id
      BY <2>1
    <3> QED BY <1>1, <1>2, <1>8, <3>1 DEF ListedRight
  <2>2. CASE i \in DOMAIN receipts /\ receipts'[i] = receipts[i]
    <3>1. ListedRight(receipts[i])
      BY <2>2 DEF PegInv, ListsInv
    <3> QED BY <1>2, <1>8, <2>2, <3>1 DEF ListedRight
  <2> QED BY <1>9, <2>1, <2>2
<1>11. \A r \in reported' : ReportedRight(r)'
  BY <1>2, <1>8 DEF PegInv, ListsInv, ReportedRight
<1>12. position' \in 0 .. Len(receipts') /\ missed' = {} /\ reported' \subseteq DOMAIN transactions'
  BY <1>2, <1>3, <1>9 DEF PegInv, ListsInv
<1>13. ListsInv'
  BY <1>2, <1>3, <1>8, <1>9, <1>10, <1>11, <1>12 DEF ListsInv
<1> QED BY <1>7, <1>13 DEF PegInv

(* What the scan makes of a receipt.                                       *)
LEMMA ScanFacts ==
  ASSUME NEW x, ProperTx(x), NEW receipt
  PROVE  LET a == x.actions[1] IN
         /\ Peg!IsEvent(receipt, x) => Due(a.account, x) = a.quantity.amount
         /\ Peg!Expected(x) /\ receipt.packed => Peg!IsEvent(receipt, x)
<1> DEFINE a == x.actions[1]
           r == Peg!Seen(receipt, x)
           pushed == \E i \in DOMAIN Peg!Watched : Peg!Events!Pushes(r, Peg!Watched, i, Gateway)
<1>0. /\ Gateway # Peg!SystemToken /\ Wrapped.ActionAccount = Gateway /\ Wrapped.ActionNameDestroy = "solvent"
      /\ Wrapped.ActionNameCreate = "issue" /\ Peg!Events!SystemToken = Peg!SystemToken
      /\ a.account \in {Peg!SystemToken, Gateway} /\ Proper(a)
  BY PegConstants, PegNames DEF Peg!BridgeAssumption, Peg!Events!SystemToken, Peg!SystemToken, ProperTx, Proper, Actions
<1>1. Peg!IsEvent(receipt, x) <=> pushed
  BY DEF Peg!IsEvent, Peg!Events!UpdateEOSPushEvent, Peg!Events!EventFrom, Peg!Events!NoEvent
<1>2. /\ r.packed = receipt.packed /\ r.unpacks /\ r.standard /\ r.actions = Len(x.actions) /\ r.account = a.account
      /\ r.name = a.name /\ r.to = a.to /\ r.quantity.Symbol = a.quantity.symbol.name
      /\ r.quantity.Precision = a.quantity.symbol.precision
  BY DEF Peg!Seen
<1>3. /\ DOMAIN Peg!Watched = {1, 2} /\ Peg!Watched[1].ActionAccount = Peg!SystemToken
      /\ Peg!Watched[1].ActionNameDestroy = "transfer" /\ Peg!Watched[2] = Wrapped
  BY DEF Peg!Watched, Peg!EOS
<1> HIDE DEF r
<1>4. ASSUME pushed PROVE Due(a.account, x) = a.quantity.amount
  <2>1. /\ Len(x.actions) = 1
        /\ \E i \in {1, 2} : /\ a.account = Peg!Watched[i].ActionAccount /\ a.name = Peg!Watched[i].ActionNameDestroy
                             /\ \E type : Peg!Events!ParsesTyped(r, type, Peg!Watched[i], Gateway)
    BY <1>2, <1>3, <1>4 DEF Peg!Events!Pushes
  <2>2. a.account = Peg!SystemToken => Peg!IsDeposit(a)
    BY <1>0, <1>2, <1>3, <2>1 DEF Peg!Events!ParsesTyped, Peg!Events!TypedTransfer, Peg!IsDeposit
  <2>3. a.account = Gateway => Peg!IsDestruction(a)
    BY <1>0, <1>3, <2>1 DEF Peg!IsDestruction
  <2> QED BY <1>0, <2>1, <2>2, <2>3 DEF Due, Counts
<1>5. ASSUME Peg!Expected(x), receipt.packed PROVE pushed
  <2>1. /\ Len(x.actions) = 1 /\ a.account = Gateway /\ a.name = "solvent"
        /\ a.quantity.symbol.name = Wrapped.Symbol /\ a.quantity.symbol.precision = Wrapped.Precision
    BY <1>0, <1>5 DEF ProperTx, Proper, Peg!IsDestruction, Peg!Expected
  <2> DEFINE by == {i \in DOMAIN Peg!Watched : Peg!Events!Registers(Peg!Watched[i], Gateway, "solvent")}
  <2>2. by = {2}
    BY <1>0, <1>3 DEF Peg!Events!Registers
  <2> HIDE DEF by
  <2>3. (CHOOSE i \in by : \A j \in by : j <= i) = 2
    BY <2>2
  <2>4. Peg!Events!RegisteredType(Peg!Watched, Gateway, "solvent") = "Solvent"
    <3>1. by # {} /\ "solvent" # Peg!Watched[CHOOSE i \in by : \A j \in by : j <= i].ActionNameCreate
      BY <1>0, <1>3, <2>2, <2>3
    <3> QED BY <3>1, Zenon DEF Peg!Events!RegisteredType, by
  <2>5. Peg!Events!ParsesTyped(r, "Solvent", Wrapped, Gateway)
    BY <1>2, <2>1 DEF Peg!Events!ParsesTyped, Peg!Events!TypedSolvent, Peg!Events!IsQuantityOf
  <2>6. Peg!Events!Pushes(r, Peg!Watched, 2, Gateway)
    BY <1>0, <1>2, <1>3, <1>5, <2>1, <2>4, <2>5 DEF Peg!Events!Pushes
  <2> QED BY <1>3, <2>6
<1> QED BY <1>1, <1>4, <1>5

LEMMA ScanKeeps == ASSUME PegInv, Peg!Scan PROVE PegInv'
<1> DEFINE receipt == receipts[position + 1]
           id == receipt.id
           x == transactions[id]
<1>1. /\ position < Len(receipts) /\ position' = position + 1
      /\ UNCHANGED <<ledgers, transactions, executed, receipts, done>>
      /\ reported' = IF Peg!IsEvent(receipt, x) THEN reported \cup {id} ELSE reported
      /\ missed' = IF ~ Peg!IsEvent(receipt, x) /\ Peg!Expected(x) THEN missed \cup {id} ELSE missed
  BY DEF Peg!Scan
<1>2. position' \in DOMAIN receipts /\ position' \in 0 .. Len(receipts)
  BY <1>1 DEF PegInv, ListsInv
<1>3. ListedRight(receipt) /\ ProperTx(x)
  BY <1>1, <1>2 DEF PegInv, ListsInv, ListedRight, ProperTxs
<1>4. /\ Peg!IsEvent(receipt, x) => Due(x.actions[1].account, x) = x.actions[1].quantity.amount
      /\ Peg!Expected(x) /\ receipt.packed => Peg!IsEvent(receipt, x)
  BY <1>3, ScanFacts
<1>5. missed' = {}
  BY <1>1, <1>3, <1>4 DEF PegInv, ListsInv, ListedRight, Peg!Expected
<1>6. reported' \subseteq DOMAIN transactions' /\ \A r \in reported' : ReportedRight(r)'
  <2>1. \A r \in reported' : ReportedRight(r)
    BY <1>1, <1>3, <1>4 DEF PegInv, ListsInv, ListedRight, ReportedRight
  <2>2. reported' \subseteq DOMAIN transactions
    BY <1>1, <1>3 DEF PegInv, ListsInv, ListedRight
  <2> QED BY <1>1, <2>1, <2>2 DEF ReportedRight
<1>7. ListsInv'
  BY <1>1, <1>2, <1>5, <1>6 DEF PegInv, ListsInv, ListedRight
<1>8. AmountsInv'
  BY <1>1 DEF PegInv, AmountsInv, Supply, Deposits
<1> QED BY <1>7, <1>8 DEF PegInv

LEMMA RestartKeeps == ASSUME PegInv, Peg!Restart PROVE PegInv'
<1>1. /\ UNCHANGED <<ledgers, transactions, executed, receipts, reported, done, missed>>
      /\ position' \in 0 .. Len(receipts)
  BY DEF Peg!Restart, PegInv, ListsInv
<1>2. ListsInv'
  BY <1>1 DEF PegInv, ListsInv, ListedRight, ReportedRight
<1>3. AmountsInv'
  BY <1>1 DEF PegInv, AmountsInv, Supply, Deposits
<1> QED BY <1>2, <1>3 DEF PegInv

LEMMA PegStep == PegInv /\ [Peg!Next]_pegVars => PegInv'
<1> SUFFICES ASSUME PegInv, [Peg!Next]_pegVars PROVE PegInv'
  OBVIOUS
<1>1. CASE Peg!SubmitBuilt
  BY <1>1, BuiltProper, SubmitOneKeeps DEF Peg!SubmitBuilt
<1>2. CASE Peg!SubmitTwo
  BY <1>2, BuiltProper, SubmitTwoKeeps DEF Peg!SubmitTwo
<1>3. CASE Peg!SubmitDeferred
  BY <1>3, BuiltProper, SubmitOneKeeps DEF Peg!SubmitDeferred
<1>4. CASE Peg!SubmitDelayed
  BY <1>4, BuiltProper, SubmitDelayedKeeps DEF Peg!SubmitDelayed
<1>5. CASE Peg!ExecuteDelayed
  BY <1>5, ExecuteDelayedKeeps
<1>6. CASE Peg!Scan
  BY <1>6, ScanKeeps
<1>7. CASE Peg!Restart
  BY <1>7, RestartKeeps
<1>8. CASE UNCHANGED pegVars
  <2>1. UNCHANGED <<ledgers, transactions, executed, receipts, position, reported, done, missed>>
    BY <1>8 DEF pegVars
  <2>2. ListsInv'
    BY <2>1 DEF PegInv, ListsInv, ListedRight, ReportedRight
  <2>3. AmountsInv'
    BY <2>1 DEF PegInv, AmountsInv, Supply, Deposits
  <2> QED BY <2>2, <2>3 DEF PegInv
<1> QED BY <1>1, <1>2, <1>3, <1>4, <1>5, <1>6, <1>7, <1>8 DEF Peg!Next

(***************************************************************************)
(* What is outstanding of the pegged token and what the gateway was told   *)
(* to pay out never exceed what was issued, and the EOS it was told of was *)
(* sent to it, whichever transactions anybody makes and however they are   *)
(* packed (the built actions, the contracts and UpdateEOSPushEvent).       *)
(***************************************************************************)
THEOREM PegCorrect == MCSpec => []PegSound
<1>1. MCInit => PegInv
  BY PegInitial DEF MCInit
<1>2. PegInv /\ [MCNext]_<<program, vars, pegVars, videoVars, parserVars>> => PegInv'
  BY PegStep DEF MCNext
<1> QED BY <1>1, <1>2, PegSafe, PTL DEF MCSpec

(***************************************************************************)
(* A destruction that a watcher built in the entry's precision and that    *)
(* the contract accepted is reported by the scan.                          *)
(***************************************************************************)
THEOREM BuiltCorrect == MCSpec => []BuiltIsReported
<1>1. MCInit => PegInv
  BY PegInitial DEF MCInit
<1>2. PegInv /\ [MCNext]_<<program, vars, pegVars, videoVars, parserVars>> => PegInv'
  BY PegStep DEF MCNext
<1> QED BY <1>1, <1>2, PegSafe, PTL DEF MCSpec

-----------------------------------------------------------------------------
(***************************************************************************)
(* The video contract.                                                     *)
(***************************************************************************)
AccountRows == [balance : 0 .. Wide - 1, profit : 0 .. Narrow - 1, expense : 0 .. Narrow - 1]
VideoRows == [user : Video!Signers, price : 0 .. Narrow - 1, orders : 0 .. Narrow - 1]
OrderRows == [id : Seq(STRING), video : Hashes, user : Video!Signers]

Tabled(table) ==
  table = [user \in Video!Signers |-> table[user]] /\ \A user \in Video!Signers : table[user] = Video!NoRow \/ table[user] \in AccountRows

(* Remainders: an integer of a given width wraps.                          *)
LEMMA Divided ==
  ASSUME NEW n \in Nat \ {0}, NEW a \in Int
  PROVE  a = n * (a \div n) + (a % n) /\ a \div n \in Int /\ a % n \in 0 .. n - 1
OBVIOUS

LEMMA Remainder ==
  ASSUME NEW n \in Nat \ {0}, NEW a \in Int, NEW q \in Int, NEW r \in 0 .. n - 1, a = n * q + r
  PROVE  a % n = r
OBVIOUS

LEMMA Congruent ==
  ASSUME NEW n \in Nat \ {0}, NEW a \in Int, NEW b \in Int, NEW k \in Int, a = b + n * k
  PROVE  a % n = b % n
<1> DEFINE q == b \div n
           r == b % n
<1>1. b = n * q + r /\ q \in Int /\ r \in 0 .. n - 1
  BY Divided
<1> HIDE DEF q, r
<1>2. a = n * (q + k) + r /\ q + k \in Int
  BY <1>1
<1>3. a % n = r /\ b % n = r
  BY <1>1, <1>2, Remainder
<1> QED BY <1>3

LEMMA OneMore ==
  ASSUME NEW n \in Nat \ {0}, NEW a \in Int
  PROVE  ((a % n) + 1) % n = (a + 1) % n
<1> DEFINE q == a \div n
           r == a % n
<1>1. a = n * q + r /\ q \in Int /\ r \in 0 .. n - 1
  BY Divided
<1> HIDE DEF q, r
<1> DEFINE x == a + 1
           y == r + 1
<1>2. x = y + n * q /\ x \in Int /\ y \in Int
  BY <1>1
<1> HIDE DEF x, y
<1>3. x % n = y % n
  BY <1>1, <1>2, Congruent
<1> QED BY <1>3 DEF r, x, y

LEMMA Wraps ==
  ASSUME NEW n \in Nat \ {0}, NEW a \in 0 .. n + n - 1
  PROVE  a % n \in 0 .. n - 1 /\ a % n = IF a < n THEN a ELSE a - n
<1>1. CASE a < n
  <2>1. a \in 0 .. n - 1 /\ a = n * 0 + a
    BY <1>1
  <2>2. a % n = a
    BY <2>1, Remainder
  <2> QED BY <2>1, <2>2
<1>2. CASE a >= n
  <2>1. a - n \in 0 .. n - 1 /\ a = n * 1 + (a - n) /\ a \in Int
    BY <1>2
  <2>2. a % n = a - n
    BY <2>1, Remainder
  <2> QED BY <1>2, <2>1, <2>2
<1> QED BY <1>1, <1>2

(* The columns of the account table, with 0 where there is no row.         *)
Cell(table, field, user) == IF table[user] = Video!NoRow THEN 0 ELSE table[user][field]
Column(table, field) == [user \in Video!Signers |-> Cell(table, field, user)]
Total(table, field) == SumOver(Column(table, field), Video!Signers)

LEMMA VideoConstants ==
  /\ Narrow \in Nat \ {0} /\ Wide \in Nat \ {0} /\ Narrow <= Wide /\ Prices \subseteq 0 .. Narrow - 1
  /\ MaxIssued \in Nat /\ Video!Signers \subseteq Seq(STRING) /\ Hashes \subseteq Seq(STRING)
  /\ IsFiniteSet(Video!Signers)
<1>1. Video!XinAssumption
  BY ChainAssumption
<1>2. IsFiniteSet(XinUsers)
  BY <1>1, Zenon DEF Video!XinAssumption, Video!IsFiniteSet, IsFiniteSet
<1>3. IsFiniteSet(Video!Signers)
  BY <1>2, FS_AddElement DEF Video!Signers
<1> QED BY <1>1, <1>3 DEF Video!XinAssumption

LEMMA RowsAreRows == \A row \in AccountRows \cup VideoRows : row # Video!NoRow
<1> SUFFICES ASSUME NEW row \in AccountRows \cup VideoRows, row = Video!NoRow PROVE FALSE
  OBVIOUS
<1>1. DOMAIN Video!NoRow = {"none"}
  BY DEF Video!NoRow
<1>2. DOMAIN row = {"balance", "profit", "expense"} \/ DOMAIN row = {"user", "price", "orders"}
  BY DEF AccountRows, VideoRows
<1> QED BY <1>1, <1>2

LEMMA CellsAreNat ==
  ASSUME NEW table, Tabled(table), NEW field \in {"balance", "profit", "expense"}
  PROVE  \A a \in Video!Signers : Cell(table, field, a) \in Nat /\ Column(table, field)[a] = Cell(table, field, a)
<1> SUFFICES ASSUME NEW a \in Video!Signers PROVE Cell(table, field, a) \in Nat
  BY DEF Column
<1>1. CASE table[a] = Video!NoRow
  BY <1>1 DEF Cell
<1>2. CASE table[a] # Video!NoRow
  <2>1. table[a] \in AccountRows
    BY <1>2 DEF Tabled
  <2>2. table[a].balance \in Nat /\ table[a].profit \in Nat /\ table[a].expense \in Nat
    BY <2>1, VideoConstants DEF AccountRows
  <2> QED BY <1>2, <2>2 DEF Cell
<1> QED BY <1>1, <1>2

(* One field of a row is written.                                          *)
Fields == {"balance", "profit", "expense"}

Wrote(t, u, a, field, value) ==
  /\ Tabled(u)
  /\ \A b \in Video!Signers : u[b] = Video!NoRow <=> t[b] = Video!NoRow
  /\ \A f \in Fields : \A b \in Video!Signers :
       Cell(u, f, b) = IF b = a /\ f = field THEN value ELSE Cell(t, f, b)

WritesBalance(t, u, a, value) == u = [t EXCEPT ![a].balance = value]
WritesProfit(t, u, a, value) == u = [t EXCEPT ![a].profit = value]
WritesExpense(t, u, a, value) == u = [t EXCEPT ![a].expense = value]

LEMMA RowWritten ==
  ASSUME NEW t, Tabled(t), NEW a \in Video!Signers, t[a] # Video!NoRow, NEW r \in AccountRows, NEW u,
         \A b \in Video!Signers : u[b] = IF b = a THEN r ELSE t[b],
         u = [b \in Video!Signers |-> u[b]],
         NEW field \in Fields, \A f \in Fields : f # field => r[f] = t[a][f]
  PROVE  Wrote(t, u, a, field, r[field])
<1>1. r # Video!NoRow
  BY RowsAreRows
<1>2. Tabled(u)
  BY DEF Tabled
<1>3. \A b \in Video!Signers : u[b] = Video!NoRow <=> t[b] = Video!NoRow
  BY <1>1
<1>4. \A f \in Fields : \A b \in Video!Signers :
        Cell(u, f, b) = IF b = a /\ f = field THEN r[field] ELSE Cell(t, f, b)
  BY <1>1, <1>3 DEF Cell
<1> QED BY <1>2, <1>3, <1>4 DEF Wrote

LEMMA BalanceWritten ==
  ASSUME NEW t, Tabled(t), NEW a \in Video!Signers, t[a] # Video!NoRow, NEW value \in 0 .. Wide - 1,
         NEW u, WritesBalance(t, u, a, value)
  PROVE  Wrote(t, u, a, "balance", value)
<1> DEFINE r == [t[a] EXCEPT !.balance = value]
<1>1. t[a] \in AccountRows
  BY DEF Tabled
<1>2. r \in AccountRows /\ r["balance"] = value /\ r["profit"] = t[a]["profit"] /\ r["expense"] = t[a]["expense"]
  BY <1>1 DEF AccountRows
<1>3. u = [t EXCEPT ![a] = r]
  BY DEF WritesBalance
<1> HIDE DEF r
<1>4. \A b \in Video!Signers : u[b] = IF b = a THEN r ELSE t[b]
  BY <1>3 DEF Tabled
<1>5. u = [b \in Video!Signers |-> u[b]]
  BY <1>3 DEF Tabled
<1>6. \A f \in Fields : f # "balance" => r[f] = t[a][f]
  BY <1>2 DEF Fields
<1>7. Wrote(t, u, a, "balance", r["balance"])
  BY <1>2, <1>4, <1>5, <1>6, RowWritten DEF Fields
<1> QED BY <1>2, <1>7

LEMMA ProfitWritten ==
  ASSUME NEW t, Tabled(t), NEW a \in Video!Signers, t[a] # Video!NoRow, NEW value \in 0 .. Narrow - 1,
         NEW u, WritesProfit(t, u, a, value)
  PROVE  Wrote(t, u, a, "profit", value)
<1> DEFINE r == [t[a] EXCEPT !.profit = value]
<1>1. t[a] \in AccountRows
  BY DEF Tabled
<1>2. r \in AccountRows /\ r["profit"] = value /\ r["balance"] = t[a]["balance"] /\ r["expense"] = t[a]["expense"]
  BY <1>1 DEF AccountRows
<1>3. u = [t EXCEPT ![a] = r]
  BY DEF WritesProfit
<1> HIDE DEF r
<1>4. \A b \in Video!Signers : u[b] = IF b = a THEN r ELSE t[b]
  BY <1>3 DEF Tabled
<1>5. u = [b \in Video!Signers |-> u[b]]
  BY <1>3 DEF Tabled
<1>6. \A f \in Fields : f # "profit" => r[f] = t[a][f]
  BY <1>2 DEF Fields
<1>7. Wrote(t, u, a, "profit", r["profit"])
  BY <1>2, <1>4, <1>5, <1>6, RowWritten DEF Fields
<1> QED BY <1>2, <1>7

LEMMA ExpenseWritten ==
  ASSUME NEW t, Tabled(t), NEW a \in Video!Signers, t[a] # Video!NoRow, NEW value \in 0 .. Narrow - 1,
         NEW u, WritesExpense(t, u, a, value)
  PROVE  Wrote(t, u, a, "expense", value)
<1> DEFINE r == [t[a] EXCEPT !.expense = value]
<1>1. t[a] \in AccountRows
  BY DEF Tabled
<1>2. r \in AccountRows /\ r["expense"] = value /\ r["balance"] = t[a]["balance"] /\ r["profit"] = t[a]["profit"]
  BY <1>1 DEF AccountRows
<1>3. u = [t EXCEPT ![a] = r]
  BY DEF WritesExpense
<1> HIDE DEF r
<1>4. \A b \in Video!Signers : u[b] = IF b = a THEN r ELSE t[b]
  BY <1>3 DEF Tabled
<1>5. u = [b \in Video!Signers |-> u[b]]
  BY <1>3 DEF Tabled
<1>6. \A f \in Fields : f # "expense" => r[f] = t[a][f]
  BY <1>2 DEF Fields
<1>7. Wrote(t, u, a, "expense", r["expense"])
  BY <1>2, <1>4, <1>5, <1>6, RowWritten DEF Fields
<1> QED BY <1>2, <1>7

(* The totals follow.                                                      *)
LEMMA TotalsFollow ==
  ASSUME NEW t, Tabled(t), NEW a \in Video!Signers, NEW field \in Fields, NEW value \in Nat,
         NEW u, Wrote(t, u, a, field, value)
  PROVE  /\ \A f \in Fields : Total(t, f) \in Int
         /\ \A f \in Fields : f # field => Total(u, f) = Total(t, f)
         /\ Total(u, field) = Total(t, field) + value - Cell(t, field, a)
<1> SUFFICES ASSUME NEW f \in Fields
             PROVE  /\ Total(t, f) \in Int
                    /\ Total(u, f) = Total(t, f) + (IF f = field THEN value - Cell(t, field, a) ELSE 0)
  <2>1. Total(t, field) \in Int /\ Total(u, field) = Total(t, field) + (value - Cell(t, field, a))
    OBVIOUS
  <2>2. Cell(t, field, a) \in Nat
    BY CellsAreNat DEF Fields
  <2>3. \A f2 \in Fields : f2 # field => Total(u, f2) = Total(t, f2)
    OBVIOUS
  <2> QED BY <2>1, <2>2, <2>3
<1> DEFINE w == Column(t, f)
           v == Column(u, f)
           d == IF f = field THEN value - Cell(t, field, a) ELSE 0
<1>1. \A b \in Video!Signers : Cell(t, f, b) \in Nat /\ w[b] = Cell(t, f, b) /\ v[b] = Cell(u, f, b)
  BY CellsAreNat DEF Fields, Wrote
<1>2. \A b \in Video!Signers : Cell(u, f, b) = IF b = a /\ f = field THEN value ELSE Cell(t, f, b)
  BY DEF Wrote
<1>3. d \in Int /\ \A b \in Video!Signers : w[b] \in Int /\ v[b] = w[b] + (IF b = a THEN d ELSE 0)
  <2> HIDE DEF w, v
  <2> QED BY <1>1, <1>2
<1> HIDE DEF w, v, d
<1>4. SumOver(w, Video!Signers) \in Int /\ SumOver(v, Video!Signers) = SumOver(w, Video!Signers) + d
  BY <1>3, VideoConstants, SumChange
<1> QED BY <1>4 DEF Total, w, v, d

(* One field of a row moves by d, and with it its total.                   *)
Shifts(t, u, a, field, d) ==
  /\ Tabled(u)
  /\ \A b \in Video!Signers : u[b] = Video!NoRow <=> t[b] = Video!NoRow
  /\ \A f \in Fields : \A b \in Video!Signers :
       Cell(u, f, b) = Cell(t, f, b) + (IF b = a /\ f = field THEN d ELSE 0)
  /\ \A f \in Fields : Total(t, f) \in Int /\ Total(u, f) = Total(t, f) + (IF f = field THEN d ELSE 0)

LEMMA WroteShifts ==
  ASSUME NEW t, Tabled(t), NEW a \in Video!Signers, NEW field \in Fields, NEW value \in Nat,
         NEW u, Wrote(t, u, a, field, value)
  PROVE  Shifts(t, u, a, field, value - Cell(t, field, a))
<1>1. \A f \in Fields : \A b \in Video!Signers : Cell(t, f, b) \in Nat
  BY CellsAreNat DEF Fields
<1>2. \A f \in Fields : \A b \in Video!Signers :
        Cell(u, f, b) = Cell(t, f, b) + (IF b = a /\ f = field THEN value - Cell(t, field, a) ELSE 0)
  BY <1>1 DEF Wrote
<1>3. /\ \A f \in Fields : Total(t, f) \in Int
      /\ \A f \in Fields : f # field => Total(u, f) = Total(t, f)
      /\ Total(u, field) = Total(t, field) + value - Cell(t, field, a)
  BY TotalsFollow
<1>4. \A f \in Fields : Total(u, f) = Total(t, f) + (IF f = field THEN value - Cell(t, field, a) ELSE 0)
  BY <1>1, <1>3
<1> QED BY <1>2, <1>3, <1>4 DEF Wrote, Shifts

LEMMA Pays ==
  ASSUME NEW t, Tabled(t), NEW a \in Video!Signers, t[a] # Video!NoRow, NEW amount \in 0 .. Narrow - 1
  PROVE  Shifts(t, Video!Pay(t, a, amount), a, "balance",
                (IF Cell(t, "balance", a) >= amount THEN 0 ELSE Wide) - amount)
<1> DEFINE b == t[a].balance
           value == ((b - amount) + Wide) % Wide
           u == Video!Pay(t, a, amount)
<1>1. b \in 0 .. Wide - 1 /\ Cell(t, "balance", a) = b
  BY DEF Tabled, AccountRows, Cell
<1>2. Wide \in Nat \ {0} /\ Narrow \in Nat /\ Narrow <= Wide
  BY VideoConstants
<1>3. WritesBalance(t, u, a, value)
  BY DEF Video!Pay, WritesBalance
<1> HIDE DEF b
<1>4. value \in 0 .. Wide - 1 /\ value = IF b >= amount THEN b - amount ELSE b - amount + Wide
  <2> DEFINE x == (b - amount) + Wide
  <2>1. x \in 0 .. Wide + Wide - 1 /\ (x < Wide <=> ~ (b >= amount)) /\ x - Wide = b - amount
    BY <1>1, <1>2
  <2>2. x = b - amount + Wide
    BY <1>1, <1>2
  <2> HIDE DEF x
  <2>3. x % Wide \in 0 .. Wide - 1 /\ x % Wide = IF x < Wide THEN x ELSE x - Wide
    BY <1>2, <2>1, Wraps
  <2> QED BY <2>1, <2>2, <2>3 DEF x
<1> HIDE DEF value, u
<1>5. Wrote(t, u, a, "balance", value)
  BY <1>3, <1>4, BalanceWritten
<1>6. Shifts(t, u, a, "balance", value - b)
  BY <1>1, <1>2, <1>4, <1>5, WroteShifts DEF Fields
<1>7. value - b = (IF b >= amount THEN 0 ELSE Wide) - amount
  BY <1>1, <1>2, <1>4
<1> QED BY <1>1, <1>6, <1>7 DEF u

LEMMA Gains ==
  ASSUME NEW t, Tabled(t), NEW a \in Video!Signers, t[a] # Video!NoRow, NEW amount \in 0 .. Narrow - 1
  PROVE  Shifts(t, Video!Gain(t, a, amount), a, "balance",
                amount - (IF Cell(t, "balance", a) + amount < Wide THEN 0 ELSE Wide))
<1> DEFINE b == t[a].balance
           value == (b + amount) % Wide
           u == Video!Gain(t, a, amount)
<1>1. b \in 0 .. Wide - 1 /\ Cell(t, "balance", a) = b
  BY DEF Tabled, AccountRows, Cell
<1>2. Wide \in Nat \ {0} /\ Narrow \in Nat /\ Narrow <= Wide
  BY VideoConstants
<1>3. WritesBalance(t, u, a, value)
  BY DEF Video!Gain, WritesBalance
<1> HIDE DEF b
<1>4. value \in 0 .. Wide - 1 /\ value = IF b + amount < Wide THEN b + amount ELSE b + amount - Wide
  <2> DEFINE x == b + amount
  <2>1. x \in 0 .. Wide + Wide - 1 /\ x = b + amount
    BY <1>1, <1>2
  <2>2. value = x % Wide
    OBVIOUS
  <2> HIDE DEF x, value
  <2>3. x % Wide \in 0 .. Wide - 1 /\ x % Wide = IF x < Wide THEN x ELSE x - Wide
    BY <1>2, <2>1, Wraps
  <2> QED BY <1>1, <1>2, <2>1, <2>2, <2>3
<1> HIDE DEF value, u
<1>5. Wrote(t, u, a, "balance", value)
  BY <1>3, <1>4, BalanceWritten
<1>6. Shifts(t, u, a, "balance", value - b)
  BY <1>1, <1>2, <1>4, <1>5, WroteShifts DEF Fields
<1>7. value - b = amount - (IF b + amount < Wide THEN 0 ELSE Wide)
  BY <1>1, <1>2, <1>4
<1> QED BY <1>1, <1>6, <1>7 DEF u

LEMMA Spends ==
  ASSUME NEW t, Tabled(t), NEW a \in Video!Signers, t[a] # Video!NoRow, NEW amount \in 0 .. Narrow - 1,
         NEW u, WritesExpense(t, u, a, (t[a].expense + amount) % Narrow)
  PROVE  \E e \in {0, Narrow} : Shifts(t, u, a, "expense", amount - e)
<1> DEFINE b == t[a].expense
           x == b + amount
<1>1. b \in 0 .. Narrow - 1 /\ Cell(t, "expense", a) = b
  BY DEF Tabled, AccountRows, Cell
<1>2. Narrow \in Nat \ {0}
  BY VideoConstants
<1> HIDE DEF b
<1>3. x \in 0 .. Narrow + Narrow - 1 /\ x = b + amount
  BY <1>1, <1>2
<1> HIDE DEF x
<1>4. x % Narrow \in 0 .. Narrow - 1 /\ x % Narrow = IF x < Narrow THEN x ELSE x - Narrow
  BY <1>2, <1>3, Wraps
<1> DEFINE value == x % Narrow
<1>5. WritesExpense(t, u, a, value)
  BY DEF b, x
<1> HIDE DEF value
<1>6. Wrote(t, u, a, "expense", value)
  BY <1>4, <1>5, ExpenseWritten DEF value
<1>7. Shifts(t, u, a, "expense", value - b) /\ value \in Int
  BY <1>1, <1>2, <1>4, <1>6, WroteShifts DEF Fields, value
<1>8. value - b = amount - 0 \/ value - b = amount - Narrow
  BY <1>1, <1>2, <1>3, <1>4 DEF value
<1> QED BY <1>7, <1>8

LEMMA Earns ==
  ASSUME NEW t, Tabled(t), NEW a \in Video!Signers, t[a] # Video!NoRow, NEW amount \in 0 .. Narrow - 1,
         NEW u, WritesProfit(t, u, a, (t[a].profit + amount) % Narrow)
  PROVE  \E e \in {0, Narrow} : Shifts(t, u, a, "profit", amount - e)
<1> DEFINE b == t[a].profit
           x == b + amount
<1>1. b \in 0 .. Narrow - 1 /\ Cell(t, "profit", a) = b
  BY DEF Tabled, AccountRows, Cell
<1>2. Narrow \in Nat \ {0}
  BY VideoConstants
<1> HIDE DEF b
<1>3. x \in 0 .. Narrow + Narrow - 1 /\ x = b + amount
  BY <1>1, <1>2
<1> HIDE DEF x
<1>4. x % Narrow \in 0 .. Narrow - 1 /\ x % Narrow = IF x < Narrow THEN x ELSE x - Narrow
  BY <1>2, <1>3, Wraps
<1> DEFINE value == x % Narrow
<1>5. WritesProfit(t, u, a, value)
  BY DEF b, x
<1> HIDE DEF value
<1>6. Wrote(t, u, a, "profit", value)
  BY <1>4, <1>5, ProfitWritten DEF value
<1>7. Shifts(t, u, a, "profit", value - b) /\ value \in Int
  BY <1>1, <1>2, <1>4, <1>6, WroteShifts DEF Fields, value
<1>8. value - b = amount - 0 \/ value - b = amount - Narrow
  BY <1>1, <1>2, <1>3, <1>4 DEF value
<1> QED BY <1>7, <1>8

(* Balances sum to what was issued less what has wrapped, and profits to   *)
(* expenses give or take what has wrapped.                                 *)
Ledger(t, m) ==
  /\ Tabled(t)
  /\ \E k \in Nat : Total(t, "balance") = m - Wide * k
  /\ \E k \in Int : Total(t, "profit") = Total(t, "expense") + Narrow * k

LEMMA LedgerMoves ==
  ASSUME NEW t, NEW m \in Nat, Ledger(t, m), NEW u, Tabled(u), NEW g \in Nat,
         NEW e \in {0, Wide}, NEW x \in {0, Narrow, 0 - Narrow},
         Total(u, "balance") = Total(t, "balance") + g - e,
         Total(t, "expense") \in Int, Total(u, "expense") \in Int,
         Total(u, "profit") - Total(u, "expense") = Total(t, "profit") - Total(t, "expense") + x,
         Total(u, "profit") \in Int
  PROVE  Ledger(u, m + g)
<1>1. Wide \in Nat /\ Narrow \in Nat
  BY VideoConstants
<1>2. PICK k \in Nat : Total(t, "balance") = m - Wide * k
  BY DEF Ledger
<1>3. PICK i \in Int : Total(t, "profit") = Total(t, "expense") + Narrow * i
  BY DEF Ledger
<1>4. \E j \in Nat : Total(u, "balance") = (m + g) - Wide * j
  <2>1. \A w, n \in Nat : w * (n + 1) = w * n + w /\ w * n \in Nat
    OBVIOUS
  <2>2. CASE e = 0
    <3>1. Total(u, "balance") = (m + g) - Wide * k
      BY <1>1, <1>2, <2>1, <2>2
    <3> QED BY <3>1
  <2>3. CASE e = Wide
    <3>1. Wide * (k + 1) = Wide * k + Wide /\ Wide * k \in Nat
      BY <1>1, <2>1
    <3>2. Total(u, "balance") = (m + g) - Wide * (k + 1)
      BY <1>1, <1>2, <2>3, <3>1
    <3> QED BY <3>2
  <2> QED BY <2>2, <2>3
<1>5. \E j \in Int : Total(u, "profit") = Total(u, "expense") + Narrow * j
  <2>1. \A w \in Nat, n \in Int : w * (n + 1) = w * n + w /\ w * (n - 1) = w * n - w /\ w * n \in Int
    OBVIOUS
  <2>2. Total(u, "profit") = Total(u, "expense") + Narrow * i + x
    BY <1>1, <1>3, <2>1
  <2>3. Narrow * (i + 1) = Narrow * i + Narrow /\ Narrow * (i - 1) = Narrow * i - Narrow /\ Narrow * i \in Int
    BY <1>1, <2>1
  <2>4. CASE x = 0
    <3>1. Total(u, "profit") = Total(u, "expense") + Narrow * i
      BY <2>2, <2>3, <2>4
    <3> QED BY <3>1
  <2>5. CASE x = Narrow
    <3>1. Total(u, "profit") = Total(u, "expense") + Narrow * (i + 1)
      BY <1>1, <2>2, <2>3, <2>5
    <3> QED BY <3>1
  <2>6. CASE x = 0 - Narrow
    <3>1. Total(u, "profit") = Total(u, "expense") + Narrow * (i - 1)
      BY <1>1, <2>2, <2>3, <2>6
    <3> QED BY <3>1
  <2> QED BY <2>4, <2>5, <2>6
<1> QED BY <1>4, <1>5, Zenon DEF Ledger

LEMMA IssueLedger ==
  ASSUME NEW m \in Nat, Ledger(accounts, m), NEW amount \in Prices, Video!issue(amount)
  PROVE  Ledger(accounts', m + amount)
<1>1. amount \in 0 .. Narrow - 1 /\ amount \in Nat /\ Wide \in Nat
  BY VideoConstants
<1>2. XinGateway \in Video!Signers /\ accounts[XinGateway] # Video!NoRow /\ Tabled(accounts)
  BY DEF Video!issue, Video!HasAccount, Video!Signers, Ledger
<1> DEFINE e == IF Cell(accounts, "balance", XinGateway) + amount < Wide THEN 0 ELSE Wide
<1>3. accounts' = Video!Gain(accounts, XinGateway, amount)
  BY DEF Video!issue
<1>4. Shifts(accounts, accounts', XinGateway, "balance", amount - e)
  BY <1>1, <1>2, <1>3, Gains
<1>5. e \in {0, Wide}
  OBVIOUS
<1> HIDE DEF e
<1>6. /\ Tabled(accounts') /\ Total(accounts', "balance") = Total(accounts, "balance") + (amount - e)
      /\ Total(accounts, "balance") \in Int /\ Total(accounts, "expense") \in Int /\ Total(accounts, "profit") \in Int
      /\ Total(accounts', "profit") = Total(accounts, "profit")
      /\ Total(accounts', "expense") = Total(accounts, "expense")
  BY <1>4 DEF Shifts, Fields
<1>7. Total(accounts', "balance") = Total(accounts, "balance") + amount - e
  BY <1>1, <1>5, <1>6
<1>8. Total(accounts', "profit") - Total(accounts', "expense") = Total(accounts, "profit") - Total(accounts, "expense") + 0
  BY <1>6
<1> QED BY <1>1, <1>5, <1>6, <1>7, <1>8, LedgerMoves

(* A payment that the payer can make wraps nothing.                        *)
LEMMA PaysExactly ==
  ASSUME NEW t, Tabled(t), NEW a \in Video!Signers, t[a] # Video!NoRow,
         NEW amount \in 0 .. Narrow - 1, t[a].balance >= amount
  PROVE  Shifts(t, Video!Pay(t, a, amount), a, "balance", 0 - amount)
<1>1. Cell(t, "balance", a) = t[a].balance
  BY DEF Cell
<1> QED BY <1>1, Pays

LEMMA CreateTokenLedger ==
  ASSUME NEW m \in Nat, Ledger(accounts, m), NEW user \in Video!Signers, NEW amount \in Prices,
         Video!createtoken(user, amount)
  PROVE  Ledger(accounts', m)
<1>1. amount \in 0 .. Narrow - 1 /\ amount \in Nat /\ Wide \in Nat
  BY VideoConstants
<1>2. /\ XinGateway \in Video!Signers /\ accounts[XinGateway] # Video!NoRow /\ accounts[user] # Video!NoRow
      /\ Tabled(accounts) /\ accounts[XinGateway].balance >= amount
  BY DEF Video!createtoken, Video!HasAccount, Video!Signers, Ledger
<1> DEFINE w == Video!Pay(accounts, XinGateway, amount)
           e == IF Cell(w, "balance", user) + amount < Wide THEN 0 ELSE Wide
<1>3. accounts' = Video!Gain(w, user, amount)
  BY DEF Video!createtoken
<1>4. Shifts(accounts, w, XinGateway, "balance", 0 - amount)
  BY <1>1, <1>2, PaysExactly
<1> HIDE DEF w
<1>5. Tabled(w) /\ w[user] # Video!NoRow
  BY <1>2, <1>4 DEF Shifts
<1>6. Shifts(w, accounts', user, "balance", amount - e)
  BY <1>1, <1>3, <1>5, Gains
<1>7. e \in {0, Wide}
  OBVIOUS
<1> HIDE DEF e
<1>8. /\ Total(w, "balance") = Total(accounts, "balance") + (0 - amount) /\ Total(accounts, "balance") \in Int
      /\ Total(w, "profit") = Total(accounts, "profit") /\ Total(w, "expense") = Total(accounts, "expense")
      /\ Total(accounts, "expense") \in Int /\ Total(accounts, "profit") \in Int
  BY <1>4 DEF Shifts, Fields
<1>9. /\ Tabled(accounts') /\ Total(accounts', "balance") = Total(w, "balance") + (amount - e)
      /\ Total(accounts', "profit") = Total(w, "profit") /\ Total(accounts', "expense") = Total(w, "expense")
  BY <1>6 DEF Shifts, Fields
<1>10. Total(accounts', "balance") = Total(accounts, "balance") + 0 - e
  BY <1>1, <1>7, <1>8, <1>9
<1>11. Total(accounts', "profit") - Total(accounts', "expense") = Total(accounts, "profit") - Total(accounts, "expense") + 0
  BY <1>8, <1>9
<1>12. Ledger(accounts', m + 0)
  BY <1>7, <1>8, <1>9, <1>10, <1>11, LedgerMoves
<1> QED BY <1>12

LEMMA DestroyTokenLedger ==
  ASSUME NEW m \in Nat, Ledger(accounts, m), NEW user \in Video!Signers, NEW amount \in Prices,
         Video!destroytoken(user, amount)
  PROVE  Ledger(accounts', m)
<1>1. amount \in 0 .. Narrow - 1 /\ amount \in Nat /\ Wide \in Nat
  BY VideoConstants
<1>2. /\ XinGateway \in Video!Signers /\ accounts[XinGateway] # Video!NoRow /\ accounts[user] # Video!NoRow
      /\ Tabled(accounts) /\ accounts[user].balance >= amount
  BY DEF Video!destroytoken, Video!HasAccount, Video!Signers, Ledger
<1> DEFINE w == Video!Gain(accounts, XinGateway, amount)
           e == IF Cell(accounts, "balance", XinGateway) + amount < Wide THEN 0 ELSE Wide
           d == IF Cell(w, "balance", user) >= amount THEN 0 ELSE Wide
<1>3. accounts' = Video!Pay(w, user, amount)
  BY DEF Video!destroytoken
<1>4. Shifts(accounts, w, XinGateway, "balance", amount - e)
  BY <1>1, <1>2, Gains
<1> HIDE DEF w
<1>5. Tabled(w) /\ w[user] # Video!NoRow
  BY <1>2, <1>4 DEF Shifts
<1>6. Shifts(w, accounts', user, "balance", d - amount)
  BY <1>1, <1>3, <1>5, Pays
<1>7. e \in {0, Wide} /\ d \in {0, Wide} /\ (e = 0 => d = 0)
  <2>1. e \in {0, Wide} /\ d \in {0, Wide}
    OBVIOUS
  <2>2. Cell(w, "balance", user) = Cell(accounts, "balance", user) + (IF user = XinGateway THEN amount - e ELSE 0)
    BY <1>4 DEF Shifts, Fields
  <2>3. Cell(accounts, "balance", user) = accounts[user].balance
    BY <1>2 DEF Cell
  <2>4. Cell(accounts, "balance", user) \in Nat
    BY <1>2, CellsAreNat
  <2>5. ASSUME e = 0 PROVE Cell(w, "balance", user) >= amount
    <3> HIDE DEF e, d
    <3> QED BY <1>1, <1>2, <2>2, <2>3, <2>4, <2>5
  <2> QED BY <2>1, <2>5
<1> HIDE DEF d, e
<1>8. /\ Total(w, "balance") = Total(accounts, "balance") + (amount - e) /\ Total(accounts, "balance") \in Int
      /\ Total(w, "profit") = Total(accounts, "profit") /\ Total(w, "expense") = Total(accounts, "expense")
      /\ Total(accounts, "expense") \in Int /\ Total(accounts, "profit") \in Int
  BY <1>4 DEF Shifts, Fields
<1>9. /\ Tabled(accounts') /\ Total(accounts', "balance") = Total(w, "balance") + (d - amount)
      /\ Total(accounts', "profit") = Total(w, "profit") /\ Total(accounts', "expense") = Total(w, "expense")
  BY <1>6 DEF Shifts, Fields
<1> DEFINE z == e - d
<1>10. z \in {0, Wide} /\ z = e - d
  BY <1>1, <1>7
<1> HIDE DEF z
<1>11. Total(accounts', "balance") = Total(accounts, "balance") + 0 - z
  BY <1>1, <1>7, <1>8, <1>9, <1>10
<1>12. Total(accounts', "profit") - Total(accounts', "expense") = Total(accounts, "profit") - Total(accounts, "expense") + 0
  BY <1>8, <1>9
<1>13. Ledger(accounts', m + 0)
  BY <1>8, <1>9, <1>10, <1>11, <1>12, LedgerMoves
<1> QED BY <1>13

LEMMA BuyVideoLedger ==
  ASSUME NEW m \in Nat, Ledger(accounts, m), NEW buyer \in Video!Signers, NEW hash \in Hashes,
         videos[hash] \in VideoRows, Video!buyvideo(buyer, hash)
  PROVE  Ledger(accounts', m)
<1> DEFINE price == videos[hash].price
           seller == videos[hash].user
           w1 == Video!Pay(accounts, buyer, price)
           w2 == [w1 EXCEPT ![buyer].expense = (@ + price) % Narrow]
           w3 == Video!Gain(w2, seller, price)
           e == IF Cell(w2, "balance", seller) + price < Wide THEN 0 ELSE Wide
<1>1. price \in 0 .. Narrow - 1 /\ price \in Nat /\ Wide \in Nat /\ Narrow \in Nat /\ seller \in Video!Signers
  BY VideoConstants DEF VideoRows
<1>2. /\ accounts[buyer] # Video!NoRow /\ accounts[seller] # Video!NoRow
      /\ Tabled(accounts) /\ accounts[buyer].balance >= price
  BY DEF Video!buyvideo, Video!HasAccount, Ledger
<1>3. accounts' = [w3 EXCEPT ![seller].profit = (@ + price) % Narrow]
  BY DEF Video!buyvideo
<1> HIDE DEF price, seller
<1>4. Shifts(accounts, w1, buyer, "balance", 0 - price)
  BY <1>1, <1>2, PaysExactly
<1> HIDE DEF w1
<1>5. Tabled(w1) /\ w1[buyer] # Video!NoRow /\ w1[seller] # Video!NoRow
  BY <1>1, <1>2, <1>4 DEF Shifts
<1>6. WritesExpense(w1, w2, buyer, (w1[buyer].expense + price) % Narrow)
  BY DEF WritesExpense
<1> HIDE DEF w2
<1>7. PICK x \in {0, Narrow} : Shifts(w1, w2, buyer, "expense", price - x)
  BY <1>1, <1>5, <1>6, Spends
<1>8. Tabled(w2) /\ w2[seller] # Video!NoRow
  BY <1>1, <1>5, <1>7 DEF Shifts
<1>9. Shifts(w2, w3, seller, "balance", price - e)
  BY <1>1, <1>8, Gains
<1>10. e \in {0, Wide}
  OBVIOUS
<1> HIDE DEF w3, e
<1>11. Tabled(w3) /\ w3[seller] # Video!NoRow
  BY <1>1, <1>8, <1>9 DEF Shifts
<1>12. WritesProfit(w3, accounts', seller, (w3[seller].profit + price) % Narrow)
  BY <1>3 DEF WritesProfit
<1>13. PICK y \in {0, Narrow} : Shifts(w3, accounts', seller, "profit", price - y)
  BY <1>1, <1>11, <1>12, Earns
<1>14. /\ Total(w1, "balance") = Total(accounts, "balance") + (0 - price) /\ Total(accounts, "balance") \in Int
       /\ Total(w1, "profit") = Total(accounts, "profit") /\ Total(w1, "expense") = Total(accounts, "expense")
       /\ Total(accounts, "expense") \in Int /\ Total(accounts, "profit") \in Int
  BY <1>4 DEF Shifts, Fields
<1>15. /\ Total(w2, "balance") = Total(w1, "balance") /\ Total(w2, "profit") = Total(w1, "profit")
       /\ Total(w2, "expense") = Total(w1, "expense") + (price - x)
  BY <1>7 DEF Shifts, Fields
<1>16. /\ Total(w3, "balance") = Total(w2, "balance") + (price - e)
       /\ Total(w3, "profit") = Total(w2, "profit") /\ Total(w3, "expense") = Total(w2, "expense")
  BY <1>9 DEF Shifts, Fields
<1>17. /\ Tabled(accounts') /\ Total(accounts', "balance") = Total(w3, "balance")
       /\ Total(accounts', "profit") = Total(w3, "profit") + (price - y)
       /\ Total(accounts', "expense") = Total(w3, "expense")
  BY <1>13 DEF Shifts, Fields
<1>18. Total(accounts', "balance") = Total(accounts, "balance") + 0 - e
  BY <1>1, <1>10, <1>14, <1>15, <1>16, <1>17
<1>19. /\ Total(accounts', "profit") = Total(accounts, "profit") + (price - y)
       /\ Total(accounts', "expense") = Total(accounts, "expense") + (price - x)
  BY <1>14, <1>15, <1>16, <1>17
<1> DEFINE z == x - y
<1>20. z \in {0, Narrow, 0 - Narrow} /\ z = x - y /\ x \in Int /\ y \in Int
  BY <1>1
<1> HIDE DEF z
<1>21. /\ Total(accounts', "profit") \in Int /\ Total(accounts', "expense") \in Int
       /\ Total(accounts', "profit") - Total(accounts', "expense")
            = Total(accounts, "profit") - Total(accounts, "expense") + z
  BY <1>1, <1>14, <1>19, <1>20
<1>22. Ledger(accounts', m + 0)
  BY <1>10, <1>14, <1>17, <1>18, <1>20, <1>21, LedgerMoves
<1> QED BY <1>22

(* A new row is one of zeros.                                              *)
LEMMA SameTotals ==
  ASSUME NEW t, NEW u, \A f \in Fields : \A b \in Video!Signers : Cell(u, f, b) = Cell(t, f, b)
  PROVE  \A f \in Fields : Total(u, f) = Total(t, f)
<1> SUFFICES ASSUME NEW f \in Fields PROVE Total(u, f) = Total(t, f)
  OBVIOUS
<1>1. Column(u, f) = Column(t, f)
  BY DEF Column
<1> QED BY <1>1 DEF Total

LEMMA NewAccountLedger ==
  ASSUME NEW m \in Nat, Ledger(accounts, m), NEW user \in Video!Signers, Video!newaccount(user)
  PROVE  Ledger(accounts', m)
<1> DEFINE r == [balance |-> 0, profit |-> 0, expense |-> 0]
<1>1. accounts[user] = Video!NoRow /\ accounts' = [accounts EXCEPT ![user] = r] /\ Tabled(accounts)
  BY DEF Video!newaccount, Video!HasAccount, Ledger
<1>2. r \in AccountRows /\ \A f \in Fields : r[f] = 0
  BY VideoConstants DEF AccountRows, Fields
<1>3. r # Video!NoRow
  BY <1>2, RowsAreRows
<1> HIDE DEF r
<1>4. Tabled(accounts')
  BY <1>1, <1>2 DEF Tabled
<1>5. \A f \in Fields : \A b \in Video!Signers : Cell(accounts', f, b) = Cell(accounts, f, b)
  BY <1>1, <1>2, <1>3 DEF Tabled, Cell
<1>6. \A f \in Fields : Total(accounts', f) = Total(accounts, f)
  BY <1>5, SameTotals
<1>7. /\ Total(accounts', "balance") = Total(accounts, "balance") /\ Total(accounts', "profit") = Total(accounts, "profit")
      /\ Total(accounts', "expense") = Total(accounts, "expense")
  BY <1>6 DEF Fields
<1> QED BY <1>4, <1>7 DEF Ledger

(* The contract's sums over the rows there are.                            *)
LEMMA BalanceTotal ==
  ASSUME Tabled(accounts)
  PROVE  Video!Sum(LAMBDA user : accounts[user].balance) = Total(accounts, "balance")
<1> DEFINE w == Column(accounts, "balance")
           H == Video!Holders
           F(g) == [s \in SUBSET H |-> IF s = {} THEN 0 ELSE accounts[One(s)].balance + g[s \ {One(s)}]]
           G == CHOOSE g : g = F(g)
<1>1. H \subseteq Video!Signers /\ IsFiniteSet(H)
  <2>1. H \subseteq Video!Signers
    BY DEF Video!Holders
  <2> HIDE DEF H
  <2> QED BY <2>1, VideoConstants, FS_Subset
<1>2. /\ \A a \in H : w[a] = accounts[a].balance
      /\ \A a \in Video!Signers : w[a] \in Int /\ (a \notin H => w[a] = 0)
  <2>1. \A a \in Video!Signers : w[a] = Cell(accounts, "balance", a) /\ Cell(accounts, "balance", a) \in Nat
    BY CellsAreNat
  <2>2. \A a \in Video!Signers : a \in H <=> accounts[a] # Video!NoRow
    BY DEF Video!Holders, Video!HasAccount
  <2> HIDE DEF w, H
  <2> QED BY <1>1, <2>1, <2>2 DEF Cell
<1>3. SumOver(w, Video!Signers) = SumOver(w, H)
  <2> HIDE DEF w, H
  <2>1. Video!Signers \cap H = H
    BY <1>1
  <2>2. SumOver(w, Video!Signers) = SumOver(w, Video!Signers \cap H)
    BY <1>2, VideoConstants, SumSupport
  <2> QED BY <2>1, <2>2
<1>4. Video!Sum(LAMBDA user : accounts[user].balance) = G[H]
  BY Zenon DEF Video!Sum, Video!MapThenSumSet, Video!MapThenFoldSet, One
<1>5. \A g : F(g) = [s \in SUBSET H |-> SumStep(g, w, s)]
  <2>1. \A s \in SUBSET H : s # {} => One(s) \in H
    BY DEF One
  <2> HIDE DEF w, H
  <2> QED BY <1>2, <2>1 DEF SumStep
<1> HIDE DEF F, w, H
<1>6. G = F(G)
  <2>1. PICK g : IsSum(g, w, SUBSET H)
    BY <1>1, SumExists
  <2>2. g = F(g)
    BY <1>5, <2>1 DEF IsSum
  <2> QED BY <2>2
<1> HIDE DEF G
<1>7. Sums(G, w, H)
  <2>1. G = [s \in SUBSET H |-> SumStep(G, w, s)]
    BY <1>5, <1>6
  <2> QED BY <2>1, Zenon DEF Sums
<1> QED BY <1>1, <1>3, <1>4, <1>7, SumIsRounds DEF Total, w

LEMMA ProfitTotal ==
  ASSUME Tabled(accounts)
  PROVE  Video!Sum(LAMBDA user : accounts[user].profit) = Total(accounts, "profit")
<1> DEFINE w == Column(accounts, "profit")
           H == Video!Holders
           F(g) == [s \in SUBSET H |-> IF s = {} THEN 0 ELSE accounts[One(s)].profit + g[s \ {One(s)}]]
           G == CHOOSE g : g = F(g)
<1>1. H \subseteq Video!Signers /\ IsFiniteSet(H)
  <2>1. H \subseteq Video!Signers
    BY DEF Video!Holders
  <2> HIDE DEF H
  <2> QED BY <2>1, VideoConstants, FS_Subset
<1>2. /\ \A a \in H : w[a] = accounts[a].profit
      /\ \A a \in Video!Signers : w[a] \in Int /\ (a \notin H => w[a] = 0)
  <2>1. \A a \in Video!Signers : w[a] = Cell(accounts, "profit", a) /\ Cell(accounts, "profit", a) \in Nat
    BY CellsAreNat
  <2>2. \A a \in Video!Signers : a \in H <=> accounts[a] # Video!NoRow
    BY DEF Video!Holders, Video!HasAccount
  <2> HIDE DEF w, H
  <2> QED BY <1>1, <2>1, <2>2 DEF Cell
<1>3. SumOver(w, Video!Signers) = SumOver(w, H)
  <2> HIDE DEF w, H
  <2>1. Video!Signers \cap H = H
    BY <1>1
  <2>2. SumOver(w, Video!Signers) = SumOver(w, Video!Signers \cap H)
    BY <1>2, VideoConstants, SumSupport
  <2> QED BY <2>1, <2>2
<1>4. Video!Sum(LAMBDA user : accounts[user].profit) = G[H]
  BY Zenon DEF Video!Sum, Video!MapThenSumSet, Video!MapThenFoldSet, One
<1>5. \A g : F(g) = [s \in SUBSET H |-> SumStep(g, w, s)]
  <2>1. \A s \in SUBSET H : s # {} => One(s) \in H
    BY DEF One
  <2> HIDE DEF w, H
  <2> QED BY <1>2, <2>1 DEF SumStep
<1> HIDE DEF F, w, H
<1>6. G = F(G)
  <2>1. PICK g : IsSum(g, w, SUBSET H)
    BY <1>1, SumExists
  <2>2. g = F(g)
    BY <1>5, <2>1 DEF IsSum
  <2> QED BY <2>2
<1> HIDE DEF G
<1>7. Sums(G, w, H)
  <2>1. G = [s \in SUBSET H |-> SumStep(G, w, s)]
    BY <1>5, <1>6
  <2> QED BY <2>1, Zenon DEF Sums
<1> QED BY <1>1, <1>3, <1>4, <1>7, SumIsRounds DEF Total, w

LEMMA ExpenseTotal ==
  ASSUME Tabled(accounts)
  PROVE  Video!Sum(LAMBDA user : accounts[user].expense) = Total(accounts, "expense")
<1> DEFINE w == Column(accounts, "expense")
           H == Video!Holders
           F(g) == [s \in SUBSET H |-> IF s = {} THEN 0 ELSE accounts[One(s)].expense + g[s \ {One(s)}]]
           G == CHOOSE g : g = F(g)
<1>1. H \subseteq Video!Signers /\ IsFiniteSet(H)
  <2>1. H \subseteq Video!Signers
    BY DEF Video!Holders
  <2> HIDE DEF H
  <2> QED BY <2>1, VideoConstants, FS_Subset
<1>2. /\ \A a \in H : w[a] = accounts[a].expense
      /\ \A a \in Video!Signers : w[a] \in Int /\ (a \notin H => w[a] = 0)
  <2>1. \A a \in Video!Signers : w[a] = Cell(accounts, "expense", a) /\ Cell(accounts, "expense", a) \in Nat
    BY CellsAreNat
  <2>2. \A a \in Video!Signers : a \in H <=> accounts[a] # Video!NoRow
    BY DEF Video!Holders, Video!HasAccount
  <2> HIDE DEF w, H
  <2> QED BY <1>1, <2>1, <2>2 DEF Cell
<1>3. SumOver(w, Video!Signers) = SumOver(w, H)
  <2> HIDE DEF w, H
  <2>1. Video!Signers \cap H = H
    BY <1>1
  <2>2. SumOver(w, Video!Signers) = SumOver(w, Video!Signers \cap H)
    BY <1>2, VideoConstants, SumSupport
  <2> QED BY <2>1, <2>2
<1>4. Video!Sum(LAMBDA user : accounts[user].expense) = G[H]
  BY Zenon DEF Video!Sum, Video!MapThenSumSet, Video!MapThenFoldSet, One
<1>5. \A g : F(g) = [s \in SUBSET H |-> SumStep(g, w, s)]
  <2>1. \A s \in SUBSET H : s # {} => One(s) \in H
    BY DEF One
  <2> HIDE DEF w, H
  <2> QED BY <1>2, <2>1 DEF SumStep
<1> HIDE DEF F, w, H
<1>6. G = F(G)
  <2>1. PICK g : IsSum(g, w, SUBSET H)
    BY <1>1, SumExists
  <2>2. g = F(g)
    BY <1>5, <2>1 DEF IsSum
  <2> QED BY <2>2
<1> HIDE DEF G
<1>7. Sums(G, w, H)
  <2>1. G = [s \in SUBSET H |-> SumStep(G, w, s)]
    BY <1>5, <1>6
  <2> QED BY <2>1, Zenon DEF Sums
<1> QED BY <1>1, <1>3, <1>4, <1>7, SumIsRounds DEF Total, w

OrdersOf(rows, hash) == {order \in rows : order.video = hash}

VideoInv ==
  /\ issued \in 0 .. MaxIssued /\ Ledger(accounts, issued)
  /\ videos = [hash \in Hashes |-> videos[hash]]
  /\ \A hash \in Hashes : videos[hash] = Video!NoRow \/ videos[hash] \in VideoRows
  /\ orders \subseteq OrderRows /\ IsFiniteSet(orders)
  /\ \A hash \in Hashes : IF videos[hash] = Video!NoRow THEN OrdersOf(orders, hash) = {}
                          ELSE videos[hash].orders = Cardinality(OrdersOf(orders, hash)) % Narrow

(* The balances cannot sum to less than nothing.                           *)
LEMMA TotalIsNat ==
  ASSUME NEW t, Tabled(t), NEW f \in Fields
  PROVE  Total(t, f) \in Nat
<1> DEFINE w == Column(t, f)
<1>1. \A a \in Video!Signers : w[a] \in Nat
  BY CellsAreNat DEF Fields
<1> HIDE DEF w
<1>2. SumOver(w, Video!Signers) \in Nat
  BY <1>1, VideoConstants, SumIsNat
<1> QED BY <1>2 DEF Total, w

LEMMA VideoSafe == VideoInv => TablesAgree
<1> SUFFICES ASSUME VideoInv PROVE TablesAgree
  OBVIOUS
<1>0. Wide \in Nat \ {0} /\ Narrow \in Nat \ {0} /\ issued \in Nat /\ Tabled(accounts)
  BY VideoConstants DEF VideoInv, Ledger
<1>1. Video!TypeOK
  BY DEF VideoInv, Ledger, Tabled, AccountRows, VideoRows, OrderRows, Video!TypeOK
<1> DEFINE b == Total(accounts, "balance")
           p == Total(accounts, "profit")
           e == Total(accounts, "expense")
<1>2. b \in Nat /\ p \in Nat /\ e \in Nat
  BY <1>0, TotalIsNat DEF Fields
<1>3. PICK k \in Nat : b = issued - Wide * k
  BY DEF VideoInv, Ledger
<1>4. PICK i \in Int : p = e + Narrow * i
  BY DEF VideoInv, Ledger
<1>5. /\ Video!Sum(LAMBDA user : accounts[user].balance) = b
      /\ Video!Sum(LAMBDA user : accounts[user].profit) = p
      /\ Video!Sum(LAMBDA user : accounts[user].expense) = e
  BY <1>0, BalanceTotal, ProfitTotal, ExpenseTotal
<1> HIDE DEF b, p, e
<1>6. p % Narrow = e % Narrow
  <2>1. p \in Int /\ e \in Int
    BY <1>2
  <2> QED BY <1>0, <1>4, <2>1, Congruent, Zenon
<1>7. issued % Wide = b % Wide
  <2>1. issued = b + Wide * k /\ issued \in Int /\ b \in Int /\ k \in Int
    BY <1>0, <1>2, <1>3
  <2> QED BY <1>0, <2>1, Congruent, Zenon
<1>8. issued < Wide => b = issued
  <2> SUFFICES ASSUME issued < Wide PROVE b = issued
    OBVIOUS
  <2>1. \A w, n \in Nat : n # 0 => w * n >= w
    OBVIOUS
  <2>2. CASE k = 0
    BY <1>0, <1>3, <2>2
  <2>3. CASE k # 0
    <3>1. Wide * k >= Wide /\ Wide * k \in Nat
      BY <1>0, <2>1, <2>3
    <3> QED BY <1>0, <1>2, <1>3, <3>1
  <2> QED BY <2>2, <2>3
<1>9. Video!BalancesSumToIssued
  BY <1>5, <1>7, <1>8 DEF Video!BalancesSumToIssued
<1>10. Video!ProfitsAreExpenses
  BY <1>5, <1>6 DEF Video!ProfitsAreExpenses
<1>11. Video!OrdersAreCounted
  <2>1. ASSUME NEW hash \in Hashes PROVE Video!Cardinality(OrdersOf(orders, hash)) = Cardinality(OrdersOf(orders, hash))
    BY Zenon DEF Video!Cardinality, Cardinality
  <2> QED BY <2>1 DEF VideoInv, OrdersOf, Video!OrdersAreCounted
<1> QED BY <1>1, <1>9, <1>10, <1>11 DEF TablesAgree

LEMMA VideoInitial == Video!Init => VideoInv
<1> SUFFICES ASSUME Video!Init PROVE VideoInv
  OBVIOUS
<1>1. /\ accounts = [user \in Video!Signers |-> Video!NoRow] /\ videos = [hash \in Hashes |-> Video!NoRow]
      /\ orders = {} /\ issued = 0
  BY DEF Video!Init
<1>2. Tabled(accounts)
  BY <1>1 DEF Tabled
<1>3. ASSUME NEW f \in Fields PROVE Total(accounts, f) = 0
  <2> DEFINE w == Column(accounts, f)
  <2>1. \A a \in Video!Signers : w[a] \in Int /\ (a \notin {} => w[a] = 0)
    BY <1>1 DEF Column, Cell
  <2> HIDE DEF w
  <2>2. SumOver(w, Video!Signers) = SumOver(w, Video!Signers \cap {})
    BY <2>1, VideoConstants, SumSupport
  <2>3. Video!Signers \cap {} = {}
    OBVIOUS
  <2> QED BY <2>2, <2>3, SumEmpty DEF Total, w
<1>4. Total(accounts, "balance") = 0 /\ Total(accounts, "profit") = 0 /\ Total(accounts, "expense") = 0
  BY <1>3 DEF Fields
<1>5. Ledger(accounts, issued)
  <2>1. Wide * 0 = 0 /\ Narrow * 0 = 0
    BY VideoConstants
  <2>2. Total(accounts, "balance") = issued - Wide * 0 /\ Total(accounts, "profit") = Total(accounts, "expense") + Narrow * 0
    BY <1>1, <1>4, <2>1
  <2> QED BY <1>2, <2>2 DEF Ledger
<1>6. issued \in 0 .. MaxIssued
  BY <1>1, VideoConstants
<1>7. \A hash \in Hashes : OrdersOf(orders, hash) = {}
  BY <1>1 DEF OrdersOf
<1>8. IsFiniteSet(orders)
  BY <1>1, FS_EmptySet
<1> QED BY <1>1, <1>5, <1>6, <1>7, <1>8 DEF VideoInv

LEMMA BuyVideoKeeps ==
  ASSUME VideoInv, NEW buyer \in Video!Signers, NEW hash \in Hashes, Video!buyvideo(buyer, hash)
  PROVE  VideoInv'
<1> DEFINE row == [id |-> Video!OrderId(buyer, hash), video |-> hash, user |-> buyer]
<1>1. videos[hash] \in VideoRows /\ issued \in Nat
  <2>1. videos[hash] # Video!NoRow
    BY Zenon DEF Video!buyvideo
  <2>2. issued \in 0 .. MaxIssued /\ MaxIssued \in Nat
    BY VideoConstants DEF VideoInv
  <2>3. videos[hash] = Video!NoRow \/ videos[hash] \in VideoRows
    BY Zenon DEF VideoInv
  <2> QED BY <2>1, <2>2, <2>3
<1>2. Ledger(accounts', issued) /\ issued' = issued
  BY <1>1, BuyVideoLedger DEF VideoInv, Video!buyvideo
<1>3. /\ orders' = orders \cup {row} /\ row \notin orders
      /\ videos' = [videos EXCEPT ![hash].orders = (@ + 1) % Narrow]
  BY DEF Video!buyvideo
<1>4. row \in OrderRows
  <2>1. Video!OrderId(buyer, hash) \in Seq(STRING)
    BY VideoConstants, ConcatProperties DEF Video!OrderId, Video!gen_video_id
  <2> QED BY <2>1 DEF OrderRows
<1> DEFINE n == Cardinality(OrdersOf(orders, hash))
           c == (videos[hash].orders + 1) % Narrow
<1>5. /\ OrdersOf(orders', hash) = OrdersOf(orders, hash) \cup {row} /\ row \notin OrdersOf(orders, hash)
      /\ \A h \in Hashes : h # hash => OrdersOf(orders', h) = OrdersOf(orders, h)
  BY <1>3 DEF OrdersOf
<1>6. IsFiniteSet(OrdersOf(orders, hash)) /\ IsFiniteSet(orders')
  <2>1. OrdersOf(orders, hash) \subseteq orders
    BY DEF OrdersOf
  <2> QED BY <1>3, <2>1, FS_Subset, FS_AddElement DEF VideoInv
<1> HIDE DEF row
<1>7. n \in Nat /\ Cardinality(OrdersOf(orders', hash)) = n + 1
  BY <1>5, <1>6, FS_AddElement, FS_CardinalityType
<1>8. videos[hash].orders = n % Narrow
  BY <1>1, RowsAreRows DEF VideoInv
<1> HIDE DEF n
<1>9. c = (n + 1) % Narrow /\ c \in 0 .. Narrow - 1
  <2>1. ((n % Narrow) + 1) % Narrow = (n + 1) % Narrow
    <3>1. n \in Int /\ Narrow \in Nat \ {0}
      BY <1>7, VideoConstants
    <3> QED BY <3>1, OneMore, Zenon
  <2> DEFINE m == n + 1
  <2>2. m \in Int
    BY <1>7
  <2> HIDE DEF m
  <2>3. m % Narrow \in 0 .. Narrow - 1
    BY <2>2, VideoConstants, Divided
  <2> QED BY <1>8, <2>1, <2>3 DEF m
<1>10. videos' = [videos EXCEPT ![hash] = [videos[hash] EXCEPT !.orders = c]]
  BY <1>3
<1> HIDE DEF c
<1>11. [videos[hash] EXCEPT !.orders = c] \in VideoRows /\ [videos[hash] EXCEPT !.orders = c].orders = c
  BY <1>1, <1>9 DEF VideoRows
<1> DEFINE v == [videos[hash] EXCEPT !.orders = c]
<1>12. v \in VideoRows /\ v.orders = c /\ v # Video!NoRow
  BY <1>11, RowsAreRows
<1>13. videos' = [h \in Hashes |-> IF h = hash THEN v ELSE videos[h]]
  BY <1>10 DEF VideoInv
<1> HIDE DEF v
<1>14. /\ videos' = [h \in Hashes |-> videos'[h]]
       /\ \A h \in Hashes : videos'[h] = Video!NoRow \/ videos'[h] \in VideoRows
  BY <1>12, <1>13 DEF VideoInv
<1>15. ASSUME NEW h \in Hashes
       PROVE  IF videos'[h] = Video!NoRow THEN OrdersOf(orders', h) = {}
              ELSE videos'[h].orders = Cardinality(OrdersOf(orders', h)) % Narrow
  <2>1. CASE h = hash
    BY <1>7, <1>9, <1>12, <1>13, <2>1
  <2>2. CASE h # hash
    BY <1>5, <1>13, <2>2 DEF VideoInv
  <2> QED BY <2>1, <2>2
<1>16. orders' \subseteq OrderRows
  BY <1>3, <1>4 DEF VideoInv, row
<1>17. issued' \in 0 .. MaxIssued /\ Ledger(accounts', issued')
  BY <1>2 DEF VideoInv
<1> QED BY <1>6, <1>14, <1>15, <1>16, <1>17 DEF VideoInv

LEMMA PublishKeeps ==
  ASSUME VideoInv, NEW user \in Video!Signers, NEW hash \in Hashes, NEW price \in Prices,
         Video!publishvideo(user, hash, price)
  PROVE  VideoInv'
<1> DEFINE v == [user |-> user, price |-> price, orders |-> 0]
<1>1. /\ videos[hash] = Video!NoRow /\ videos' = [videos EXCEPT ![hash] = v]
      /\ accounts' = accounts /\ orders' = orders /\ issued' = issued
  BY DEF Video!publishvideo
<1>2. v \in VideoRows /\ v.orders = 0
  BY VideoConstants DEF VideoRows
<1>3. v # Video!NoRow
  BY <1>2, RowsAreRows
<1> HIDE DEF v
<1>4. videos' = [h \in Hashes |-> IF h = hash THEN v ELSE videos[h]]
  BY <1>1 DEF VideoInv
<1>5. 0 % Narrow = 0
  <2>1. 0 = Narrow * 0 + 0 /\ 0 \in 0 .. Narrow - 1
    BY VideoConstants
  <2> QED BY <2>1, VideoConstants, Remainder
<1>6. Cardinality(OrdersOf(orders, hash)) = 0
  BY <1>1, FS_EmptySet DEF VideoInv
<1>7. ASSUME NEW h \in Hashes
      PROVE  IF videos'[h] = Video!NoRow THEN OrdersOf(orders', h) = {}
             ELSE videos'[h].orders = Cardinality(OrdersOf(orders', h)) % Narrow
  BY <1>1, <1>2, <1>3, <1>4, <1>5, <1>6 DEF VideoInv
<1>8. /\ videos' = [h \in Hashes |-> videos'[h]]
      /\ \A h \in Hashes : videos'[h] = Video!NoRow \/ videos'[h] \in VideoRows
  BY <1>2, <1>4 DEF VideoInv
<1>9. issued' \in 0 .. MaxIssued /\ Ledger(accounts', issued') /\ orders' \subseteq OrderRows /\ IsFiniteSet(orders')
  BY <1>1 DEF VideoInv
<1> QED BY <1>7, <1>8, <1>9 DEF VideoInv

LEMMA VideoStep == VideoInv /\ [Video!Next]_videoVars => VideoInv'
<1> SUFFICES ASSUME VideoInv, [Video!Next]_videoVars PROVE VideoInv'
  OBVIOUS
<1>0. issued \in Nat /\ Ledger(accounts, issued)
  BY VideoConstants DEF VideoInv
<1>1. ASSUME UNCHANGED <<videos, orders>>, issued' \in 0 .. MaxIssued, Ledger(accounts', issued') PROVE VideoInv'
  BY <1>1 DEF VideoInv
<1>2. ASSUME NEW amount \in Prices, Video!issue(amount) PROVE VideoInv'
  <2>1. amount \in Nat /\ MaxIssued \in Nat
    BY VideoConstants
  <2>2. issued' = issued + amount /\ issued' \in 0 .. MaxIssued /\ UNCHANGED <<videos, orders>>
    BY <1>0, <1>2, <2>1 DEF Video!issue
  <2> QED BY <1>0, <1>1, <1>2, <2>2, IssueLedger
<1>3. ASSUME NEW user \in Video!Signers, NEW amount \in Prices, Video!createtoken(user, amount) PROVE VideoInv'
  <2>1. issued' = issued /\ UNCHANGED <<videos, orders>>
    BY <1>3 DEF Video!createtoken
  <2> QED BY <1>0, <1>1, <1>3, <2>1, CreateTokenLedger DEF VideoInv
<1>4. ASSUME NEW user \in Video!Signers, NEW amount \in Prices, Video!destroytoken(user, amount) PROVE VideoInv'
  <2>1. issued' = issued /\ UNCHANGED <<videos, orders>>
    BY <1>4 DEF Video!destroytoken
  <2> QED BY <1>0, <1>1, <1>4, <2>1, DestroyTokenLedger DEF VideoInv
<1>5. ASSUME NEW user \in Video!Signers, Video!newaccount(user) PROVE VideoInv'
  <2>1. issued' = issued /\ UNCHANGED <<videos, orders>>
    BY <1>5 DEF Video!newaccount
  <2> QED BY <1>0, <1>1, <1>5, <2>1, NewAccountLedger DEF VideoInv
<1>6. CASE UNCHANGED videoVars
  BY <1>6 DEF videoVars, VideoInv
<1> QED BY <1>2, <1>3, <1>4, <1>5, <1>6, PublishKeeps, BuyVideoKeeps DEF Video!Next

(***************************************************************************)
(* The tables of xinplayer stay in step: balances sum to what was issued   *)
(* and none wraps before 2^64 is, profits to expenses on the uint32 that   *)
(* wrap, and a video's counter is the number of its orders.                *)
(***************************************************************************)
THEOREM VideoCorrect == MCSpec => []TablesAgree
<1>1. MCInit => VideoInv
  BY VideoInitial DEF MCInit
<1>2. VideoInv /\ [MCNext]_<<program, vars, pegVars, videoVars, parserVars>> => VideoInv'
  BY VideoStep DEF MCNext
<1> QED BY <1>1, <1>2, VideoSafe, PTL DEF MCSpec

-----------------------------------------------------------------------------
(***************************************************************************)
(* The two ways to learn of a transaction.                                 *)
(***************************************************************************)
(* What the turns of the two loops so far have seen of the field.          *)
Refused(i) == \E g \in scanGateways : ~ Parsers!Pushes(tx, contracts, i, g)
NotFound(i) == \E first, second \in askGateways : ~ Parsers!Finds(tx, contracts, i, first, second)

ScanInv ==
  /\ scanned \in {Parsers!NotYet, Parsers!NoEvent, Parsers!EventFrom(tx)}
  /\ scanned = Parsers!NotYet => scanAt \in Nat \ {0} /\ \A i \in DOMAIN contracts : i < scanAt => Refused(i)
  /\ scanned = Parsers!NoEvent => \A i \in DOMAIN contracts : Refused(i)
  /\ scanned = Parsers!EventFrom(tx) =>
       \E i \in DOMAIN contracts : \E g \in scanGateways : Parsers!Pushes(tx, contracts, i, g)

AskInv ==
  /\ lookedUp \in {Parsers!NotYet, Parsers!Failed, Parsers!NoEvent, Parsers!EventFrom(tx)}
  /\ askAt \in Nat /\ (firstRead # Unread => askAt \in DOMAIN contracts /\ firstRead \in askGateways)
  /\ askAt # 0 => lookedUp = Parsers!NotYet /\ \A i \in DOMAIN contracts : i < askAt => NotFound(i)
  /\ lookedUp = Parsers!NoEvent => \A i \in DOMAIN contracts : NotFound(i)
  /\ lookedUp = Parsers!EventFrom(tx) =>
       \E i \in DOMAIN contracts : \E first, second \in askGateways : Parsers!Finds(tx, contracts, i, first, second)

ParsersInv ==
  program = "parsers" =>
    /\ Len(contracts) \in Nat /\ DOMAIN contracts = 1 .. Len(contracts)
    /\ ScanInv /\ AskInv

LEMMA Answers ==
  /\ Parsers!NotYet.answer = "notYet" /\ Parsers!NoEvent.answer = "none" /\ Parsers!Failed.answer = "failed"
  /\ Parsers!EventFrom(tx).answer = "event"
  BY DEF Parsers!NotYet, Parsers!NoEvent, Parsers!Failed, Parsers!EventFrom

LEMMA AnswersDiffer ==
  /\ Parsers!NotYet # Parsers!NoEvent /\ Parsers!NotYet # Parsers!Failed /\ Parsers!NoEvent # Parsers!Failed
  /\ \A a \in {Parsers!NotYet, Parsers!NoEvent, Parsers!Failed} : a # Parsers!EventFrom(tx)
  BY Answers

LEMMA ParsersInitial == MCInit => ParsersInv
<1> SUFFICES ASSUME MCInit, program = "parsers"
             PROVE  Len(contracts) \in Nat /\ DOMAIN contracts = 1 .. Len(contracts) /\ ScanInv /\ AskInv
  BY DEF ParsersInv
<1>1. Parsers!Init
  BY DEF MCInit
<1>2. Len(contracts) \in Nat /\ DOMAIN contracts = 1 .. Len(contracts)
  BY <1>1, ChainAssumption DEF Parsers!Init, Parsers!LookupAssumption
<1>3. ScanInv
  BY <1>1, <1>2, AnswersDiffer DEF Parsers!Init, ScanInv
<1>4. AskInv
  BY <1>1, AnswersDiffer DEF Parsers!Init, AskInv
<1> QED BY <1>2, <1>3, <1>4

LEMMA ScanInvStays ==
  ASSUME ScanInv, UNCHANGED <<tx, contracts, scanned, scanAt, scanGateways>>
  PROVE  ScanInv'
  BY DEF ScanInv, Refused, Parsers!NotYet, Parsers!NoEvent, Parsers!EventFrom, Parsers!Pushes

LEMMA AskInvStays ==
  ASSUME AskInv, UNCHANGED <<tx, contracts, lookedUp, askAt, firstRead, askGateways>>
  PROVE  AskInv'
  BY DEF AskInv, NotFound, Parsers!NotYet, Parsers!NoEvent, Parsers!Failed, Parsers!EventFrom, Parsers!Finds

LEMMA ScanContractKeeps ==
  ASSUME ScanInv, Parsers!ScanContract, Len(contracts) \in Nat, DOMAIN contracts = 1 .. Len(contracts)
  PROVE  ScanInv'
<1>0. UNCHANGED <<tx, contracts>> /\ scanned = Parsers!NotYet /\ scanAt \in Nat \ {0}
      /\ \A i \in DOMAIN contracts : i < scanAt => Refused(i)
  BY DEF Parsers!ScanContract, ScanInv
<1> USE DEF Parsers!NotYet, Parsers!NoEvent, Parsers!EventFrom
<1>1. CASE scanAt > Len(contracts)
  <2>1. scanned' = Parsers!NoEvent /\ UNCHANGED <<scanAt, scanGateways>>
    BY <1>1 DEF Parsers!ScanContract
  <2>2. \A i \in DOMAIN contracts : Refused(i)
    BY <1>0, <1>1
  <2>3. \A i \in DOMAIN contracts : Refused(i)'
    BY <1>0, <2>1, <2>2 DEF Refused, Parsers!Pushes
  <2> QED BY <1>0, <2>1, <2>3 DEF ScanInv
<1>2. CASE ~ (scanAt > Len(contracts)) /\ Parsers!Pushes(tx, contracts, scanAt, gateway)
  <2>1. scanned' = Parsers!EventFrom(tx) /\ gateway \in scanGateways'
    BY <1>2 DEF Parsers!ScanContract
  <2>2. scanAt \in DOMAIN contracts
    <3>1. scanAt # 0
      BY <1>0
    <3> QED BY <1>0, <1>2, <3>1
  <2> QED BY <1>0, <1>2, <2>1, <2>2 DEF ScanInv, Parsers!Pushes
<1>3. CASE ~ (scanAt > Len(contracts)) /\ ~ Parsers!Pushes(tx, contracts, scanAt, gateway)
  <2>1. scanned' = scanned /\ scanAt' = scanAt + 1 /\ scanGateways' = scanGateways \cup {gateway}
    BY <1>3 DEF Parsers!ScanContract
  <2>2. ASSUME NEW i \in DOMAIN contracts, i < scanAt + 1 PROVE Refused(i)'
    <3>1. CASE i = scanAt
      BY <1>0, <1>3, <2>1, <3>1 DEF Refused, Parsers!Pushes
    <3>2. CASE i < scanAt
      <4>1. Refused(i)
        BY <1>0, <3>2
      <4> QED BY <1>0, <2>1, <4>1 DEF Refused, Parsers!Pushes
    <3> QED BY <1>0, <2>2, <3>1, <3>2
  <2> QED BY <1>0, <2>1, <2>2 DEF ScanInv
<1> QED BY <1>1, <1>2, <1>3

LEMMA AskKeeps ==
  ASSUME AskInv, Parsers!Ask \/ Parsers!AskFails \/ Parsers!ReadGateway \/ Parsers!LookupContract \/ Parsers!LookupEnds,
         Len(contracts) \in Nat, DOMAIN contracts = 1 .. Len(contracts)
  PROVE  AskInv'
<1> USE DEF Parsers!NotYet, Parsers!NoEvent, Parsers!Failed, Parsers!EventFrom
<1>0. UNCHANGED <<tx, contracts>>
  BY DEF Parsers!Ask, Parsers!AskFails, Parsers!ReadGateway, Parsers!LookupContract, Parsers!LookupEnds
<1>1. CASE Parsers!Ask
  BY <1>0, <1>1 DEF Parsers!Ask, AskInv
<1>2. CASE Parsers!AskFails
  BY <1>0, <1>2 DEF Parsers!AskFails, AskInv
<1>3. CASE Parsers!ReadGateway
  <2>1. /\ askAt \in DOMAIN contracts /\ firstRead' = gateway /\ askGateways' = askGateways \cup {gateway}
        /\ UNCHANGED <<lookedUp, askAt>>
    BY <1>3 DEF Parsers!ReadGateway
  <2>2. \A i \in DOMAIN contracts : NotFound(i) => NotFound(i)'
    BY <1>0, <2>1 DEF NotFound, Parsers!Finds
  <2> QED BY <1>0, <2>1, <2>2 DEF AskInv
<1>4. CASE Parsers!LookupContract
  <2>1. /\ firstRead # Unread /\ firstRead' = Unread /\ askGateways' = askGateways \cup {gateway}
        /\ askAt \in DOMAIN contracts /\ askAt # 0 /\ askAt \in Nat /\ firstRead \in askGateways
    BY <1>4 DEF Parsers!LookupContract, AskInv
  <2>2. \A i \in DOMAIN contracts : NotFound(i) => NotFound(i)'
    BY <1>0, <2>1 DEF NotFound, Parsers!Finds
  <2>3. CASE Parsers!Finds(tx, contracts, askAt, firstRead, gateway)
    <3>1. lookedUp' = Parsers!EventFrom(tx) /\ askAt' = 0
      BY <1>4, <2>3 DEF Parsers!LookupContract
    <3> QED BY <1>0, <2>1, <2>3, <3>1 DEF AskInv, Parsers!Finds
  <2>4. CASE ~ Parsers!Finds(tx, contracts, askAt, firstRead, gateway)
    <3>1. askAt' = askAt + 1 /\ lookedUp' = lookedUp /\ lookedUp = Parsers!NotYet
      BY <1>4, <2>1, <2>4 DEF Parsers!LookupContract, AskInv
    <3>2. \E first, second \in askGateways' : ~ Parsers!Finds(tx, contracts, askAt, first, second)
      BY <2>1, <2>4
    <3>3. ASSUME NEW i \in DOMAIN contracts, i < askAt + 1 PROVE NotFound(i)'
      <4>1. CASE i = askAt
        BY <1>0, <3>2, <4>1 DEF NotFound, Parsers!Finds
      <4>2. CASE i < askAt
        BY <2>1, <2>2, <4>2 DEF AskInv
      <4> QED BY <2>1, <3>3, <4>1, <4>2
    <3> QED BY <1>0, <2>1, <3>1, <3>3 DEF AskInv
  <2> QED BY <2>3, <2>4
<1>5. CASE Parsers!LookupEnds
  <2>1. /\ askAt > Len(contracts) /\ lookedUp' = Parsers!NoEvent /\ askAt' = 0 /\ UNCHANGED <<firstRead, askGateways>>
        /\ askAt \in Nat
    BY <1>5 DEF Parsers!LookupEnds, AskInv
  <2>2. askAt # 0 /\ firstRead = Unread
    BY <2>1 DEF AskInv
  <2>3. \A i \in DOMAIN contracts : NotFound(i)
    BY <2>1, <2>2 DEF AskInv
  <2>4. \A i \in DOMAIN contracts : NotFound(i)'
    BY <1>0, <2>1, <2>3 DEF NotFound, Parsers!Finds
  <2> QED BY <1>0, <2>1, <2>2, <2>4 DEF AskInv
<1> QED BY <1>1, <1>2, <1>3, <1>4, <1>5

LEMMA ParsersStep == ParsersInv /\ [MCNext]_<<program, vars, pegVars, videoVars, parserVars>> => ParsersInv'
<1> SUFFICES ASSUME ParsersInv, [MCNext]_<<program, vars, pegVars, videoVars, parserVars>>, program' = "parsers"
             PROVE  Len(contracts') \in Nat /\ DOMAIN contracts' = 1 .. Len(contracts') /\ ScanInv' /\ AskInv'
  BY DEF ParsersInv
<1>0. /\ program = "parsers" /\ ScanInv /\ AskInv
      /\ Len(contracts) \in Nat /\ DOMAIN contracts = 1 .. Len(contracts)
  BY DEF MCNext, ParsersInv
<1>1. CASE UNCHANGED parserVars
  <2>1. /\ UNCHANGED <<tx, contracts, scanned, scanAt, scanGateways>>
        /\ UNCHANGED <<tx, contracts, lookedUp, askAt, firstRead, askGateways>>
    BY <1>1 DEF parserVars
  <2> QED BY <1>0, <2>1, ScanInvStays, AskInvStays
<1>2. CASE Parsers!UpdateGateway
  <2>1. /\ UNCHANGED <<tx, contracts, scanned, scanAt, scanGateways>>
        /\ UNCHANGED <<tx, contracts, lookedUp, askAt, firstRead, askGateways>>
    BY <1>2 DEF Parsers!UpdateGateway, Parsers!scanVars, Parsers!askVars
  <2> QED BY <1>0, <2>1, ScanInvStays, AskInvStays
<1>3. CASE Parsers!ScanContract
  <2>1. UNCHANGED <<tx, contracts, lookedUp, askAt, firstRead, askGateways>>
    BY <1>3 DEF Parsers!ScanContract, Parsers!askVars
  <2> QED BY <1>0, <1>3, <2>1, ScanContractKeeps, AskInvStays
<1>4. CASE Parsers!Ask \/ Parsers!AskFails \/ Parsers!ReadGateway \/ Parsers!LookupContract \/ Parsers!LookupEnds
  <2>1. UNCHANGED <<tx, contracts, scanned, scanAt, scanGateways>>
    BY <1>4 DEF Parsers!Ask, Parsers!AskFails, Parsers!ReadGateway, Parsers!LookupContract, Parsers!LookupEnds,
       Parsers!scanVars
  <2> QED BY <1>0, <1>4, <2>1, AskKeeps, ScanInvStays
<1> QED BY <1>0, <1>1, <1>2, <1>3, <1>4 DEF MCNext, Parsers!Next

(***************************************************************************)
(* What the scan reports, a look-up that gets the transaction confirms,    *)
(* for any transaction and any list of token contracts, unless it is a     *)
(* transfer to an account that UpdateGateway made the gateway no longer.   *)
(***************************************************************************)
THEOREM LookupConfirmsCorrect == MCSpec => []LookupConfirmsScan
<1>1. ParsersInv => LookupConfirmsScan
  <2> SUFFICES ASSUME ParsersInv, program = "parsers", scanned.answer = "event",
                      lookedUp # Parsers!NotYet, lookedUp # Parsers!Failed, lookedUp # scanned
               PROVE  /\ tx.name = "transfer" /\ tx.to \in scanGateways
                      /\ \E first, second \in askGateways : tx.from # first /\ tx.to # second
    BY DEF LookupConfirmsScan, Parsers!LookupConfirmsScan
  <2>1. scanned = Parsers!EventFrom(tx)
    BY Answers DEF ParsersInv, ScanInv
  <2>2. lookedUp = Parsers!NoEvent
    BY <2>1 DEF ParsersInv, AskInv
  <2>3. PICK i \in DOMAIN contracts : \E g \in scanGateways : Parsers!Pushes(tx, contracts, i, g)
    BY <2>1 DEF ParsersInv, ScanInv
  <2>4. PICK g \in scanGateways : Parsers!Pushes(tx, contracts, i, g)
    BY <2>3
  <2>5. PICK first, second \in askGateways : ~ Parsers!Finds(tx, contracts, i, first, second)
    BY <2>2 DEF ParsersInv, AskInv, NotFound
  <2>6. ~ Parsers!ParsesJSON(tx, contracts[i], first, second)
    BY <2>4, <2>5 DEF Parsers!Pushes, Parsers!Finds
  <2>7. tx.name = "transfer" /\ tx.to = g /\ tx.from # first /\ tx.to # second
    BY <2>4, <2>6 DEF Parsers!Pushes, Parsers!ParsesTyped, Parsers!TypedTransfer, Parsers!TypedSolvent,
       Parsers!ParsesJSON, Parsers!JSONTransfer, Parsers!JSONSolvent
  <2> QED BY <2>7
<1> QED BY <1>1, ParsersInitial, ParsersStep, PTL DEF MCSpec

(***************************************************************************)
(* What a look-up reports and the scan does not is a create or issue, a    *)
(* transfer of the look-up's gateway that was not to the scan's, one that  *)
(* its block has not in full, or one whose registered type is not that of  *)
(* its name.                                                               *)
(***************************************************************************)
THEOREM MissesCorrect == MCSpec => []ScanMissesOnly
<1>1. ParsersInv => ScanMissesOnly
  <2> SUFFICES ASSUME ParsersInv, program = "parsers", scanned = Parsers!NoEvent, lookedUp.answer = "event",
                      tx.packed /\ tx.unpacks, tx.name # "issue",
                      NEW i \in DOMAIN contracts, tx.name = contracts[i].ActionNameDestroy,
                      tx.account = contracts[i].ActionAccount, Parsers!IsQuantityOf(contracts[i], tx.quantity),
                      Parsers!RegisteredType(contracts, tx.account, tx.name)
                        = IF tx.name = "transfer" THEN "Transfer" ELSE "Solvent"
               PROVE  /\ tx.name = "transfer" /\ {tx.from, tx.to} \cap askGateways # {}
                      /\ \E g \in scanGateways : tx.to # g
    BY DEF ScanMissesOnly, Parsers!ScanMissesOnly
  <2>1. PICK g \in scanGateways : ~ Parsers!Pushes(tx, contracts, i, g)
    BY DEF ParsersInv, ScanInv, Refused
  <2>2. lookedUp = Parsers!EventFrom(tx)
    BY Answers DEF ParsersInv, AskInv
  <2>3. PICK j \in DOMAIN contracts : \E first, second \in askGateways : Parsers!Finds(tx, contracts, j, first, second)
    BY <2>2 DEF ParsersInv, AskInv
  <2>4. PICK first, second \in askGateways : Parsers!Finds(tx, contracts, j, first, second)
    BY <2>3
  <2>5. /\ tx.actions = 1 /\ tx.standard
        /\ tx.name = "solvent" \/ (tx.name = "transfer" /\ (tx.from = first \/ tx.to = second))
    BY <2>4 DEF Parsers!Finds, Parsers!ParsesJSON, Parsers!JSONTransfer, Parsers!JSONSolvent
  <2>6. ~ Parsers!ParsesTyped(tx, Parsers!RegisteredType(contracts, tx.account, tx.name), contracts[i], g)
    BY <2>1, <2>5 DEF Parsers!Pushes
  <2>7. tx.name = "transfer" /\ tx.to # g
    BY <2>5, <2>6 DEF Parsers!ParsesTyped, Parsers!TypedTransfer, Parsers!TypedSolvent
  <2> QED BY <2>5, <2>7
<1> QED BY <1>1, ParsersInitial, ParsersStep, PTL DEF MCSpec
=============================================================================
