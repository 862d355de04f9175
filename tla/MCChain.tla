------------------------------ MODULE MCChain ------------------------------
(***************************************************************************)
(* The programs that run on the chain or read it in turn, one of them in a *)
(* behaviour: the token contract alone, the peg with its watchers, the     *)
(* video contract, and the two ways to learn of one transaction.           *)
(***************************************************************************)
EXTENDS Token2

CONSTANTS
  (* the peg *)            Gateway, Users, Wrapped, BuiltAmounts, MaxTxs,
  (* the video contract *) XinGateway, XinUsers, Hashes, Prices, Wide, Narrow, MaxIssued,
  (* the parsers *)        Txs, ContractLists, Gateways, Unread

VARIABLES
  program,
  ledgers, transactions, executed, receipts, position, reported, done, missed, \* the peg
  accounts, videos, orders, issued,                                            \* the video contract
  tx, contracts, gateway, scanned, scanAt, lookedUp, askAt, firstRead,         \* the two parsers
  scanGateways, askGateways

Peg == INSTANCE Bridge WITH Amounts <- BuiltAmounts
Video == INSTANCE XinPlayer WITH Gateway <- XinGateway, Users <- XinUsers
Parsers == INSTANCE EventLookup WITH Gateway <- gateway

ASSUME ChainAssumption == Peg!BridgeAssumption /\ Video!XinAssumption /\ Parsers!LookupAssumption

(* A program that does not run stands in an initial state.                 *)
MCInit ==
  /\ program \in {"token", "peg", "video", "parsers"}
  /\ Init
  /\ Peg!Init
  /\ Video!Init
  /\ IF program = "parsers" THEN Parsers!Init
     ELSE /\ tx = {} /\ contracts = {} /\ gateway = Unread /\ firstRead = Unread
          /\ scanned = Parsers!NotYet /\ scanAt = 0 /\ scanGateways = {}
          /\ lookedUp = Parsers!NotYet /\ askAt = 0 /\ askGateways = {}

pegVars == <<ledgers, transactions, executed, receipts, position, reported, done, missed>>
videoVars == <<accounts, videos, orders, issued>>
parserVars == <<tx, contracts, gateway, scanned, scanAt, lookedUp, askAt, firstRead, scanGateways, askGateways>>

MCNext ==
  /\ UNCHANGED program
  /\ \/ program = "token" /\ Next /\ UNCHANGED <<pegVars, videoVars, parserVars>>
     \/ program = "peg" /\ Peg!Next /\ UNCHANGED <<vars, videoVars, parserVars>>
     \/ program = "video" /\ Video!Next /\ UNCHANGED <<vars, pegVars, parserVars>>
     \/ program = "parsers" /\ Parsers!Next /\ UNCHANGED <<vars, pegVars, videoVars>>

MCSpec == MCInit /\ [][MCNext]_<<program, vars, pegVars, videoVars, parserVars>>

-----------------------------------------------------------------------------
(***************************************************************************)
(* The peg: what is outstanding of the token and what the gateway was told *)
(* to pay out, once for an id and for executed transactions, never exceed  *)
(* what was issued, the EOS that it was told of was sent to it, and only a *)
(* transaction with a delay is reported before it is executed.             *)
(***************************************************************************)
PegSound == Peg!TypeOK /\ Peg!PegHolds /\ Peg!DepositsAreReal /\ Peg!OnlyDelayedAreEarly

(* An accepted destruction that a watcher built is reported by the scan.   *)
BuiltIsReported == Peg!BuiltIsReported

(***************************************************************************)
(* The video contract keeps its tables in step with each other: balances   *)
(* with what was issued, profits with expenses, counters with orders, on   *)
(* integers that wrap.                                                     *)
(***************************************************************************)
TablesAgree ==
  Video!TypeOK /\ Video!BalancesSumToIssued /\ Video!ProfitsAreExpenses /\ Video!OrdersAreCounted

(* What the scan reports, a look-up of the same transaction confirms.      *)
LookupConfirmsScan == program = "parsers" => Parsers!LookupConfirmsScan

(* What a look-up reports and the scan does not is of a known kind.        *)
ScanMissesOnly == program = "parsers" => Parsers!ScanMissesOnly

-----------------------------------------------------------------------------
(* The small instance.  Bad amounts, and enough to exceed a maximum by one *)
(* or by two actions.                                                      *)
MCAmounts == {-1, 0, 1, 2}

MCWrapped == [ActionAccount |-> "gateway", ActionNameDestroy |-> "solvent",
              ActionNameCreate |-> "issue", Symbol |-> "WBTC", Precision |-> 8]

(* Sequences, because an order's id is one: <<"a", "b", "c">> of two buyers. *)
MCXinGateway == <<"g">>
MCXinUsers == {<<"a">>, <<"a", "b">>}
MCHashes == {<<"c">>, <<"b", "c">>}

(* The system token scanned for transfers, two custom tokens on one        *)
(* account, and a custom token whose destroy action is a transfer.         *)
Contract(account, destroy, create, symbol) ==
  [ActionAccount |-> account, ActionNameDestroy |-> destroy, ActionNameCreate |-> create,
   Symbol |-> symbol, Precision |-> 4]

EosToken == Contract("eosio.token", "transfer", "transfer", "EOS")
WbchToken == Contract("tok", "solvent", "issue", "WBCH")
WbtcToken == Contract("tok", "solvent", "issue", "WBTC")
OddToken == Contract("tok", "transfer", "solvent", "WBTC")

MCContractLists == {<<EosToken, WbchToken>>, <<WbchToken, WbtcToken>>, <<OddToken>>,
                    <<WbtcToken, OddToken>>, <<OddToken, WbtcToken>>}

MCGateways == {"gateway", "gateway2"}

(* A transaction with its parties up to an exchange of the two gateways,   *)
(* and at most one oddity in its body or its quantity.                     *)
MCParties == {<<"user", "user">>, <<"user", "gateway">>, <<"gateway", "user">>,
              <<"gateway", "gateway">>, <<"gateway", "gateway2">>}

MCToken(symbol, precision) == [Symbol |-> symbol, Precision |-> precision]

MCTxs ==
  LET Tx(packed, unpacks, standard, actions, account, quantity) ==
        {[packed |-> packed, unpacks |-> unpacks, standard |-> standard, actions |-> actions,
          account |-> account, name |-> n, from |-> p[1], to |-> p[2], quantity |-> quantity] :
            n \in {"transfer", "solvent", "issue"}, p \in MCParties}
  IN UNION {Tx(TRUE, TRUE, TRUE, 1, a, q) : a \in {"eosio.token", "tok"},
              q \in {MCToken("EOS", 4), MCToken("WBTC", 4), MCToken("WBTC", 8)}}
     \cup UNION {Tx(FALSE, TRUE, TRUE, 1, q[1], q[2]) \cup Tx(TRUE, FALSE, TRUE, 1, q[1], q[2])
                   \cup Tx(TRUE, TRUE, FALSE, 1, q[1], q[2]) \cup Tx(TRUE, TRUE, TRUE, 2, q[1], q[2]) :
                   q \in {<<"eosio.token", MCToken("EOS", 4)>>, <<"tok", MCToken("WBTC", 4)>>}}
=============================================================================
