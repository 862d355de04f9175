---------------------------- MODULE EventLookup ----------------------------
(***************************************************************************)
(* A gateway learns of a transaction twice: from the scan of its block and *)
(* by asking GetEventByTxid.  The two answers come from different code on  *)
(* different representations of one transaction, and both read the         *)
(* gateway's account from a field that UpdateGateway sets without a lock.  *)
(* Here one transaction and one list of token contracts are chosen, the    *)
(* scan and the look-up run in steps of their own, a turn of the loop over *)
(* the contracts or a read of the field at a time, and the field changes   *)
(* between any two of them.                                                *)
(***************************************************************************)
EXTENDS PushEvents

CONSTANTS
  Txs,           (* the transactions considered                              *)
  ContractLists, (* the token contract lists considered                      *)
  Gateways,      (* the accounts that the gateway may have                   *)
  Unread         (* no read of the field in this turn so far                 *)

LookupAssumption ==
  /\ \A list \in ContractLists : Len(list) \in Nat /\ DOMAIN list = 1..Len(list)
  /\ Unread \notin Gateways

VARIABLES
  tx, contracts,
  Gateway,      (* the field                                                 *)
  scanned,      (* what the scan came to                                     *)
  scanAt,       (* the turn of its loop                                      *)
  lookedUp,     (* what the last look-up came to                             *)
  askAt,        (* the turn of its loop, 0 if no look-up is under way        *)
  firstRead,    (* the field as compared with the sender in this turn        *)
  (* history *)
  scanGateways, (* values of the field that the scan read                    *)
  askGateways   (* values of the field that the look-up read                 *)

scanVars == <<scanned, scanAt, scanGateways>>
askVars == <<lookedUp, askAt, firstRead, askGateways>>
vars == <<tx, contracts, Gateway, scanVars, askVars>>

NotYet == [answer |-> "notYet"]
Failed == [answer |-> "failed"]

Init ==
  /\ tx \in Txs
  /\ contracts \in ContractLists
  /\ Gateway \in Gateways
  /\ scanned = NotYet /\ scanAt = 1 /\ scanGateways = {}
  /\ lookedUp = NotYet /\ askAt = 0 /\ firstRead = Unread /\ askGateways = {}

UpdateGateway ==
  /\ Gateway' \in Gateways
  /\ UNCHANGED <<tx, contracts, scanVars, askVars>>

(* A turn of the scan's loop; the loop ends with an event or the list.     *)
ScanContract ==
  /\ scanned = NotYet
  /\ IF scanAt > Len(contracts)
     THEN scanned' = NoEvent /\ UNCHANGED <<scanAt, scanGateways>>
     ELSE /\ scanGateways' = scanGateways \cup {Gateway}
          /\ IF Pushes(tx, contracts, scanAt, Gateway)
             THEN scanned' = EventFrom(tx) /\ UNCHANGED scanAt
             ELSE scanAt' = scanAt + 1 /\ UNCHANGED scanned
  /\ UNCHANGED <<tx, contracts, Gateway, askVars>>

(* GetTransaction answers with the transaction, and the loop begins.       *)
Ask ==
  /\ askAt = 0
  /\ askAt' = 1
  /\ lookedUp' = NotYet /\ askGateways' = {}
  /\ UNCHANGED <<tx, contracts, Gateway, scanVars, firstRead>>

(* GetTransaction fails, and its error is returned without an event.       *)
AskFails ==
  /\ askAt = 0
  /\ lookedUp' = Failed /\ askGateways' = {}
  /\ UNCHANGED <<tx, contracts, Gateway, scanVars, askAt, firstRead>>

(* A turn of the look-up's loop begins, the field being read once ...      *)
ReadGateway ==
  /\ askAt \in DOMAIN contracts /\ firstRead = Unread
  /\ firstRead' = Gateway
  /\ askGateways' = askGateways \cup {Gateway}
  /\ UNCHANGED <<tx, contracts, Gateway, scanVars, lookedUp, askAt>>

(* ... and ends, the field being read again.                               *)
LookupContract ==
  /\ firstRead # Unread
  /\ firstRead' = Unread
  /\ askGateways' = askGateways \cup {Gateway}
  /\ IF Finds(tx, contracts, askAt, firstRead, Gateway)
     THEN lookedUp' = EventFrom(tx) /\ askAt' = 0
     ELSE askAt' = askAt + 1 /\ UNCHANGED lookedUp
  /\ UNCHANGED <<tx, contracts, Gateway, scanVars>>

LookupEnds ==
  /\ askAt > Len(contracts)
  /\ lookedUp' = NoEvent /\ askAt' = 0
  /\ UNCHANGED <<tx, contracts, Gateway, scanVars, firstRead, askGateways>>

Next ==
  \/ UpdateGateway \/ ScanContract
  \/ Ask \/ AskFails \/ ReadGateway \/ LookupContract \/ LookupEnds

Spec == Init /\ [][Next]_vars

-----------------------------------------------------------------------------
(***************************************************************************)
(* What the scan reports, a look-up that gets the transaction confirms,    *)
(* with the same account, name and token.  The one exception is a transfer *)
(* to what was the gateway when it was scanned and was not, at some time   *)
(* during the look-up: UpdateGateway was called between.                   *)
(***************************************************************************)
LookupConfirmsScan ==
  scanned.answer = "event" /\ lookedUp \notin {NotYet, Failed} =>
    \/ lookedUp = scanned
    \/ /\ tx.name = "transfer" /\ tx.to \in scanGateways
       /\ \E first, second \in askGateways : tx.from # first /\ tx.to # second

(***************************************************************************)
(* A transaction that a look-up reports and the scan does not is a create  *)
(* or issue action, a transfer of the gateway of the look-up that was not  *)
(* to the gateway of the scan, a transaction without a readable body in    *)
(* its block, or one of a contract whose registered action type is not the *)
(* one the parser casts to.  Without a call of UpdateGateway the transfers *)
(* among them are those out of the gateway.                                *)
(***************************************************************************)
ScanMissesOnly ==
  scanned = NoEvent /\ lookedUp.answer = "event" =>
    \/ ~ (tx.packed /\ tx.unpacks)
    \/ tx.name = "issue"
    \/ /\ tx.name = "transfer" /\ {tx.from, tx.to} \cap askGateways # {}
       /\ \E g \in scanGateways : tx.to # g
    \/ \A i \in DOMAIN contracts : tx.name # contracts[i].ActionNameDestroy
                                   \/ tx.account # contracts[i].ActionAccount
                                   \/ ~ IsQuantityOf(contracts[i], tx.quantity)
    \/ RegisteredType(contracts, tx.account, tx.name)
         # IF tx.name = "transfer" THEN "Transfer" ELSE "Solvent"
=============================================================================
