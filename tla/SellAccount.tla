---------------------------- MODULE SellAccount ----------------------------
(***************************************************************************)
(* The sale of an account: `eosc tools sell-account` proposes to the       *)
(* eosio.msig contract a transaction that hands the account's two          *)
(* permissions over and pays for it; both parties then work on the         *)
(* proposal with `eosc multisig review, approve, unapprove, cancel, exec`. *)
(* Between the requests of the command, and until the proposal is executed,*)
(* everyone may change his permissions.                                    *)
(***************************************************************************)
EXTENDS Integers, FiniteSets

CONSTANTS
  Prices,      (* amounts the seller asks                                    *)
  Funds,       (* what the buyer has                                         *)
  MaxKeys      (* bound: how often an account changes an authority           *)

SellAccountAssumption == Prices \subseteq Nat \ {0} /\ Funds \in Nat /\ MaxKeys \in Nat

VARIABLES
  auth,        (* auth[a][p]: the authority of permission p of account a     *)
  extra,       (* the sold account has permissions beside owner and active   *)
  paid,        (* what the beneficiary has received                          *)
  command,     (* the sell-account command                                   *)
  proposal,    (* the proposal of that name, or NoProposal                   *)
  held,        (* history: the pairs of authorities the buyer had            *)
  sale         (* history: the price of the executed sale, 0 before it       *)

vars == <<auth, extra, paid, command, proposal, held, sale>>

Permissions == {"owner", "active"}
(* An authority is who chose it and a number; parties never choose alike.  *)
Authorities == {"seller", "buyer"} \X (0 .. MaxKeys)
Party(account) == IF account = "sold" THEN "seller" ELSE "buyer"

Idle == [pc |-> "idle"]
NoProposal == [price |-> 0]
NoSale == 0

(* Who has to approve: msigPermissions.                                    *)
Requested == {<<"buyer", "active">>, <<"sold", "active">>, <<"sold", "owner">>}

Init ==
  /\ auth = [a \in {"sold", "buyer"} |-> [p \in Permissions |-> <<Party(a), 0>>]]
  /\ extra \in BOOLEAN
  /\ paid = 0 /\ command = Idle /\ proposal = NoProposal /\ sale = NoSale
  /\ held = {auth["buyer"]}

-----------------------------------------------------------------------------
(* sell-account: the sold account, then the buyer's, then the proposal.    *)

GetSoldAccount ==
  /\ command = Idle /\ sale = NoSale
  /\ ~ extra
  /\ command' = [pc |-> "buyer"]
  /\ UNCHANGED <<auth, extra, paid, proposal, held, sale>>

GetBuyerTwice == \* mutation: one request for each permission
  /\ command.pc = "buyer"
  /\ \E owner \in held :
       command' = [pc |-> "propose", target |-> [auth["buyer"] EXCEPT !["owner"] = owner["owner"]]]
  /\ UNCHANGED <<auth, extra, paid, proposal, held, sale>>

GetBuyerAccount ==
  /\ command.pc = "buyer"
  /\ command' = [pc |-> "propose", target |-> auth["buyer"]]
  /\ UNCHANGED <<auth, extra, paid, proposal, held, sale>>

(* The contract refuses a second proposal of the name.                     *)
Propose(price) ==
  /\ command.pc = "propose" /\ proposal = NoProposal /\ sale = NoSale
  /\ proposal' = [price |-> price, target |-> command.target, approvals |-> {}]
  /\ command' = Idle
  /\ UNCHANGED <<auth, extra, paid, held, sale>>

SellFails ==
  /\ command # Idle /\ command' = Idle
  /\ UNCHANGED <<auth, extra, paid, proposal, held, sale>>

-----------------------------------------------------------------------------
(* multisig: every command is one action, named by proposer and name only. *)

Approve(level) ==
  /\ proposal # NoProposal
  /\ proposal' = [proposal EXCEPT !.approvals = @ \cup {level}]
  /\ UNCHANGED <<auth, extra, paid, command, held, sale>>

Unapprove(level) ==
  /\ proposal # NoProposal /\ level \in proposal.approvals
  /\ proposal' = [proposal EXCEPT !.approvals = @ \ {level}]
  /\ UNCHANGED <<auth, extra, paid, command, held, sale>>

Cancel ==
  /\ proposal # NoProposal
  /\ proposal' = NoProposal
  /\ UNCHANGED <<auth, extra, paid, command, held, sale>>

(* The chain takes the three actions of the transaction together or none.  *)
Exec ==
  /\ proposal # NoProposal /\ proposal.approvals = Requested
  /\ proposal.price <= Funds - paid
  /\ auth' = [auth EXCEPT !["sold"] = proposal.target]
  /\ paid' = paid + proposal.price
  /\ sale' = proposal.price
  /\ proposal' = NoProposal
  /\ UNCHANGED <<extra, command, held>>

-----------------------------------------------------------------------------
(* Outside: an account changes an authority, or the seller adds and        *)
(* removes other permissions, as long as the account is his.               *)

UpdateAuth(a, p) ==
  /\ a = "sold" => sale = NoSale
  /\ auth[a][p][2] < MaxKeys
  /\ auth' = [auth EXCEPT ![a][p] = <<Party(a), @[2] + 1>>]
  /\ held' = held \cup {auth'["buyer"]}
  /\ UNCHANGED <<extra, paid, command, proposal, sale>>

OtherPermissions ==
  /\ sale = NoSale
  /\ extra' = ~ extra
  /\ UNCHANGED <<auth, paid, command, proposal, held, sale>>

Next ==
  \/ GetSoldAccount \/ GetBuyerAccount \/ SellFails \/ \E price \in Prices : Propose(price)
  \/ Cancel \/ Exec \/ \E level \in Requested : Approve(level) \/ Unapprove(level)
  \/ \E a \in {"sold", "buyer"}, p \in Permissions : UpdateAuth(a, p)
  \/ OtherPermissions

Spec == Init /\ [][Next]_vars

-----------------------------------------------------------------------------
(* Types; the authorities to hand over are ones the buyer chose, and the   *)
(* beneficiary receives no more than the buyer has.                        *)
TypeOK ==
  /\ auth \in [{"sold", "buyer"} -> [Permissions -> Authorities]] /\ extra \in BOOLEAN
  /\ paid \in 0 .. Funds /\ command.pc \in {"idle", "buyer", "propose"}
  /\ command.pc = "propose" => command.target \in [Permissions -> {"buyer"} \X (0 .. MaxKeys)]
  /\ proposal = NoProposal \/ (proposal.price \in Prices /\ proposal.approvals \subseteq Requested)

(* "Atomic sale": the seller has both permissions and no money, or the     *)
(* buyer has both and paid what was asked, whenever permissions changed,   *)
(* approvals were taken back and proposals were replaced.                  *)
SaleIsAtomic ==
  LET owners == {auth["sold"][p][1] : p \in Permissions} IN
  IF sale = NoSale THEN owners = {"seller"} /\ paid = 0
  ELSE owners = {"buyer"} /\ paid = sale

(* What the sold account gets is a pair of authorities that the buyer had  *)
(* at one time, however he changed one or the other meanwhile.             *)
SoldWasBuyers == sale # NoSale => auth["sold"] \in held

(* The sale as a whole.                                                    *)
SaleSound == TypeOK /\ SaleIsAtomic /\ SoldWasBuyers
=============================================================================
