----------------------------- MODULE ActionScan -----------------------------
(***************************************************************************)
(* The block scan of a watcher of one contract, EOSWatcher and             *)
(* EOSWatcherContract, whose setters change the watched account and action *)
(* names while workers compare transactions with them.  The fields are     *)
(* plain fields and the process-wide registry of action types is a map:    *)
(* a worker reads type, account and name one after the other, a setter     *)
(* writes them one after the other.                                        *)
(*                                                                         *)
(* PushIndexes names the receipts with one packed action; what that action *)
(* is, Action tells.  Which setter writes what is left to the watchers.    *)
(***************************************************************************)
EXTENDS BlockScan

CONSTANTS
  Action,     (* per transaction: account, name, and whether its quantity is *)
              (* of the watcher's token                                      *)
  First,      (* the arguments of the constructor                            *)
  Accounts,   (* the arguments of the setters                                *)
  Names,
  MaxChanges, (* number of setter calls considered (bound of the model)      *)
  MayAsk      (* whether look-ups are considered (bound of the model)        *)

Fields == [ActionAccount : Accounts, ActionNameDestroy : Names, ActionNameCreate : Names]

(* Action tells of every receipt that PushIndexes names.                   *)
ASSUME ActionsAssumption ==
  /\ \A h \in Heights : \A i \in PushIndexes[h] : <<h, i>> \in DOMAIN Action
  /\ \A tx \in DOMAIN Action : Action[tx] \in [account : Accounts, name : Names, ours : BOOLEAN]
  /\ First \in Fields
  /\ MaxChanges \in Nat \ {0}
  /\ MayAsk \in BOOLEAN

VARIABLES
  watched,    (* the fields ActionAccount, ActionNameDestroy, ActionNameCreate *)
  registered, (* the registry: per account and name the type of action data  *)
  setter,     (* the assignments that the running setter has still to make   *)
  look,       (* per height, where its worker stands in the current receipt  *)
  ask,        (* the look-up: its transaction, where it stands, its answer   *)
  (* history *)
  configured, (* the pairs of account and destroy name that were in force    *)
  merged,     (* the two names were equal at some time                       *)
  changes     (* number of setter calls so far                               *)

watching == <<watched, registered, setter, look, ask, configured, merged, changes>>
allVars == <<vars, watching>>

Stages == {"unpack", "account", "name", "cast"}

(* A worker between two receipts.                                          *)
Idle == [stage |-> "unpack", type |-> "none", calm |-> TRUE]

NotAsked == [stage |-> "none", tx |-> <<0, 0>>, calm |-> TRUE]

DestroyPair(fields) == <<fields.ActionAccount, fields.ActionNameDestroy>>

(* The constructor registers Solvent for the destroy name, then Issue for  *)
(* the create name.                                                        *)
Constructed ==
  [p \in Accounts \X Names |->
     CASE p = <<First.ActionAccount, First.ActionNameCreate>> -> "Issue"
       [] p = DestroyPair(First) -> "Solvent"
       [] OTHER -> "none"]

WatchInit ==
  /\ Init
  /\ watched = First
  /\ registered = Constructed
  /\ setter = <<>>
  /\ look = [h \in Heights |-> Idle]
  /\ ask = NotAsked
  /\ configured = {DestroyPair(First)}
  /\ merged = (First.ActionNameDestroy = First.ActionNameCreate)
  /\ changes = 0

-----------------------------------------------------------------------------
(* The setters.  A call is the list of its assignments, made one by one.   *)
Call(assignments) ==
  /\ pc # "down"
  /\ setter = <<>>
  /\ changes < MaxChanges
  /\ changes' = changes + 1
  /\ setter' = assignments
  /\ look' = [h \in Heights |-> [look[h] EXCEPT !.calm = FALSE]]
  /\ ask' = [ask EXCEPT !.calm = FALSE]
  /\ UNCHANGED <<vars, watched, registered, configured, merged>>

Assign(field, value) == [kind |-> "assign", field |-> field, value |-> value]
Register(field, type) == [kind |-> "register", field |-> field, value |-> type]

(* The next assignment: to a field, or to the entry of the registry that   *)
(* the fields name when it is made.                                        *)
SetterStep ==
  /\ setter # <<>>
  /\ setter' = Tail(setter)
  /\ LET step == Head(setter)
         fields == [watched EXCEPT ![step.field] = step.value]
     IN IF step.kind = "assign"
        THEN /\ watched' = fields
             /\ configured' = configured \cup {DestroyPair(fields)}
             /\ merged' = (merged \/ fields.ActionNameDestroy = fields.ActionNameCreate)
             /\ UNCHANGED registered
        ELSE /\ registered' =
                  [registered EXCEPT ![<<watched.ActionAccount, watched[step.field]>>] = step.value]
             /\ UNCHANGED <<watched, configured, merged>>
  /\ UNCHANGED <<vars, look, ask, changes>>

-----------------------------------------------------------------------------
(* The loop of UpdateEOSPushEvent, one comparison at a time.               *)
At(w, stage) ==
  /\ workers[w].pc = "report"
  /\ Pending(w) # {}
  /\ look[workers[w].height].stage = stage

NextIndex(w) == CHOOSE i \in Pending(w) : \A j \in Pending(w) : i <= j

ActionAt(w) == Action[<<workers[w].height, NextIndex(w)>>]

Goto(w, stage) == look' = [look EXCEPT ![workers[w].height].stage = stage]

Forget(w) == look' = [look EXCEPT ![workers[w].height] = Idle]

KeepWatched == UNCHANGED <<watched, registered, setter, ask, configured, merged, changes>>

(* continue: the receipt is passed over.                                   *)
PassOver(w) ==
  /\ workers' = [workers EXCEPT ![w].next = NextIndex(w) + 1]
  /\ Forget(w)
  /\ KeepWatched
  /\ UNCHANGED <<lib, db, scanner, slots, channel, delivered, history>>

(* Packed.Unpack() decodes the data by the type that is registered now.    *)
Unpack(w) ==
  /\ At(w, "unpack")
  /\ LET a == ActionAt(w) IN
       look' = [look EXCEPT ![workers[w].height] =
                  [stage |-> "account", type |-> registered[<<a.account, a.name>>],
                   calm |-> setter = <<>>]]
  /\ KeepWatched
  /\ UNCHANGED vars

(* action.Account != ew.ActionAccount || action.Name != ew.ActionNameDestroy *)
CompareAccount(w) ==
  /\ At(w, "account")
  /\ IF ActionAt(w).account = watched.ActionAccount
     THEN Goto(w, "name") /\ KeepWatched /\ UNCHANGED vars
     ELSE PassOver(w)

CompareNameByType(w) == \* mutation: the registered type is relied on instead
  At(w, "name") /\ Goto(w, "cast") /\ KeepWatched /\ UNCHANGED vars

CompareName(w) ==
  /\ At(w, "name")
  /\ IF ActionAt(w).name = watched.ActionNameDestroy
     THEN Goto(w, "cast") /\ KeepWatched /\ UNCHANGED vars
     ELSE PassOver(w)

(* The cast to the type of the destroy action, and the check of quantity.  *)
IsDestroyAnyType(w) == ActionAt(w).ours \* mutation: the type is not checked

IsDestroy(w) == look[workers[w].height].type = "Solvent" /\ ActionAt(w).ours

CastFails(w) == At(w, "cast") /\ ~ IsDestroy(w) /\ PassOver(w)

Report(w, blockNum) ==
  /\ At(w, "cast")
  /\ IsDestroy(w)
  /\ ReportEvent(w, blockNum)
  /\ Forget(w)
  /\ KeepWatched

-----------------------------------------------------------------------------
(***************************************************************************)
(* GetEventByTxid: account, destroy name and create name are compared in   *)
(* turn.  The action data is a JSON object with its fields by name, so no  *)
(* registration is needed; the quantity is checked as in the scan.  The    *)
(* answer is the kind of event, or "error".  Any transaction of a block    *)
(* that the node has can be asked for, once per run.                       *)
(***************************************************************************)
AskedAction == Action[ask.tx]

AskEvent ==
  /\ pc # "down"
  /\ MayAsk
  /\ ask.stage = "none"
  /\ \E tx \in TxIDs :
       /\ tx[1] <= lib
       /\ tx \in DOMAIN Action
       /\ ask' = [stage |-> "account", tx |-> tx, calm |-> setter = <<>>]
  /\ UNCHANGED <<vars, watched, registered, setter, look, configured, merged, changes>>

AskTo(stage) ==
  ask' = [ask EXCEPT !.stage = stage] /\ UNCHANGED <<vars, watched, registered, setter, look, configured, merged, changes>>

AskAccount ==
  /\ ask.stage = "account"
  /\ AskTo(IF AskedAction.account = watched.ActionAccount THEN "destroy" ELSE "error")

AskDestroyUnchecked == \* mutation: the quantity is not checked
  /\ ask.stage = "destroy"
  /\ AskTo(IF AskedAction.name = watched.ActionNameDestroy THEN "destroyed" ELSE "create")

AskDestroy ==
  /\ ask.stage = "destroy"
  /\ AskTo(IF AskedAction.name # watched.ActionNameDestroy THEN "create"
           ELSE IF AskedAction.ours THEN "destroyed" ELSE "error")

AskCreate ==
  /\ ask.stage = "create"
  /\ AskTo(IF AskedAction.name = watched.ActionNameCreate /\ AskedAction.ours
           THEN "created" ELSE "error")

-----------------------------------------------------------------------------
(* The steps of the block scan that the setters do not touch.              *)
RequestInfo == \E n \in 0..lib : UpdateInfo(n)

ScanLoop ==
  /\ StartWatch \/ RequestInfo \/ CaughtUp \/ SlotFree \/ PutHeight \/ SpawnWorker \/ AdvanceScan
  /\ UNCHANGED watching

RequestBlock(w) == (AcquireSlot(w) \/ FetchBlock(w)) /\ UNCHANGED watching

FinishBlock(w) == ReleaseSlot(w) /\ UNCHANGED watching

Outside == (AdvanceChain \/ Receive) /\ UNCHANGED watching

(* A new process has the constructor's arguments and a fresh registry.     *)
Restart ==
  /\ Crash
  /\ watched' = First
  /\ registered' = Constructed
  /\ setter' = <<>>
  /\ look' = [h \in Heights |-> Idle]
  /\ ask' = NotAsked
  /\ configured' = {DestroyPair(First)}
  /\ merged' = (First.ActionNameDestroy = First.ActionNameCreate)
  /\ UNCHANGED changes

-----------------------------------------------------------------------------
(* Only a worker with receipts left is in the middle of one.               *)
WatchTypeOK ==
  /\ TypeOK
  /\ \A h \in Heights : look[h].stage # "unpack" =>
       \E w \in DOMAIN workers : workers[w].height = h /\ At(w, look[h].stage)
  /\ watched \in Fields
  /\ registered \in [Accounts \X Names -> {"none", "Issue", "Solvent"}]
  /\ \A k \in DOMAIN setter : setter[k].field \in DOMAIN First
  /\ look \in [Heights -> [stage : Stages, type : {"none", "Issue", "Solvent"}, calm : BOOLEAN]]
  /\ ask.stage \in {"none", "account", "destroy", "create", "destroyed", "created", "error"}
  /\ ask.stage # "none" => ask.tx \in DOMAIN Action
  /\ configured \subseteq Accounts \X Names
  /\ merged \in BOOLEAN
  /\ changes \in 0..MaxChanges

PairOf(txid) == <<Action[txid].account, Action[txid].name>>

(***************************************************************************)
(* A worker may compare the account before a setter and the name after     *)
(* another, but what it reports was the destroy action of some             *)
(* configuration of this process: it could only be cast because a          *)
(* configuration had registered it.                                        *)
(***************************************************************************)
ReportedWasConfigured ==
  \A k \in DOMAIN sent : PairOf(sent[k].TxID) \in configured

(***************************************************************************)
(* As long as no setter has run since the receipt was unpacked, a worker   *)
(* reports exactly the destroy actions of the watched pair that are of the *)
(* watcher's token.  The names must never have been equal: the create      *)
(* action's registration would have replaced the destroy action's.         *)
(***************************************************************************)
DecidesCalmly ==
  \A w \in DOMAIN workers :
    LET compares == \E stage \in {"account", "name", "cast"} : At(w, stage)
    IN compares /\ look[workers[w].height].calm /\ ~ merged
         /\ pc' # "down" /\ workers'[w].next # workers[w].next
       => (sent' # sent <=> PairOf(<<workers[w].height, NextIndex(w)>>) = DestroyPair(watched)
                            /\ ActionAt(w).ours)

(***************************************************************************)
(* Once a setter has returned, the watched destroy action can be decoded.  *)
(***************************************************************************)
SettledIsRegistered ==
  setter = <<>> /\ ~ merged => registered[DestroyPair(watched)] = "Solvent"

(***************************************************************************)
(* A look-up during which no setter ran confirms an event of the scan if   *)
(* its pair is still watched, and confirms as destroyed only what was a    *)
(* destroy action of a configuration, of the watcher's token.              *)
(***************************************************************************)
LookupConfirmsScan ==
  ask.calm =>
    /\ /\ ask.stage \in {"destroyed", "created", "error"}
       /\ ask.tx \in {sent[k].TxID : k \in DOMAIN sent}
       /\ PairOf(ask.tx) = DestroyPair(watched)
       => ask.stage = "destroyed"
    /\ ask.stage = "destroyed" => PairOf(ask.tx) \in configured /\ Action[ask.tx].ours
=============================================================================
