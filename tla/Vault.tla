------------------------------- MODULE Vault -------------------------------
(***************************************************************************)
(* The wallet file of eosc and the commands that write it: `vault create`  *)
(* and `vault add` (eosc/cmd/vaultCreate.go, vaultAdd.go) over the package *)
(* vault.  Nothing locks the file: each command looks at it once, waits    *)
(* for what the user types, and then truncates and writes it.              *)
(*                                                                         *)
(* A sealed content is its set of keys with the boxer that opens it, a     *)
(* passphrase or a KMS key path.  A file that is there without a whole     *)
(* content, which JSON or the boxer rejects, is "torn".                    *)
(***************************************************************************)
EXTENDS Integers, FiniteSets

CONSTANTS
  Shells,    (* terminals, each runs one command at a time                   *)
  Boxers,    (* passphrases and KMS key paths                                *)
  MaxKeys    (* bound: private keys that are created or imported             *)

ASSUME VaultAssumption == Boxers # {} /\ MaxKeys \in Nat

VARIABLES
  file,      (* the wallet file                                              *)
  run,       (* run[s]: the command in shell s                               *)
  made,      (* number of private keys there are                             *)
  shown,     (* history: what vaultWrittenReport listed for the file there is *)
  cut,       (* history: a command ended between truncating and writing      *)
  overlapped (* history: two commands were at work when one of them wrote    *)

vars == <<file, run, made, shown, cut, overlapped>>

Absent == [state |-> "absent"]
Torn == [state |-> "torn"]
Sealed(keys, boxer) == [state |-> "whole", keys |-> keys, boxer |-> boxer]
Idle == [pc |-> "idle"]

FileKeys == IF file.state = "whole" THEN file.keys ELSE {}
AtWork(s) == run[s].pc \in {"entering", "sealed", "truncated"}

Init ==
  /\ file = Absent /\ run = [s \in Shells |-> Idle]
  /\ made = 0 /\ shown = {} /\ cut = FALSE /\ overlapped = FALSE

(***************************************************************************)
(* `vault create` only asks whether the file is there; `vault add` loads   *)
(* it and opens it with the boxer entered.  A file that is in the way, or  *)
(* that cannot be decoded or opened, ends the command.                     *)
(***************************************************************************)
Create(s, b) ==
  /\ run[s].pc = "idle" /\ file.state = "absent"
  /\ run' = [run EXCEPT ![s] = [pc |-> "entering", command |-> "create", boxer |-> b, keys |-> {}, new |-> {}]]
  /\ UNCHANGED <<file, made, shown, cut, overlapped>>

Load(s, b) ==
  /\ run[s].pc = "idle" /\ file.state = "whole" /\ b = file.boxer
  /\ run' = [run EXCEPT ![s] = [pc |-> "entering", command |-> "add", boxer |-> b, keys |-> file.keys, new |-> {}]]
  /\ UNCHANGED <<file, made, shown, cut, overlapped>>

(* Keys are made or typed in, added to the key bag, and the bag is sealed. *)
EnterAndTruncate(s, n) == \* mutation: the file is opened for writing before the bag is sealed
  LET new == made + 1 .. made + n IN
  /\ run[s].pc = "entering" /\ made + n <= MaxKeys
  /\ made' = made + n
  /\ run' = [run EXCEPT ![s].pc = "sealed", ![s].keys = @ \cup new, ![s].new = new]
  /\ file' = Torn
  /\ UNCHANGED <<shown, cut, overlapped>>

Enter(s, n) ==
  LET new == made + 1 .. made + n IN
  /\ run[s].pc = "entering" /\ made + n <= MaxKeys
  /\ made' = made + n
  /\ run' = [run EXCEPT ![s].pc = "sealed", ![s].keys = @ \cup new, ![s].new = new]
  /\ UNCHANGED <<file, shown, cut, overlapped>>

(***************************************************************************)
(* WriteToFile: the file is opened with O_TRUNC and written from its       *)
(* start, so a writer that was overtaken overwrites the other's content;   *)
(* what sticks out behind a shorter one the JSON decoder does not read.    *)
(***************************************************************************)
Truncate(s) ==
  /\ run[s].pc = "sealed"
  /\ file' = Torn
  /\ run' = [run EXCEPT ![s].pc = "truncated"]
  /\ overlapped' = (overlapped \/ \E other \in Shells \ {s} : AtWork(other))
  /\ UNCHANGED <<made, shown, cut>>

Write(s) ==
  /\ run[s].pc = "truncated"
  /\ file' = Sealed(run[s].keys, run[s].boxer)
  /\ run' = [run EXCEPT ![s].pc = "written"]
  /\ UNCHANGED <<made, shown, cut, overlapped>>

(* Nothing or a part of the content could be written; the command exits.   *)
WriteFails(s) ==
  /\ run[s].pc = "truncated"
  /\ file' \in {file, Torn}
  /\ run' = [run EXCEPT ![s] = Idle]
  /\ cut' = TRUE
  /\ UNCHANGED <<made, shown, overlapped>>

vaultWrittenReport(s) ==
  /\ run[s].pc = "written"
  /\ shown' = shown \cup {[key |-> k, boxer |-> run[s].boxer] : k \in run[s].new}
  /\ run' = [run EXCEPT ![s] = Idle]
  /\ UNCHANGED <<file, made, cut, overlapped>>

(* Any other error ends the command, as the user or a crash may.           *)
Exit(s) ==
  /\ run[s].pc # "idle"
  /\ run' = [run EXCEPT ![s] = Idle]
  /\ cut' = (cut \/ run[s].pc = "truncated")
  /\ UNCHANGED <<file, made, shown, overlapped>>

(* The user renames the file, as `vault create` asks him to.               *)
SetAside ==
  /\ file # Absent /\ \A s \in Shells : run[s] = Idle
  /\ file' = Absent /\ shown' = {} /\ cut' = FALSE /\ overlapped' = FALSE
  /\ UNCHANGED <<run, made>>

Next ==
  \/ SetAside
  \/ \E s \in Shells :
       \/ \E b \in Boxers : Create(s, b) \/ Load(s, b)
       \/ \E n \in 0 .. 2 : Enter(s, n)
       \/ Truncate(s) \/ Write(s) \/ WriteFails(s) \/ vaultWrittenReport(s) \/ Exit(s)

Spec == Init /\ [][Next]_vars

-----------------------------------------------------------------------------
ShownKeys == {entry.key : entry \in shown}

(* Types; only keys that were made are stored, reported or in a bag.       *)
TypeOK ==
  /\ file \in {Absent, Torn} \cup [state : {"whole"}, keys : SUBSET (1 .. made), boxer : Boxers]
  /\ \A s \in Shells :
       run[s] = Idle \/ run[s] \in [pc : {"entering", "sealed", "truncated", "written"}, command : {"create", "add"},
                                    boxer : Boxers, keys : SUBSET (1 .. made), new : SUBSET (1 .. made)]
  /\ made \in 0 .. MaxKeys /\ shown \subseteq [key : 1 .. made, boxer : Boxers]
  /\ cut \in BOOLEAN /\ overlapped \in BOOLEAN

(* A file without a content is being written, or a write was cut short:    *)
(* however commands overlap, a command that does not get to its write      *)
(* leaves the file readable.                                               *)
TornOnlyByCut ==
  file.state = "torn" => cut \/ \E s \in Shells : run[s].pc = "truncated"

(* A key a user was shown is in the file, or in the bag of the command     *)
(* that is rewriting it, as long as no write was cut short and no two      *)
(* commands overlapped: failing and abandoned commands lose nothing.       *)
ShownAreKept ==
  ~ cut /\ ~ overlapped =>
    \/ ShownKeys \subseteq FileKeys
    \/ \E s \in Shells : run[s].pc = "truncated" /\ ShownKeys \subseteq run[s].keys

(* A key that was shown and is in the file opens with the boxer its user   *)
(* entered, whatever commands overlapped or were cut short.                *)
ShownAreOpenable ==
  \A entry \in shown : entry.key \in FileKeys => entry.boxer = file.boxer

(* The wallet file over failing, abandoned and overlapping commands.       *)
WalletSafe == TypeOK /\ TornOnlyByCut /\ ShownAreKept /\ ShownAreOpenable
=============================================================================
