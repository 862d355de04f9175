----------------------------- MODULE MCSigning -----------------------------
(***************************************************************************)
(* The two users of the signing functions, one of them in a behaviour: a   *)
(* gateway with three watchers, and the program of tools/multisig/cmd.     *)
(***************************************************************************)
EXTENDS WatcherSigning

VARIABLES program, pc, key, round, sentTx, sign, sentPacked, pushed, sentExecuted

Multi == INSTANCE MultiSign WITH
           Threshold <- 3, tx <- sentTx, packedTx <- sentPacked, executed <- sentExecuted

multiVars == <<pc, key, round, sentTx, sign, sentPacked, pushed, sentExecuted>>

MCInit ==
  /\ program \in {"watchers", "multi"}
  /\ Init
  /\ Multi!Init

MCNext ==
  /\ UNCHANGED program
  /\ \/ program = "watchers" /\ Next /\ UNCHANGED multiVars
     \/ program = "multi" /\ Multi!Next /\ UNCHANGED vars

MCSpec ==
  /\ MCInit
  /\ [][MCNext]_<<program, vars, multiVars>>
  /\ program = "watchers" => Fairness

-----------------------------------------------------------------------------
(***************************************************************************)
(* Whatever the node and the key service answer, the program pushes        *)
(* nothing with a signature short, and nothing a second time unless the    *)
(* first push was executed.                                                *)
(***************************************************************************)
PushedWhole == TypeOK /\ Multi!TypeOK /\ Multi!NothingPartialPushed /\ Multi!SecondOnlyAfterFirst

(* Of three watchers one may be given a new key, and another the key of    *)
(* the third, so that two signatures may be by the same key.               *)
MCHashOf == [s \in Signers |-> CASE s = 1 -> "k1" [] s = 2 -> "k2" [] OTHER -> "k3"]
MCNextHash == [s \in Signers |-> CASE s = 1 -> "k4" [] s = 2 -> "k3" [] OTHER -> "k3"]
=============================================================================
