------------------------------- MODULE Forum -------------------------------
(***************************************************************************)
(* `eosc forum vote` and `eosc forum tally-votes` (eosc/cmd/forumVote.go,  *)
(* forumTallyVotes.go) with the vote table of the forum contract.          *)
(*                                                                         *)
(* nodeos answers a request for table rows with the first rows in the      *)
(* order of their ids, at most a page of them, and tells whether there are *)
(* more.  The tally asks for the same page until there are no more.        *)
(***************************************************************************)
EXTENDS Integers, FiniteSets, Sequences, SequencesExt, FiniteSetsExt

CONSTANTS
  Voters,
  Stake,       (* Stake[v]: what the account of v has staked                 *)
  Asked,       (* the integers users enter as vote values                    *)
  PageSize,    (* rows of one answer                                         *)
  MaxRows,     (* bound: rows of the table                                   *)
  Cap          (* bound: repetitions are counted up to Cap                   *)

ForumAssumption ==
  /\ IsFiniteSet(Voters) /\ Stake \in [Voters -> Nat] /\ Asked \subseteq Int
  /\ PageSize \in Nat \ {0} /\ MaxRows \in Nat /\ Cap \in Nat \ {0, 1}

VARIABLES
  table,       (* the rows, a sequence of [voter, proposal, value]           *)
  tally,       (* tally-votes: "idle", "asking" or "done"                    *)
  counted,     (* counted[v][x]: entries of voter v with value x             *)
  rounds,      (* history: answers taken, up to Cap                          *)
  answered     (* history: the first answer, as long as it is the only one   *)

vars == <<table, tally, counted, rounds, answered>>

Proposals == {"this", "other"}
Capped(n) == IF n < Cap THEN n ELSE Cap
Stored == {x % 256 : x \in {y \in Asked : y <= 255}}

Init ==
  /\ table = <<>>
  /\ tally = "idle" /\ counted = [v \in Voters |-> [x \in Stored |-> 0]]
  /\ rounds = 0 /\ answered = <<>>

(***************************************************************************)
(* forum vote: a value above 255 is refused, the rest becomes a uint8.     *)
(* The contract keeps one row for a voter and a proposal.                  *)
(***************************************************************************)
SameVote(row, v, p) == row.voter = v /\ row.proposal = p
Row(v, p, x) == [voter |-> v, proposal |-> p, value |-> x % 256]

Vote(v, p, x) ==
  /\ x <= 255
  /\ \/ \E i \in DOMAIN table : SameVote(table[i], v, p) /\ table' = [table EXCEPT ![i] = Row(v, p, x)]
     \/ /\ \A i \in DOMAIN table : ~ SameVote(table[i], v, p)
        /\ Len(table) < MaxRows /\ table' = Append(table, Row(v, p, x))
  /\ UNCHANGED <<tally, counted, rounds, answered>>

Unvote(v, p) ==
  /\ \E i \in DOMAIN table : SameVote(table[i], v, p) /\ table' = RemoveAt(table, i)
  /\ UNCHANGED <<tally, counted, rounds, answered>>

Begin ==
  /\ tally \in {"idle", "done"}
  /\ tally' = "asking"
  /\ counted' = [v \in Voters |-> [x \in Stored |-> 0]]
  /\ rounds' = 0 /\ answered' = <<>>
  /\ UNCHANGED table

(* One answer: the votes for this proposal are kept with their accounts.   *)
Page == SubSeq(table, 1, IF Len(table) < PageSize THEN Len(table) ELSE PageSize)
More == Len(table) > PageSize

GetPageOfAll == \* mutation: votes on other proposals of the proposer are counted too
  /\ tally = "asking"
  /\ counted' = [v \in Voters |-> [x \in Stored |->
       Capped(counted[v][x] + Cardinality({i \in DOMAIN Page : Page[i].voter = v /\ Page[i].value = x}))]]
  /\ rounds' = Capped(rounds + 1)
  /\ answered' = IF rounds = 0 THEN Page ELSE <<>>
  /\ tally' = IF More THEN "asking" ELSE "done"
  /\ UNCHANGED table

GetPage ==
  /\ tally = "asking"
  /\ counted' = [v \in Voters |-> [x \in Stored |->
       Capped(counted[v][x] + Cardinality({i \in DOMAIN Page : Page[i] = Row(v, "this", x)}))]]
  /\ rounds' = Capped(rounds + 1)
  /\ answered' = IF rounds = 0 THEN Page ELSE <<>>
  /\ tally' = IF More THEN "asking" ELSE "done"
  /\ UNCHANGED table

(* What is printed for a value: the accounts and what they have staked.    *)
tallyAccounts(x) == MapThenSumSet(LAMBDA v : counted[v][x], Voters)
tallyStaked(x) == MapThenSumSet(LAMBDA v : counted[v][x] * Stake[v], Voters)

(* A request for rows or for an account fails, and the command exits.      *)
GetPageFails ==
  /\ tally = "asking" /\ tally' = "idle"
  /\ counted' = [v \in Voters |-> [x \in Stored |-> 0]]
  /\ rounds' = 0 /\ answered' = <<>>
  /\ UNCHANGED table

Next ==
  \/ \E v \in Voters, p \in Proposals : Unvote(v, p) \/ \E x \in Asked : Vote(v, p, x)
  \/ Begin \/ GetPage \/ GetPageFails

Spec == Init /\ [][Next]_vars

-----------------------------------------------------------------------------
(* Types; the table has at most one row for a voter and a proposal.        *)
TypeOK ==
  /\ \A i \in DOMAIN table : table[i] \in [voter : Voters, proposal : Proposals, value : Stored]
  /\ \A i, j \in DOMAIN table : SameVote(table[i], table[j].voter, table[j].proposal) => i = j
  /\ tally \in {"idle", "asking", "done"}
  /\ counted \in [Voters -> [Stored -> 0 .. Cap]] /\ rounds \in 0 .. Cap

(* A tally that was done with one answer is that of the rows of this       *)
(* proposal in the answer, in accounts and in stake, whatever votes came   *)
(* or went before, meanwhile and in tallies before it.                     *)
RowsFor(x) == {row \in ToSet(answered) : row.proposal = "this" /\ row.value = x}
TallyIsAnswered ==
  tally = "done" /\ rounds = 1 =>
    \A x \in Stored :
      /\ tallyAccounts(x) = Cardinality(RowsFor(x))
      /\ tallyStaked(x) = MapThenSumSet(LAMBDA v : Stake[v], {row.voter : row \in RowsFor(x)})
=============================================================================
