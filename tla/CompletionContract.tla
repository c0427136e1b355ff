-------------------------- MODULE CompletionContract --------------------------
(***************************************************************************)
(* What a queue of tracked submissions promises to the holders of its      *)
(* receipts (crates/sgfx-core/src/backend/completion.rs and the execution  *)
(* contract in backend.rs), without saying how: submissions are accepted   *)
(* into one order; Complete is reported only for a submission whose GPU    *)
(* accesses have retired and whose whole ordered prefix was reported       *)
(* Complete before; a failure poisons everything that is not yet reported; *)
(* and every accepted submission is eventually reported.                   *)
(***************************************************************************)
EXTENDS Naturals, Sequences

CONSTANT Submissions

VARIABLES
    accepted,   \* the accepted submissions, in order
    executed,   \* the submissions whose GPU accesses have all retired
    receipt,    \* what Completion::poll answers for each submission
    poisoned    \* the queue accepts nothing more and completes nothing more

contractVars == <<accepted, executed, receipt, poisoned>>

ContractInit ==
    /\ accepted = << >>
    /\ executed = {}
    /\ receipt = [s \in Submissions |-> "none"]
    /\ poisoned = FALSE

(* CommandSubmitter::submit succeeds.  Busy and Rejected accept nothing.   *)
(* A submission without GPU accesses has retired them all from the start.  *)
Accept(s) ==
    /\ ~poisoned
    /\ receipt[s] = "none"
    /\ accepted' = Append(accepted, s)
    /\ receipt' = [receipt EXCEPT ![s] = "pending"]
    /\ executed' \in {executed, executed \cup {s}}
    /\ UNCHANGED poisoned

(* The device retires the last access of a submission, in any order.       *)
Execute(s) ==
    /\ receipt[s] # "none"
    /\ executed' = executed \cup {s}
    /\ UNCHANGED <<accepted, receipt, poisoned>>

Poison ==
    /\ poisoned' = TRUE
    /\ UNCHANGED <<accepted, executed, receipt>>

(* The oldest submission that has not been reported.                       *)
IsOldest(s) ==
    \E i \in 1..Len(accepted) :
        /\ accepted[i] = s
        /\ receipt[s] = "pending"
        /\ \A h \in 1..(i - 1) : receipt[accepted[h]] # "pending"

Report(s) ==
    /\ IsOldest(s)
    /\ \/ ~poisoned /\ s \in executed /\ receipt' = [receipt EXCEPT ![s] = "ok"]
       \/ poisoned /\ receipt' = [receipt EXCEPT ![s] = "err"]
    /\ UNCHANGED <<accepted, executed, poisoned>>

ContractNext ==
    \/ \E s \in Submissions : Accept(s) \/ Execute(s) \/ Report(s)
    \/ Poison

(* Reports are made without the receipt holders' help.                     *)
ContractSpec ==
    /\ ContractInit
    /\ [][ContractNext]_contractVars
    /\ WF_contractVars(\E s \in Submissions : Report(s))
===============================================================================
