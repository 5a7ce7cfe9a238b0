------------------------------- MODULE Snapshot -------------------------------
(***************************************************************************)
(* What the backup of one folder promises, without sessions, retries or    *)
(* chunks: at most one snapshot is committed, it holds the whole folder,   *)
(* and the one report that ends the run does not make it look better than  *)
(* it is.                                                                  *)
(***************************************************************************)
EXTENDS Sequences

CONSTANTS Whole,  \* the contents of the folder
          NoReport

Issue == {"excluded", "unreadable"}

\* BackupOutcome, and the error of a cancelled run.
Report == {"verified_success", "success_with_policy_exclusions", "partial", "failed",
           "cancelled"}

VARIABLES committed,  \* the snapshots this run committed
          report

Init == committed = <<>> /\ report = NoReport

Commit ==
  /\ report = NoReport /\ committed = <<>>
  /\ \E missing \in SUBSET Issue :
       committed' = <<[content |-> Whole, missing |-> missing]>>
  /\ UNCHANGED report

\* The outcome an honest report may give.
Honest(outcome) ==
  /\ outcome \in {"verified_success", "success_with_policy_exclusions", "partial"} =>
       committed # <<>>
  /\ outcome = "verified_success" => committed[1].missing = {}
  /\ outcome = "success_with_policy_exclusions" => committed[1].missing = {"excluded"}
  /\ outcome = "partial" => "unreadable" \in committed[1].missing
  /\ outcome = "cancelled" => committed = <<>>

End ==
  /\ report = NoReport
  /\ report' \in {outcome \in Report : Honest(outcome)}
  /\ UNCHANGED committed

Next == Commit \/ End

Spec == Init /\ [][Next]_<<committed, report>>
===============================================================================
