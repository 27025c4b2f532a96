--------------------------- MODULE RecycleContract ---------------------------
(***************************************************************************)
(* What RecycleExactDuplicates (internal/scanner/delete.go) promises about *)
(* one request, without saying how: RecyclePolicy implements it, and       *)
(* RecycleBatch relies on it for every request of a batch.  A file goes to *)
(* the Recycle Bin only if it is selected and another member of its group, *)
(* one that is not selected, is in place as the scan showed it.  Each      *)
(* selected file is answered for once, and an answer may be less than the  *)
(* truth ("failed" of a file that is in the bin) but not a false assurance. *)
(***************************************************************************)
CONSTANTS Statuses   \* RecycleStatus, the possible results of an item

VARIABLES
  members,     \* the files of the group that the request names
  selected,    \* those to recycle
  intact,      \* the files in place under their paths, as the scan showed them
  binned,      \* the members this request has put into the Recycle Bin
  status       \* the result of each member, "none" if it has none (yet)

requestVars == <<members, selected, intact, binned, status>>

NoResult == "none"

Unanswered == {t \in selected : status[t] = NoResult}

\* A request at its beginning; nothing of it has been looked at.
ContractInit ==
  /\ selected \subseteq members
  /\ intact \subseteq members
  /\ binned = {}
  /\ status = [m \in members |-> NoResult]

\* Other programs change, move or put back files, but none that is in the bin.
Disturb ==
  /\ intact' \cap binned = {}
  /\ UNCHANGED <<members, selected, binned, status>>

\* Mutant: the word of the table is enough, no kept copy is looked for.
RecycleUnguarded(t) ==
  /\ t \in Unanswered \ binned
  /\ binned' = binned \cup {t}
  /\ intact' = intact \ {t}
  /\ UNCHANGED <<members, selected, status>>

\* A selected file goes to the Recycle Bin while another copy is in place.
Recycle(t) ==
  /\ t \in Unanswered \ binned
  /\ (members \ selected) \cap intact # {}
  /\ binned' = binned \cup {t}
  /\ intact' = intact \ {t}
  /\ UNCHANGED <<members, selected, status>>

\* The item of a selected file is finished.
Report(t, s) ==
  /\ t \in Unanswered
  /\ s \in Statuses \ {NoResult}
  /\ s = "recycled" => t \in binned
  /\ s \in {"changed", "protected"} => t \notin binned
  /\ status' = [status EXCEPT ![t] = s]
  /\ UNCHANGED <<members, selected, intact, binned>>

\* A request that is not valid fails as a whole and touches nothing.
Reject ==
  /\ Unanswered = selected /\ binned = {}
  /\ status' = [m \in members |-> IF m \in selected THEN "failed" ELSE NoResult]
  /\ UNCHANGED <<members, selected, intact, binned>>

ContractNext ==
  \/ Disturb
  \/ \E t \in selected : Recycle(t) \/ \E s \in Statuses : Report(t, s)
  \/ Reject

ContractSpec == ContractInit /\ [][ContractNext]_requestVars
=============================================================================
