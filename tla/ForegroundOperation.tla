------------------------ MODULE ForegroundOperation ------------------------
(***************************************************************************)
(* What the GUI promises of its foreground operations (docs/ARCHITECTURE.md *)
(* section 7 and ADR 0007), without saying how: one operation at a time, no *)
(* operation begun twice, none begun once the window has been asked to     *)
(* close, a protected operation (an export or a recycle batch) never       *)
(* abandoned, and every operation and every deferred close completed.      *)
(***************************************************************************)
EXTENDS Naturals

CONSTANT Ids

VARIABLES
  window,     \* "open", "closing": close deferred, "closed": exiting
  current,    \* the operation in progress, 0 if none
  protected,  \* may a close not abandon it
  begun       \* the operations ever begun

contractVars == <<window, current, protected, begun>>

ContractInit ==
  /\ window = "open"
  /\ current = 0
  /\ protected = FALSE
  /\ begun = {}

Begin(id) ==
  /\ window = "open"
  /\ current = 0
  /\ id \notin begun
  /\ current' = id
  /\ protected' \in BOOLEAN
  /\ begun' = begun \cup {id}
  /\ UNCHANGED window

\* The operation ends; a close that waited for it is carried out with it.
End ==
  /\ current # 0
  /\ current' = 0
  /\ protected' = FALSE
  /\ window' = IF window = "closing" THEN "closed" ELSE window
  /\ UNCHANGED begun

DeferClose ==
  /\ window = "open"
  /\ protected
  /\ window' = "closing"
  /\ UNCHANGED <<current, protected, begun>>

CloseNow ==
  /\ window = "open"
  /\ ~protected
  /\ window' = "closed"
  /\ current' = 0
  /\ UNCHANGED <<protected, begun>>

ContractNext ==
  \/ \E id \in Ids : Begin(id)
  \/ End
  \/ DeferClose
  \/ CloseNow

\* What may happen, and that what was begun ends.
ContractSafety == ContractInit /\ [][ContractNext]_contractVars

ContractSpec == ContractSafety /\ WF_contractVars(End)
=============================================================================
