--------------------------- MODULE DirectoryQueue ---------------------------
(***************************************************************************)
(* The directoryQueue of internal/scanner/engine.go: the monitor through   *)
(* which the workers of a surface scan share directories.  It is a stack   *)
(* guarded by a mutex and one condition variable; each operation below is  *)
(* one critical section.  pending counts the directories added and not yet *)
(* done, so that a worker finding the stack empty can tell "more may come" *)
(* from "the walk is over".                                                *)
(***************************************************************************)
EXTENDS Naturals, Sequences, SequencesExt

CONSTANT Workers

VARIABLES
  dirs,     \* the stack of directories to read
  pending,
  closed,
  waiting   \* workers asleep in cond.Wait

queueVars == <<dirs, pending, closed, waiting>>

Broadcast == waiting' = {}

\* Signal wakes one sleeping worker, if there is one.
Signal ==
  IF waiting = {} THEN UNCHANGED waiting
  ELSE \E w \in waiting : waiting' = waiting \ {w}

\* newDirectoryQueue, its argument already collected in dirs.
NewQueue ==
  /\ pending' = Len(dirs)
  /\ closed' = FALSE
  /\ waiting' = {}
  /\ UNCHANGED dirs

\* Mutant: the new directory is not signalled.
AddUnsignalled(d) ==
  /\ ~closed
  /\ pending' = pending + 1
  /\ dirs' = Append(dirs, d)
  /\ UNCHANGED <<closed, waiting>>

Add(d) ==
  /\ ~closed
  /\ pending' = pending + 1
  /\ dirs' = Append(dirs, d)
  /\ Signal
  /\ UNCHANGED closed

AddRefused == closed /\ UNCHANGED queueVars

Wait(w) ==
  /\ dirs = <<>> /\ pending > 0 /\ ~closed
  /\ waiting' = waiting \cup {w}
  /\ UNCHANGED <<dirs, pending, closed>>

\* next returns false: the queue was closed or the walk is over.
Exhausted == (closed \/ pending = 0) /\ UNCHANGED queueVars

\* next returns the directory added last.
Take(d) ==
  /\ ~closed /\ pending > 0 /\ dirs # <<>>
  /\ d = Last(dirs)
  /\ dirs' = Front(dirs)
  /\ UNCHANGED <<pending, closed, waiting>>

\* Mutant: the last directory done wakes nobody.
DoneQuietly ==
  /\ pending' = IF pending > 0 THEN pending - 1 ELSE 0
  /\ UNCHANGED <<dirs, closed, waiting>>

Done ==
  /\ pending' = IF pending > 0 THEN pending - 1 ELSE 0
  /\ IF pending' = 0 THEN Broadcast ELSE UNCHANGED waiting
  /\ UNCHANGED <<dirs, closed>>

\* Mutant: closing wakes nobody.
CloseQuietly ==
  /\ closed' = TRUE
  /\ UNCHANGED <<dirs, pending, waiting>>

Close ==
  /\ closed' = TRUE
  /\ Broadcast
  /\ UNCHANGED <<dirs, pending>>
=============================================================================
