----------------------------- MODULE SolveSession -----------------------------
(***************************************************************************)
(* What the workbench promises about solving, with no threads and no       *)
(* queues: requests are taken one at a time, every request is answered     *)
(* once while the window is open, and a stop concerns the request that is  *)
(* pending and never a later one.                                          *)
(***************************************************************************)
EXTENDS Naturals

VARIABLES
  asked,      \* how many requests were taken
  pending,    \* the request being solved, 0 when there is none
  stopping,   \* the user asked to stop the pending request
  window      \* "open" or "shut"

vars == <<asked, pending, stopping, window>>

Init == asked = 0 /\ pending = 0 /\ stopping = FALSE /\ window = "open"

Ask ==
  /\ window = "open"
  /\ pending = 0
  /\ asked' = asked + 1
  /\ pending' = asked'
  /\ UNCHANGED <<stopping, window>>

AskToStop ==
  /\ window = "open"
  /\ pending # 0
  /\ stopping' = TRUE
  /\ UNCHANGED <<asked, pending, window>>

Answer ==
  /\ window = "open"
  /\ pending # 0
  /\ pending' = 0
  /\ stopping' = FALSE
  /\ UNCHANGED <<asked, window>>

\* A request pending when the window closes is never answered.
Shut ==
  /\ window = "open"
  /\ window' = "shut"
  /\ UNCHANGED <<asked, pending, stopping>>

Next == Ask \/ AskToStop \/ Answer \/ Shut

Spec == Init /\ [][Next]_vars /\ WF_vars(Answer)
=============================================================================
