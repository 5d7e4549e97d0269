--------------------------- MODULE Synchronization ---------------------------
(***************************************************************************)
(* What a synchronization promises the application of a client: when it is *)
(* told that one has finished, it has been told all that was in the store  *)
(* at one moment since it asked, and nothing else.  There is no session    *)
(* here, no message and no code for words: a lesson is a set of facts.     *)
(***************************************************************************)
VARIABLES
  contents,     \* the facts in the store
  phase,        \* "idle", "asked", "answered", "finished"
  lesson,       \* the facts that are being told
  learned       \* the facts told so far

vars == <<contents, phase, lesson, learned>>

Init ==
  /\ contents = {} /\ lesson = {} /\ learned = {}
  /\ phase = "idle"

\* The store changes whenever it likes.
Change == UNCHANGED <<phase, lesson, learned>>

Ask ==
  /\ phase = "idle" /\ phase' = "asked"
  /\ UNCHANGED <<contents, lesson, learned>>

\* The lesson is the contents of one moment.
Answer ==
  /\ phase = "asked" /\ phase' = "answered"
  /\ lesson' = contents
  /\ UNCHANGED <<contents, learned>>

Tell ==
  /\ phase = "answered"
  /\ \E f \in lesson : learned' = learned \cup {f}
  /\ UNCHANGED <<contents, phase, lesson>>

Finish ==
  /\ phase = "answered" /\ phase' = "finished"
  /\ learned = lesson
  /\ UNCHANGED <<contents, lesson, learned>>

\* The session is over, and what it has told is for the application to forget.
Break ==
  /\ phase' = "idle"
  /\ lesson' = {} /\ learned' = {}
  /\ UNCHANGED contents

Next == Change \/ Ask \/ Answer \/ Tell \/ Finish \/ Break

Spec == Init /\ [][Next]_vars

-----------------------------------------------------------------------------
\* A synchronization that was asked for comes to an end, one way or the other.
Settles == phase \in {"asked", "answered"} ~> phase \in {"finished", "idle"}
=============================================================================
