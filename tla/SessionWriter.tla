---------------------------- MODULE SessionWriter ----------------------------
(***************************************************************************)
(* What the handoff of a local session promises to everybody who reads or  *)
(* writes its journal, whatever messages, fences and database rows achieve *)
(* it: at any moment at most one instance executes the session; execution  *)
(* is divided into terms, a term belongs to one instance for good, and     *)
(* terms only grow.  A reader that remembers a term can therefore tell the *)
(* events of the present executor from those of an earlier one.            *)
(***************************************************************************)
EXTENDS Naturals

CONSTANTS Instances,  \* the processes that may execute the session
          Nobody      \* not an instance

VARIABLES writer,     \* the instance that executes the session now, or Nobody
          term,       \* the number of the latest term
          titular     \* the instance the latest term belongs to

vars == <<writer, term, titular>>

Init ==
  /\ writer = Nobody
  /\ term = 0
  /\ titular = Nobody

(* Nobody else executes the session: it may resume its own term or open    *)
(* the next one.                                                           *)
Take(i) ==
  /\ writer \in {Nobody, i}
  /\ writer' = i
  /\ titular' = i
  /\ \/ term' = term + 1
     \/ titular = i /\ term' = term

(* The term stays where it is: its instance may come back to it.           *)
Leave ==
  /\ writer # Nobody
  /\ writer' = Nobody
  /\ UNCHANGED <<term, titular>>

Next == Leave \/ \E i \in Instances : Take(i)

Spec == Init /\ [][Next]_vars

==============================================================================
