--------------------------- MODULE CommandVerdict ---------------------------
(***************************************************************************)
(* What the hosts of an account promise together about each remote         *)
(* command, whoever hears it, crashes, or takes the session over: it is    *)
(* taken once at most; one verdict on it is given, for good; the verdict   *)
(* "completed" is true; and a response says "completed" only when that is  *)
(* the verdict.                                                            *)
(*                                                                         *)
(* They promise nothing else about a rejection.  A command may have been   *)
(* taken when it is refused, and may be taken afterwards; and a response   *)
(* may say "rejected" whatever the verdict is or will be.                  *)
(***************************************************************************)
EXTENDS Naturals

CONSTANTS Commands

VARIABLES taken,    \* how often DSH has taken a command into its history
          verdict,  \* "open", or the one that was given
          told      \* the responses given so far

vars == <<taken, verdict, told>>

Init ==
  /\ taken = [c \in Commands |-> 0]
  /\ verdict = [c \in Commands |-> "open"]
  /\ told = {}

Take(c) ==
  /\ taken[c] = 0
  /\ taken' = [taken EXCEPT ![c] = 1]
  /\ UNCHANGED <<verdict, told>>

Judge(c) ==
  /\ verdict[c] = "open"
  /\ \E v \in {"completed", "refused", "unknown"} :
       /\ v = "completed" => taken[c] = 1
       /\ verdict' = [verdict EXCEPT ![c] = v]

Tell(c) ==
  \E r \in {"completed", "rejected"} :
    /\ r = "completed" => verdict'[c] = "completed"
    /\ told' = told \cup {[command |-> c, reply |-> r]}

(* A verdict, a response, or both at once.                                 *)
Conclude(c) ==
  /\ Judge(c) \/ UNCHANGED verdict
  /\ Tell(c) \/ UNCHANGED told
  /\ UNCHANGED taken

Next == \E c \in Commands : Take(c) \/ Conclude(c)

Spec == Init /\ [][Next]_vars

=============================================================================
