----------------------------- MODULE TeamMessage -----------------------------
(***************************************************************************)
(* What the send queue and the server promise of each team message, across *)
(* retries, lost answers, failed writes and restarts: its content is fixed *)
(* once, and the server never has another; it is withdrawn only when that  *)
(* was asked for; and what the sender reads of it in the end, sent or      *)
(* cancelled, is said once and agrees with what the team sees for good.    *)
(***************************************************************************)
CONSTANTS Tasks,
          Contents,  \* what a message may consist of
          Open       \* not a content: it is not fixed yet

VARIABLES content,   \* what is sent, once it is fixed
          intent,    \* the sender has asked for the cancellation
          says,      \* "open", or what the queue tells the sender for good
          fate,      \* "none" | "preparing" | "published" | "cancelled", at the server
          shown      \* the content the server has

vars == <<content, intent, says, fate, shown>>

Init ==
  /\ content = [t \in Tasks |-> Open]
  /\ intent = [t \in Tasks |-> FALSE]
  /\ says = [t \in Tasks |-> "open"]
  /\ fate = [t \in Tasks |-> "none"]
  /\ shown = [t \in Tasks |-> Open]

(* The queue writes a task that it has not brought to an end yet.          *)
Write(t) ==
  /\ says[t] = "open"
  /\ \E n \in Contents \cup {Open}, asked \in BOOLEAN, v \in {"open", "sent", "cancelled"} :
       /\ content[t] \in {Open, n}
       /\ intent[t] => asked
       /\ v = "sent" => fate[t] = "published"
       /\ v = "cancelled" => asked /\ fate[t] \in {"none", "cancelled"}
       /\ content' = [content EXCEPT ![t] = n]
       /\ intent' = [intent EXCEPT ![t] = asked]
       /\ says' = [says EXCEPT ![t] = v]
  /\ UNCHANGED <<fate, shown>>

(* The server takes the message: not one whose sender reads "cancelled".   *)
Hear(t) ==
  /\ fate[t] = "none"
  /\ content[t] # Open
  /\ says[t] # "cancelled"
  /\ \E s \in {"preparing", "published"} : fate' = [fate EXCEPT ![t] = s]
  /\ shown' = [shown EXCEPT ![t] = content[t]]
  /\ UNCHANGED <<content, intent, says>>

Publish(t) ==
  /\ fate[t] = "preparing"
  /\ fate' = [fate EXCEPT ![t] = "published"]
  /\ UNCHANGED <<content, intent, says, shown>>

Withdraw(t) ==
  /\ intent[t]
  /\ fate[t] \in {"none", "preparing"}
  /\ fate' = [fate EXCEPT ![t] = "cancelled"]
  /\ UNCHANGED <<content, intent, says, shown>>

Next == \E t \in Tasks : Write(t) \/ Hear(t) \/ Publish(t) \/ Withdraw(t)

Spec == Init /\ [][Next]_vars

==============================================================================
