------------------------ MODULE RemoteCommandsProofs ------------------------
(* Proofs about RemoteCommands, for any hosts and commands.                *)
EXTENDS RemoteCommands, TLAPS

-------------------------------------------------------------------------------
(* The inductive invariant, command by command.                            *)

Busy == {"calling", "accepted"}

(* Nobody has touched a command the ledger does not know.                  *)
Untouched(c) == ledger[c] = "none" =>
  /\ accepted[c] = 0
  /\ c \notin orphans
  /\ \A h \in Hosts : work[h][c] \in {"none", "opening", "admitted"} /\ c \notin todo[h]

(* At most one call of DSH is out, and none once the command is taken.     *)
OneCall(c) ==
  /\ \A h, g \in Hosts : work[h][c] \in Busy /\ work[g][c] \in Busy => h = g
  /\ c \in orphans => accepted[c] = 0 /\ \A h \in Hosts : work[h][c] \notin Busy
  /\ \A h \in Hosts : work[h][c] = "calling" => accepted[c] = 0
  /\ \A h \in Hosts : work[h][c] = "accepted" => accepted[c] = 1
  /\ accepted[c] <= 1

(* What is completed was taken; what is refused has no call left that a    *)
(* host waits for (it may have an orphan); and what was answered completed *)
(* is recorded so.                                                         *)
Recorded(c) ==
  /\ ledger[c] = "completed" => accepted[c] = 1
  /\ ledger[c] = "refused" => \A h \in Hosts : work[h][c] \notin Busy

Told(c) == \A a \in answers :
  a.command = c /\ a.reply = "completed" => ledger[c] = "completed"

Good(c) == Untouched(c) /\ OneCall(c) /\ Recorded(c) /\ Told(c)

IInv == TypeOK /\ \A c \in Commands : Good(c)

LEMMA InitGood == Init => IInv
BY CommandsAssumption DEF Init, IInv, TypeOK, LedgerStates, Works, Good, Untouched, OneCall, Busy,
  Recorded, Told

(* The parts of a command no other command's step changes.                 *)
Same(d) ==
  /\ ledger'[d] = ledger[d]
  /\ accepted'[d] = accepted[d]
  /\ d \in orphans' <=> d \in orphans
  /\ \A h \in Hosts : work'[h][d] = work[h][d]
  /\ \A h \in Hosts : d \in todo'[h] => d \in todo[h]
  /\ \A a \in answers' : a.command = d => a \in answers

LEMMA SameGood == ASSUME NEW d \in Commands, Good(d), Same(d) PROVE Good(d)'
BY DEF Good, Untouched, OneCall, Recorded, Told, Same, Busy

LEMMA UnchangedGood == IInv /\ UNCHANGED vars => IInv'
BY DEF vars, IInv, TypeOK, Good, Untouched, OneCall, Recorded, Told, Busy

-------------------------------------------------------------------------------
(* Steps that only wait, or change who may look.                           *)

LEMMA DropGood == ASSUME NEW h \in Hosts, NEW c \in Commands, IInv, Drop(h, c) PROVE IInv'
<1>1. TypeOK'
  BY DEF IInv, TypeOK, Drop, activation, dsh
<1>2. ASSUME NEW d \in Commands PROVE Good(d)'
  <2>1. Same(d)  BY DEF Same, Drop, activation, dsh
  <2> QED  BY <2>1, SameGood DEF IInv
<1> QED  BY <1>1, <1>2 DEF IInv

LEMMA ExpireGood == ASSUME NEW c \in Commands, IInv, Expire(c) PROVE IInv'
<1>1. TypeOK'
  BY DEF IInv, TypeOK, Expire, activation, dsh
<1>2. ASSUME NEW d \in Commands PROVE Good(d)'
  <2>1. Same(d)  BY DEF Same, Expire, activation, dsh
  <2> QED  BY <2>1, SameGood DEF IInv
<1> QED  BY <1>1, <1>2 DEF IInv

LEMMA ConnectGood == ASSUME NEW h \in Hosts, IInv, Connect(h) PROVE IInv'
<1>1. TypeOK'
  BY DEF IInv, TypeOK, Connect, dsh
<1>2. ASSUME NEW d \in Commands PROVE Good(d)'
  <2>1. Same(d)  BY DEF Same, Connect, dsh
  <2> QED  BY <2>1, SameGood DEF IInv
<1> QED  BY <1>1, <1>2 DEF IInv

LEMMA MoveGood == ASSUME NEW h \in Hosts \cup {NoHost}, IInv, Move(h) PROVE IInv'
<1>1. TypeOK'
  BY CommandsAssumption DEF IInv, TypeOK, Move, activation
<1>2. ASSUME NEW d \in Commands PROVE Good(d)'
  <2>1. Same(d)  BY DEF Same, Move, activation
  <2> QED  BY <2>1, SameGood DEF IInv
<1> QED  BY <1>1, <1>2 DEF IInv

(* An activation reads the entries the ledger knows.                       *)
LEMMA ActivateGood == ASSUME NEW h \in Hosts, IInv, Activate(h) PROVE IInv'
<1>1. TypeOK'
  BY DEF IInv, TypeOK, Activate, dsh
<1>2. ASSUME NEW d \in Commands PROVE Good(d)'
  <2>1. Good(d)  BY DEF IInv
  <2>2. Untouched(d)'
    BY <2>1 DEF Good, Untouched, Activate, dsh, IInv, TypeOK
  <2>3. OneCall(d)' /\ Recorded(d)' /\ Told(d)'
    BY <2>1 DEF Good, OneCall, Recorded, Told, Activate, dsh, Busy
  <2> QED  BY <2>2, <2>3 DEF Good
<1> QED  BY <1>1, <1>2 DEF IInv

-------------------------------------------------------------------------------
(* Steps of one command: the others stay as they are.                      *)

LEMMA GoesWorks ==
  ASSUME NEW h \in Hosts, NEW c \in Commands, NEW stage \in Works, TypeOK, Goes(h, c, stage)
  PROVE  /\ work' \in [Hosts -> [Commands -> Works]]
         /\ \A g \in Hosts, d \in Commands :
              work'[g][d] = IF g = h /\ d = c THEN stage ELSE work[g][d]
BY DEF TypeOK, Goes

(* Steps before the ledger: they disturb neither it nor DSH.               *)
LEMMA EarlyGood ==
  ASSUME NEW h \in Hosts, NEW c \in Commands, IInv,
         work[h][c] \in {"none", "opening", "admitted"},
         NEW stage \in {"none", "opening", "admitted"},
         UNCHANGED work \/ Goes(h, c, stage),
         queue' \in [Hosts -> SUBSET Commands],
         UNCHANGED answers \/ Answer(c, "rejected"),
         UNCHANGED <<ledger, due, activation, dsh, troubles>>
  PROVE  IInv'
<1>0. /\ work' \in [Hosts -> [Commands -> Works]]
      /\ \A g \in Hosts, d \in Commands :
           \/ work'[g][d] = work[g][d]
           \/ g = h /\ d = c /\ work'[g][d] = stage
  <2>1. stage \in Works  BY DEF Works
  <2> QED  BY <2>1, GoesWorks DEF IInv, TypeOK
<1>1. TypeOK'
  BY <1>0 DEF IInv, TypeOK, activation, dsh, Answer, Replies
<1>2. ASSUME NEW d \in Commands PROVE Good(d)'
  <2>1. Good(d)  BY DEF IInv
  <2>2. Untouched(d)' /\ OneCall(d)' /\ Recorded(d)'
    BY <1>0, <2>1 DEF Good, Untouched, OneCall, Recorded, Busy, activation, dsh
  <2>3. Told(d)'
    BY <2>1 DEF Good, Told, Answer
  <2> QED  BY <2>2, <2>3 DEF Good
<1> QED  BY <1>1, <1>2 DEF IInv

LEMMA ReceiveGood == ASSUME NEW h \in Hosts, NEW c \in Commands, IInv, Receive(h, c) PROVE IInv'
<1>1. queue' \in [Hosts -> SUBSET Commands]
  BY DEF IInv, TypeOK, Receive
<1> QED  BY <1>1, EarlyGood DEF Receive

LEMMA OpenGood == ASSUME NEW h \in Hosts, NEW c \in Commands, IInv, Open(h, c) PROVE IInv'
<1>1. queue' \in [Hosts -> SUBSET Commands]
  BY DEF IInv, TypeOK, Open
<1> QED  BY <1>1, EarlyGood DEF Open

LEMMA OpenFailsGood == ASSUME NEW h \in Hosts, NEW c \in Commands, IInv, OpenFails(h, c) PROVE IInv'
<1>1. queue' \in [Hosts -> SUBSET Commands]
  BY DEF IInv, TypeOK, OpenFails
<1> QED  BY <1>1, EarlyGood DEF OpenFails

LEMMA StartGood == ASSUME NEW h \in Hosts, NEW c \in Commands, IInv, Start(h, c) PROVE IInv'
<1>1. queue' \in [Hosts -> SUBSET Commands]
  BY DEF IInv, TypeOK, Start
<1> QED  BY <1>1, EarlyGood DEF Start

LEMMA TurnAwayGood == ASSUME NEW h \in Hosts, NEW c \in Commands, IInv, TurnAway(h, c) PROVE IInv'
<1>1. queue' \in [Hosts -> SUBSET Commands]
  BY DEF IInv, TypeOK, TurnAway
<1> QED  BY <1>1, EarlyGood DEF TurnAway

LEMMA LookGood == ASSUME NEW h \in Hosts, NEW c \in Commands, IInv, Look(h, c) PROVE IInv'
<1>0. /\ work' \in [Hosts -> [Commands -> Works]]
      /\ \A g \in Hosts, d \in Commands :
           \/ work'[g][d] = work[g][d]
           \/ g = h /\ d = c /\ work'[g][d] = "reconciling"
  <2>1. UNCHANGED work \/ Goes(h, c, "reconciling")
    BY DEF Look
  <2>2. "reconciling" \in Works
    BY DEF Works
  <2>3. CASE UNCHANGED work
    BY <2>3 DEF IInv, TypeOK
  <2>4. CASE Goes(h, c, "reconciling")
    BY <2>2, <2>4, GoesWorks DEF IInv
  <2> QED  BY <2>1, <2>3, <2>4
<1>1. TypeOK'
  BY <1>0 DEF IInv, TypeOK, Look, dsh
<1>2. ASSUME NEW d \in Commands PROVE Good(d)'
  <2>1. Good(d)  BY DEF IInv
  <2>2. CASE d = c
    <3>1. ledger[c] # "none"  BY <2>1, <2>2 DEF Good, Untouched, Look
    <3>2. Untouched(d)'  BY <2>2, <3>1 DEF Untouched, Look
    <3>3. OneCall(d)' /\ Recorded(d)' /\ Told(d)'
      BY <2>1, <1>0 DEF Good, OneCall, Recorded, Told, Look, dsh, Busy
    <3> QED  BY <3>2, <3>3 DEF Good
  <2>3. CASE d # c
    <3>1. Same(d)  BY <1>0, <2>3 DEF Same, Look, dsh, IInv, TypeOK
    <3> QED  BY <3>1, <2>1, SameGood
  <2> QED  BY <2>2, <2>3
<1> QED  BY <1>1, <1>2 DEF IInv

(* The one step that lets DSH be called: nobody has called it before.      *)
LEMMA BeginGood == ASSUME NEW h \in Hosts, NEW c \in Commands, IInv, Begin(h, c) PROVE IInv'
<1> USE DEF Record, activation, dsh
<1>0. Good(c)  BY DEF IInv
<1>1. CASE ledger[c] = "none"
  <2>1. BeginNew(h, c) /\ UNCHANGED <<due, activation, queue, dsh, troubles>>
    BY <1>1 DEF Begin, Abandoned
  <2>2. /\ work' \in [Hosts -> [Commands -> Works]]
        /\ \A g \in Hosts, d \in Commands :
             work'[g][d] = IF g = h /\ d = c THEN "calling" ELSE work[g][d]
    BY <2>1, GoesWorks DEF IInv, BeginNew, Works
  <2>3. TypeOK'
    BY <2>1, <2>2 DEF IInv, TypeOK, BeginNew, LedgerStates
  <2>4. ASSUME NEW d \in Commands PROVE Good(d)'
    <3>1. CASE d = c
      <4>1. accepted[c] = 0 /\ c \notin orphans /\ \A g \in Hosts : work[g][c] \notin Busy
        BY <1>0, <1>1 DEF Good, Untouched, Busy
      <4>2. ledger'[c] = "pending"  BY <2>1 DEF BeginNew, IInv, TypeOK
      <4>3. OneCall(c)'
        BY <2>1, <2>2, <4>1 DEF OneCall, Busy
      <4>4. Untouched(c)' /\ Recorded(c)'
        BY <4>2 DEF Untouched, Recorded
      <4>5. Told(c)'
        BY <1>0, <1>1, <2>1 DEF Good, Told, BeginNew
      <4> QED  BY <3>1, <4>3, <4>4, <4>5 DEF Good
    <3>2. CASE d # c
      <4>1. Same(d)  BY <2>1, <2>2, <3>2 DEF Same, BeginNew, IInv, TypeOK
      <4> QED  BY <4>1, SameGood DEF IInv
    <3> QED  BY <3>1, <3>2
  <2> QED  BY <2>3, <2>4 DEF IInv
<1>2. CASE ledger[c] # "none" /\ BeginLooking(h, c)
  <2>1. UNCHANGED <<ledger, answers, due, activation, queue, dsh, troubles>>
    BY <1>2 DEF Begin, BeginLooking
  <2>2. /\ work' \in [Hosts -> [Commands -> Works]]
        /\ \A g \in Hosts, d \in Commands :
             work'[g][d] = IF g = h /\ d = c THEN "reconciling" ELSE work[g][d]
    BY <1>2, GoesWorks DEF IInv, BeginLooking, Works
  <2>3. TypeOK'
    BY <2>1, <2>2 DEF IInv, TypeOK
  <2>4. ASSUME NEW d \in Commands PROVE Good(d)'
    <3>1. Good(d)  BY DEF IInv
    <3>2. Untouched(d)'
      BY <1>2, <2>1, <2>2, <3>1 DEF Good, Untouched
    <3>3. OneCall(d)' /\ Recorded(d)' /\ Told(d)'
      BY <2>1, <2>2, <3>1 DEF Good, OneCall, Recorded, Told, Busy
    <3> QED  BY <3>2, <3>3 DEF Good
  <2> QED  BY <2>3, <2>4 DEF IInv
<1>3. CASE ledger[c] # "none" /\ BeginAnswered(h, c)
  <2>1. UNCHANGED <<ledger, due, activation, queue, dsh, troubles>>
    BY <1>3 DEF Begin, BeginAnswered
  <2>2. /\ work' \in [Hosts -> [Commands -> Works]]
        /\ \A g \in Hosts, d \in Commands :
             work'[g][d] = IF g = h /\ d = c THEN "none" ELSE work[g][d]
    BY <1>3, GoesWorks DEF IInv, BeginAnswered, Works
  <2>3. answers' = answers \cup {[command |-> c, reply |-> ReplyOf(ledger[c])]}
    BY <1>3 DEF BeginAnswered, Answer
  <2>4. TypeOK'
    BY <2>1, <2>2, <2>3 DEF IInv, TypeOK, ReplyOf, Replies
  <2>5. ASSUME NEW d \in Commands PROVE Good(d)'
    <3>1. Good(d)  BY DEF IInv
    <3>2. Untouched(d)' /\ OneCall(d)' /\ Recorded(d)'
      BY <2>1, <2>2, <3>1 DEF Good, Untouched, OneCall, Recorded, Busy
    <3>3. Told(d)'
      BY <2>1, <2>3, <3>1, <1>0 DEF Good, Told, Recorded, ReplyOf
    <3> QED  BY <3>2, <3>3 DEF Good
  <2> QED  BY <2>4, <2>5 DEF IInv
<1> QED  BY <1>1, <1>2, <1>3 DEF Begin, Abandoned

LEMMA AcceptGood == ASSUME NEW h \in Hosts, NEW c \in Commands, IInv, Accept(h, c) PROVE IInv'
<1> USE DEF activation
<1>0. /\ work' \in [Hosts -> [Commands -> Works]]
      /\ \A g \in Hosts, d \in Commands :
           work'[g][d] = IF g = h /\ d = c THEN "accepted" ELSE work[g][d]
  BY GoesWorks DEF IInv, Accept, Works
<1>1. TypeOK'
  BY <1>0 DEF IInv, TypeOK, Accept
<1>2. ASSUME NEW d \in Commands PROVE Good(d)'
  <2>1. CASE d = c
    <3>1. Good(c)  BY DEF IInv
    <3>2. /\ accepted[c] = 0 /\ accepted'[c] = 1
          /\ c \notin orphans
          /\ \A g \in Hosts : work[g][c] \in Busy => g = h
      BY <3>1 DEF Good, OneCall, Busy, Accept, IInv, TypeOK
    <3>3. ledger[c] \notin {"none", "refused"}
      BY <3>1 DEF Good, Untouched, Recorded, Busy, Accept
    <3>4. OneCall(c)'
      BY <1>0, <3>2 DEF OneCall, Busy, Accept
    <3>5. Untouched(c)' /\ Recorded(c)' /\ Told(c)'
      BY <3>1, <3>2, <3>3 DEF Good, Untouched, Recorded, Told, Accept
    <3> QED  BY <2>1, <3>4, <3>5 DEF Good
  <2>2. CASE d # c
    <3>1. Same(d)  BY <1>0, <2>2 DEF Same, Accept, IInv, TypeOK
    <3> QED  BY <3>1, SameGood DEF IInv
  <2> QED  BY <2>1, <2>2
<1> QED  BY <1>1, <1>2 DEF IInv

(* Its result is recorded, unless a peer has already given the call up.    *)
LEMMA FinishGood == ASSUME NEW h \in Hosts, NEW c \in Commands, IInv, Finish(h, c) PROVE IInv'
<1> DEFINE reply == IF ledger[c] = "unknown" THEN "rejected" ELSE "completed"
<1>0. /\ work' \in [Hosts -> [Commands -> Works]]
      /\ \A g \in Hosts, d \in Commands :
           work'[g][d] = IF g = h /\ d = c THEN "none" ELSE work[g][d]
  BY GoesWorks DEF IInv, Finish, Works
<1>1. /\ ledger' = [ledger EXCEPT ![c] = Completed(ledger[c], "completed")]
      /\ answers' = answers \cup {[command |-> c, reply |-> reply]}
      /\ UNCHANGED <<due, host, todo, queue, writer, orphans, accepted, troubles>>
  BY DEF Finish, Record, Answer, activation, dsh
<1> HIDE DEF reply
<1>2. reply \in Replies /\ (reply = "completed" => ledger[c] # "unknown")
  BY DEF reply, Replies
<1> HIDE DEF reply
<1>3. TypeOK'
  BY <1>0, <1>1, <1>2 DEF IInv, TypeOK, Completed, LedgerStates
<1>4. ASSUME NEW d \in Commands PROVE Good(d)'
  <2>1. CASE d = c
    <3>1. Good(c)  BY DEF IInv
    <3>2. /\ accepted[c] = 1 /\ accepted'[c] = 1
          /\ ledger[c] \in {"pending", "completed", "unknown"}
      BY <3>1, <1>1 DEF Good, Untouched, OneCall, Recorded, Busy, Finish, IInv, TypeOK, LedgerStates
    <3>3. /\ ledger'[c] \in {"completed", "unknown"}
          /\ ledger[c] # "unknown" => ledger'[c] = "completed"
      BY <3>2, <1>1 DEF IInv, TypeOK, Completed
    <3>4. OneCall(c)'
      BY <1>0, <1>1, <3>1 DEF Good, OneCall, Busy
    <3>5. Untouched(c)' /\ Recorded(c)'
      BY <3>2, <3>3 DEF Untouched, Recorded
    <3>6. Told(c)'
      BY <1>1, <1>2, <3>1, <3>3 DEF Good, Told
    <3> QED  BY <2>1, <3>4, <3>5, <3>6 DEF Good
  <2>2. CASE d # c
    <3>1. Same(d)  BY <1>0, <1>1, <2>2 DEF Same, IInv, TypeOK
    <3> QED  BY <3>1, SameGood DEF IInv
  <2> QED  BY <2>1, <2>2
<1> QED  BY <1>3, <1>4 DEF IInv

(* A failure ends the only call that is waited for, and may leave it an    *)
(* orphan, whatever is then recorded.                                      *)
LEMMA FailsGood ==
  ASSUME NEW h \in Hosts, NEW c \in Commands, NEW state \in LedgerStates, IInv, Fails(h, c, state),
         state # "none",
         state = "completed" <=> ledger[c] = "completed"
  PROVE  IInv'
<1>0. /\ work' \in [Hosts -> [Commands -> Works]]
      /\ \A g \in Hosts, d \in Commands :
           work'[g][d] = IF g = h /\ d = c THEN "none" ELSE work[g][d]
  BY GoesWorks DEF IInv, Fails, Works
<1>1. /\ ledger' = [ledger EXCEPT ![c] = state]
      /\ answers' = answers \cup {[command |-> c, reply |-> "rejected"]}
      /\ orphans' \subseteq orphans \cup {c}
      /\ work[h][c] # "calling" => orphans' = orphans
      /\ orphans \subseteq orphans'
      /\ UNCHANGED <<due, host, todo, queue, writer, accepted, troubles>>
  BY DEF Fails, Record, Answer, activation
<1>2. TypeOK'
  BY <1>0, <1>1 DEF IInv, TypeOK, Replies
<1>3. ASSUME NEW d \in Commands PROVE Good(d)'
  <2>1. CASE d = c
    <3>1. Good(c)  BY DEF IInv
    <3>2. /\ accepted[c] <= 1 /\ accepted'[c] = accepted[c] /\ c \notin orphans
          /\ work[h][c] = "calling" => accepted[c] = 0
          /\ \A g \in Hosts : work[g][c] \in Busy => g = h
      BY <3>1, <1>1 DEF Good, OneCall, Busy, Fails
    <3>3. ledger'[c] = state
      BY <1>1 DEF IInv, TypeOK
    <3>4. \A g \in Hosts : work'[g][c] \notin Busy
      BY <1>0, <3>2 DEF Busy
    <3>5. c \in orphans' => accepted'[c] = 0
      BY <1>1, <3>2
    <3>6. OneCall(c)'
      BY <3>2, <3>4, <3>5 DEF OneCall, Busy
    <3>7. Untouched(c)' /\ Recorded(c)'
      BY <3>1, <3>2, <3>3, <3>4 DEF Good, Untouched, Recorded
    <3>8. Told(c)'
      BY <1>1, <3>1, <3>3 DEF Good, Told
    <3> QED  BY <2>1, <3>6, <3>7, <3>8 DEF Good
  <2>2. CASE d # c
    <3>1. Same(d)  BY <1>0, <1>1, <2>2 DEF Same, IInv, TypeOK
    <3> QED  BY <3>1, SameGood DEF IInv
  <2> QED  BY <2>1, <2>2
<1> QED  BY <1>2, <1>3 DEF IInv

(* What a failed call may have in the ledger: it was begun.                *)
LEMMA FailsRecorded ==
  ASSUME NEW h \in Hosts, NEW c \in Commands, IInv, work[h][c] \in Busy
  PROVE  ledger[c] \in {"pending", "completed", "unknown"}
BY DEF IInv, TypeOK, LedgerStates, Good, Untouched, Recorded, Busy

LEMMA RefuseGood == ASSUME NEW h \in Hosts, NEW c \in Commands, IInv, Refuse(h, c) PROVE IInv'
<1> DEFINE s == Completed(ledger[c], "refused")
<1>1. ledger[c] \in {"pending", "completed", "unknown"}
  BY FailsRecorded DEF Refuse, Fails, Busy
<1>2. s \in LedgerStates /\ s # "none" /\ (s = "completed" <=> ledger[c] = "completed")
  BY <1>1 DEF Completed, LedgerStates
<1>3. Fails(h, c, s)  BY DEF Refuse
<1> HIDE DEF s
<1> QED  BY <1>2, <1>3, FailsGood

LEMMA BreakGood == ASSUME NEW h \in Hosts, NEW c \in Commands, IInv, Break(h, c) PROVE IInv'
<1> DEFINE s == Marked(ledger[c])
<1>1. ledger[c] \in {"pending", "completed", "unknown"}
  BY FailsRecorded DEF Break, Fails, Busy
<1>2. s \in LedgerStates /\ s # "none" /\ (s = "completed" <=> ledger[c] = "completed")
  BY <1>1 DEF Marked, LedgerStates
<1>3. Fails(h, c, s)  BY DEF Break
<1> HIDE DEF s
<1> QED  BY <1>2, <1>3, FailsGood

LEMMA OrphanEndsGood == ASSUME NEW c \in Commands, IInv, OrphanEnds(c) PROVE IInv'
<1>0. /\ c \in orphans
      /\ orphans' = orphans \ {c}
      /\ accepted' = [accepted EXCEPT ![c] = @ + 1] \/ accepted' = accepted
      /\ UNCHANGED <<ledger, due, host, todo, queue, work, writer, answers, troubles>>
  BY DEF OrphanEnds, activation
<1>1. TypeOK'
  BY <1>0 DEF IInv, TypeOK
<1>2. ASSUME NEW d \in Commands PROVE Good(d)'
  <2>1. CASE d = c
    <3>1. Good(c)  BY DEF IInv
    <3>2. /\ accepted[c] = 0 /\ accepted'[c] \in {0, 1}
          /\ \A g \in Hosts : work[g][c] \notin Busy
          /\ ledger[c] \notin {"none", "completed"}
      BY <3>1, <1>0 DEF Good, Untouched, OneCall, Recorded, IInv, TypeOK
    <3>3. OneCall(c)'
      BY <1>0, <3>2 DEF OneCall, Busy
    <3>4. Untouched(c)' /\ Recorded(c)' /\ Told(c)'
      BY <1>0, <3>1, <3>2 DEF Good, Untouched, Recorded, Told
    <3> QED  BY <2>1, <3>3, <3>4 DEF Good
  <2>2. CASE d # c
    <3>1. Same(d)  BY <1>0, <2>2 DEF Same, IInv, TypeOK
    <3> QED  BY <3>1, SameGood DEF IInv
  <2> QED  BY <2>1, <2>2
<1> QED  BY <1>1, <1>2 DEF IInv

(* What the history shows was taken; what it does not show stays open.     *)
LEMMA ReconcileGood == ASSUME NEW h \in Hosts, NEW c \in Commands, IInv, Reconcile(h, c) PROVE IInv'
<1>0. /\ work' \in [Hosts -> [Commands -> Works]]
      /\ \A g \in Hosts, d \in Commands :
           work'[g][d] = IF g = h /\ d = c THEN "none" ELSE work[g][d]
  BY GoesWorks DEF IInv, Reconcile, Works
<1>1. PICK proven \in Proof(c) :
        /\ ledger' = [ledger EXCEPT ![c] = Reconciled(c, proven)]
        /\ answers' \subseteq answers \cup {[command |-> c, reply |-> ReplyOf(Reconciled(c, proven))]}
        /\ todo' = todo \/ todo' = [todo EXCEPT ![h] = {}]
  <2>1. PICK proven \in Proof(c) :
          /\ ledger' = [ledger EXCEPT ![c] = Reconciled(c, proven)]
          /\ IF host[h] = "settling"
             THEN /\ todo' = [todo EXCEPT ![h] = IF proven /\ ledger[c] = "unknown" THEN {} ELSE @]
                  /\ answers' = answers
             ELSE /\ answers' = answers \cup {[command |-> c, reply |-> ReplyOf(Reconciled(c, proven))]}
                  /\ todo' = todo
    BY DEF Reconcile, Record, Answer
  <2>2. todo' = todo \/ todo' = [todo EXCEPT ![h] = {}]
    BY <2>1 DEF IInv, TypeOK
  <2> QED  BY <2>1, <2>2
<1>2. UNCHANGED <<due, host, queue, writer, orphans, accepted, troubles>>
  BY DEF Reconcile, dsh
<1>3. proven => accepted[c] > 0
  BY DEF Proof
<1>4. Good(c) /\ ledger[c] \in LedgerStates /\ ledger[c] # "none"
  BY DEF IInv, TypeOK, Good, Untouched, Reconcile
<1>5. /\ Reconciled(c, proven) \in {ledger[c], "completed", "unknown"}
      /\ Reconciled(c, proven) = "completed" /\ ledger[c] # "completed" => proven
      /\ Reconciled(c, proven) = "refused" <=> ledger[c] = "refused"
      /\ ledger[c] = "completed" => Reconciled(c, proven) = "completed"
  BY <1>4 DEF Reconciled, Completed, Marked, LedgerStates
<1>6. TypeOK'
  <2>1. ReplyOf(Reconciled(c, proven)) \in Replies
    BY DEF ReplyOf, Replies
  <2>2. ledger' \in [Commands -> LedgerStates]
    BY <1>1, <1>4, <1>5 DEF IInv, TypeOK, LedgerStates
  <2> QED  BY <1>0, <1>1, <1>2, <2>1, <2>2 DEF IInv, TypeOK
<1>7. ASSUME NEW d \in Commands PROVE Good(d)'
  <2>1. CASE d = c
    <3>1. ledger'[c] = Reconciled(c, proven)
      BY <1>1 DEF IInv, TypeOK
    <3>2. /\ accepted'[c] = accepted[c]
          /\ ledger'[c] # "none"
          /\ ledger'[c] = "completed" => accepted[c] = 1
          /\ ledger'[c] = "refused" <=> ledger[c] = "refused"
      <4>1. accepted[c] \in Nat /\ accepted[c] <= 1
        BY <1>4 DEF Good, OneCall, IInv, TypeOK
      <4>2. ledger[c] = "completed" => accepted[c] = 1
        BY <1>4 DEF Good, Recorded
      <4>3. proven => accepted[c] = 1
        BY <1>3, <4>1
      <4>4. ledger'[c] = "completed" => accepted[c] = 1
        BY <1>5, <3>1, <4>2, <4>3
      <4>5. ledger'[c] # "none" /\ (ledger'[c] = "refused" <=> ledger[c] = "refused")
        BY <1>4, <1>5, <3>1
      <4> QED  BY <1>2, <4>4, <4>5
    <3>3. OneCall(c)'
      BY <1>0, <1>2, <1>4 DEF Good, OneCall, Busy
    <3>4. Untouched(c)' /\ Recorded(c)'
      BY <1>0, <1>2, <1>4, <3>2 DEF Good, Untouched, Recorded, Busy
    <3>5. Told(c)'
      <4>1. ReplyOf(ledger'[c]) = "completed" => ledger'[c] = "completed"
        BY DEF ReplyOf
      <4>2. ledger[c] = "completed" => ledger'[c] = "completed"
        BY <1>5, <3>1
      <4> QED  BY <1>1, <1>4, <3>1, <4>1, <4>2 DEF Good, Told
    <3> QED  BY <2>1, <3>3, <3>4, <3>5 DEF Good
  <2>2. CASE d # c
    <3>1. ledger'[d] = ledger[d]  BY <1>1, <2>2 DEF IInv, TypeOK
    <3>2. \A g \in Hosts : d \in todo'[g] => d \in todo[g]  BY <1>1 DEF IInv, TypeOK
    <3>3. \A a \in answers' : a.command = d => a \in answers  BY <1>1, <2>2
    <3>4. \A g \in Hosts : work'[g][d] = work[g][d]  BY <1>0, <2>2
    <3>5. Same(d)  BY <1>2, <3>1, <3>2, <3>3, <3>4 DEF Same
    <3> QED  BY <3>5, SameGood DEF IInv
  <2> QED  BY <2>1, <2>2
<1> QED  BY <1>6, <1>7 DEF IInv

(* A host that leaves may leave its calls behind.                          *)
LEMMA LeaveGood == ASSUME NEW h \in Hosts, IInv, Leave(h) PROVE IInv'
<1>0. PICK lost \in SUBSET {c \in Commands : work[h][c] = "calling"} : orphans' = orphans \cup lost
  BY DEF Leave
<1>1. /\ host' = [host EXCEPT ![h] = "off"]
      /\ todo' = [todo EXCEPT ![h] = {}]
      /\ queue' = [queue EXCEPT ![h] = {}]
      /\ work' = [work EXCEPT ![h] = [c \in Commands |-> "none"]]
      /\ troubles' = troubles + 1 /\ troubles < MaxTroubles
      /\ UNCHANGED <<ledger, due, writer, accepted, answers>>
  BY DEF Leave
<1>2. TypeOK'
  BY <1>0, <1>1, CommandsAssumption DEF IInv, TypeOK, Works
<1>3. \A g \in Hosts, d \in Commands : work'[g][d] = IF g = h THEN "none" ELSE work[g][d]
  BY <1>1 DEF IInv, TypeOK
<1>4. ASSUME NEW d \in Commands PROVE Good(d)'
  <2>1. Good(d)  BY DEF IInv
  <2>2. CASE d \in lost
    <3>1. /\ accepted'[d] = 0
          /\ \A g \in Hosts : work'[g][d] \notin Busy
          /\ ledger[d] # "none"
      BY <1>0, <1>1, <1>3, <2>1, <2>2 DEF Good, Untouched, OneCall, Recorded, Busy
    <3>2. OneCall(d)'  BY <3>1 DEF OneCall, Busy
    <3>3. Untouched(d)' /\ Recorded(d)' /\ Told(d)'
      BY <1>1, <2>1, <3>1 DEF Good, Untouched, Recorded, Told
    <3> QED  BY <3>2, <3>3 DEF Good
  <2>3. CASE d \notin lost
    <3>1. d \in orphans' <=> d \in orphans  BY <1>0, <2>3
    <3>2. Untouched(d)'
      BY <1>1, <1>3, <2>1, <3>1 DEF Good, Untouched, IInv, TypeOK
    <3>3. OneCall(d)' /\ Recorded(d)' /\ Told(d)'
      BY <1>1, <1>3, <2>1, <3>1 DEF Good, OneCall, Recorded, Told, Busy
    <3> QED  BY <3>2, <3>3 DEF Good
  <2> QED  BY <2>2, <2>3
<1> QED  BY <1>2, <1>4 DEF IInv

-------------------------------------------------------------------------------

LEMMA NextGood == IInv /\ [Next]_vars => IInv'
<1> SUFFICES ASSUME IInv, [Next]_vars PROVE IInv'
  OBVIOUS
<1>1. ASSUME NEW h \in Hosts, NEW c \in Commands,
             Receive(h, c) \/ Drop(h, c) \/ Start(h, c) \/ Dispatches(h, c) \/ Look(h, c)
      PROVE  IInv'
  BY <1>1, ReceiveGood, DropGood, StartGood, LookGood, OpenGood, OpenFailsGood,
     TurnAwayGood, BeginGood, AcceptGood, FinishGood,
     RefuseGood, BreakGood, ReconcileGood DEF Dispatches
<1>2. ASSUME NEW c \in Commands, Expire(c) \/ OrphanEnds(c) PROVE IInv'
  BY <1>2, ExpireGood, OrphanEndsGood
<1>3. ASSUME NEW h \in Hosts, Activate(h) \/ Connect(h) \/ Leave(h) PROVE IInv'
  BY <1>3, ActivateGood, ConnectGood, LeaveGood
<1>4. ASSUME NEW h \in Hosts \cup {NoHost}, Move(h) PROVE IInv'
  BY <1>4, MoveGood
<1>5. CASE UNCHANGED vars
  BY <1>5, UnchangedGood
<1> QED  BY <1>1, <1>2, <1>3, <1>4, <1>5 DEF Next

-------------------------------------------------------------------------------
(* The theorems.                                                           *)

(* For any number of hosts and commands, moves of the writer and hosts     *)
(* that leave: the invariant behind the others.                            *)
THEOREM CommandsInvariant == Spec => []IInv
BY InitGood, NextGood, PTL DEF Spec

(* Every variable keeps its type: dispatchWrite and reconcileUnsettled.    *)
THEOREM CommandsTypes == Spec => []TypeOK
<1>1. IInv => TypeOK  BY DEF IInv
<1> QED  BY <1>1, CommandsInvariant, PTL

(* DSH takes a command once at most, whoever hears it and however often    *)
(* (begin, command-ledger.ts).                                             *)
THEOREM CommandsAcceptedOnce == Spec => []AcceptedOnce
<1>1. IInv => AcceptedOnce  BY DEF IInv, Good, OneCall, AcceptedOnce
<1> QED  BY <1>1, CommandsInvariant, PTL

(* What is recorded or answered as completed was taken, and is on record   *)
(* for good, whatever calls are still out (complete() and reconcile-       *)
(* Unsettled on several hosts).                                            *)
THEOREM CommandsReportTruth == Spec => []ReportsTrue
<1>1. IInv => ReportsTrue  BY DEF IInv, Good, Recorded, Told, ReportsTrue
<1> QED  BY <1>1, CommandsInvariant, PTL

(* No step of anybody changes a settled entry (complete,                   *)
(* markOutcomeUnknown).                                                    *)
THEOREM CommandsStaySettled == Spec => SettledStays
<1> DEFINE Stays == \A c \in Commands : ledger[c] \in Settled => ledger'[c] = ledger[c]
<1>1. IInv /\ [Next]_vars => [Stays]_vars
  <2> SUFFICES ASSUME IInv, Next PROVE Stays
    OBVIOUS
  <2> SUFFICES ASSUME NEW d \in Commands, ledger[d] \in Settled PROVE ledger'[d] = ledger[d]
    OBVIOUS
  <2> USE DEF Settled, IInv, TypeOK, Record
  <2>1. ASSUME NEW h \in Hosts, NEW c \in Commands, Begin(h, c) PROVE ledger'[d] = ledger[d]
    BY <2>1 DEF Begin, BeginNew, BeginLooking, BeginAnswered
  <2>2. ASSUME NEW h \in Hosts, NEW c \in Commands, Finish(h, c) \/ Refuse(h, c) \/ Break(h, c)
        PROVE  ledger'[d] = ledger[d]
    BY <2>2 DEF Finish, Refuse, Break, Fails, Completed, Marked
  <2>3. ASSUME NEW h \in Hosts, NEW c \in Commands, Reconcile(h, c) PROVE ledger'[d] = ledger[d]
    BY <2>3 DEF Reconcile, Reconciled, Completed, Marked
  <2>4. ASSUME NEW h \in Hosts, NEW c \in Commands,
               \/ Receive(h, c) \/ Drop(h, c) \/ Start(h, c) \/ Look(h, c)
               \/ Open(h, c) \/ OpenFails(h, c) \/ TurnAway(h, c) \/ Accept(h, c)
        PROVE  ledger'[d] = ledger[d]
    BY <2>4 DEF Receive, Drop, Start, Look, Open, OpenFails, TurnAway, Accept
  <2>5. ASSUME NEW c \in Commands, Expire(c) \/ OrphanEnds(c) PROVE ledger'[d] = ledger[d]
    BY <2>5 DEF Expire, OrphanEnds
  <2>6. ASSUME NEW h \in Hosts, Activate(h) \/ Connect(h) \/ Leave(h) PROVE ledger'[d] = ledger[d]
    BY <2>6 DEF Activate, Connect, Leave
  <2>7. ASSUME NEW h \in Hosts \cup {NoHost}, Move(h) PROVE ledger'[d] = ledger[d]
    BY <2>7 DEF Move
  <2> QED  BY <2>1, <2>2, <2>3, <2>4, <2>5, <2>6, <2>7 DEF Next, Dispatches
<1> QED  BY <1>1, CommandsInvariant, PTL DEF Spec, SettledStays

-------------------------------------------------------------------------------
(* One verdict per command.                                                *)

Simulated == Verdict!Next \/ UNCHANGED Verdict!vars

LEMMA NothingSaid ==
  ASSUME UNCHANGED <<ledger, accepted, answers>>
  PROVE  Simulated
<1>1. Judged' = Judged  BY DEF Judged
<1> QED  BY <1>1 DEF Simulated, Verdict!vars

(* DSH takes a command that was not taken.                                 *)
LEMMA TakenOnce ==
  ASSUME NEW c \in Commands, TypeOK, accepted[c] = 0,
         accepted' = [accepted EXCEPT ![c] = @ + 1], UNCHANGED <<ledger, answers>>
  PROVE  Simulated
<1>1. Judged' = Judged  BY DEF Judged
<1>2. accepted' = [accepted EXCEPT ![c] = 1]  BY DEF TypeOK
<1>3. Verdict!Take(c)  BY <1>1, <1>2 DEF Verdict!Take
<1> QED  BY <1>3 DEF Simulated, Verdict!Next

(* An entry goes on, or is settled as things are; an answer "completed"    *)
(* repeats what is then recorded.                                          *)
LEMMA Concludes ==
  ASSUME NEW c \in Commands, NEW s \in LedgerStates, NEW r \in Replies, TypeOK,
         Record(c, s), UNCHANGED accepted,
         ledger[c] \in Settled => s = ledger[c],
         s = "completed" => accepted[c] = 1,
         UNCHANGED answers \/ Answer(c, r),
         r = "completed" => s = "completed"
  PROVE  Simulated
<1>1. /\ ledger[c] \in LedgerStates
      /\ \A d \in Commands : ledger'[d] = IF d = c THEN s ELSE ledger[d]
  BY DEF Record, TypeOK
<1>2. \A d \in Commands : Judged[d] = IF ledger[d] \in Settled THEN ledger[d] ELSE "open"
  BY DEF Judged
<1>3. \A d \in Commands : Judged'[d] = IF ledger'[d] \in Settled THEN ledger'[d] ELSE "open"
  BY DEF Judged
<1>4. Verdict!Judge(c) \/ Judged' = Judged
  <2>1. CASE s \in Settled /\ ledger[c] \notin Settled
    <3>1. Judged' = [Judged EXCEPT ![c] = s]
      BY <1>1, <1>2, <1>3, <2>1 DEF Judged
    <3>2. Judged[c] = "open"
      BY <1>2, <2>1
    <3> QED  BY <2>1, <3>1, <3>2 DEF Verdict!Judge, Settled
  <2>2. CASE ~(s \in Settled /\ ledger[c] \notin Settled)
    <3>1. \A d \in Commands : Judged'[d] = Judged[d]
      BY <1>1, <1>2, <1>3, <2>2
    <3> QED  BY <3>1 DEF Judged
  <2> QED  BY <2>1, <2>2
<1>5. Verdict!Tell(c) \/ UNCHANGED answers
  <2>1. r = "completed" => Judged'[c] = "completed"
    BY <1>1, <1>3 DEF Settled, Replies
  <2>2. r \in {"completed", "rejected"}
    BY DEF Replies
  <2> QED  BY <2>1, <2>2 DEF Verdict!Tell, Answer
<1>6. Verdict!Conclude(c)
  BY <1>4, <1>5 DEF Verdict!Conclude
<1> QED  BY <1>6 DEF Simulated, Verdict!Next

(* The ledger is left alone, and the answer, if any, is a rejection.       *)
LEMMA Rejects ==
  ASSUME NEW c \in Commands, IInv, UNCHANGED <<ledger, accepted>>,
         UNCHANGED answers \/ Answer(c, "rejected")
  PROVE  Simulated
<1>1. TypeOK /\ Good(c)  BY DEF IInv
<1>2. Record(c, ledger[c]) /\ ledger[c] \in LedgerStates
  BY <1>1 DEF Record, TypeOK
<1> QED  BY <1>1, <1>2, Concludes DEF Good, Recorded, Replies

LEMMA BeginSimulated ==
  ASSUME NEW h \in Hosts, NEW c \in Commands, IInv, Begin(h, c) PROVE Simulated
<1>1. TypeOK /\ Good(c)  BY DEF IInv
<1>2. CASE ledger[c] = "none"
  <2>1. Record(c, "pending") /\ UNCHANGED <<accepted, answers>>
    BY <1>2 DEF Begin, BeginNew, Abandoned, dsh
  <2> QED  BY <1>1, <1>2, <2>1, Concludes DEF LedgerStates, Settled, Replies
<1>3. CASE ledger[c] # "none" /\ Abandoned(h, c)
  BY <1>3, NothingSaid DEF Begin, BeginLooking, dsh
<1>4. CASE ledger[c] # "none" /\ ~Abandoned(h, c)
  <2>1. UNCHANGED <<ledger, accepted>> /\ Answer(c, ReplyOf(ledger[c]))
    BY <1>4 DEF Begin, BeginAnswered, dsh
  <2>2. Record(c, ledger[c]) /\ ledger[c] \in LedgerStates /\ ReplyOf(ledger[c]) \in Replies
    BY <1>1, <2>1 DEF Record, TypeOK, ReplyOf, Replies
  <2>3. /\ ledger[c] = "completed" => accepted[c] = 1
        /\ ReplyOf(ledger[c]) = "completed" => ledger[c] = "completed"
    BY <1>1 DEF Good, Recorded, ReplyOf
  <2> QED  BY <1>1, <2>1, <2>2, <2>3, Concludes
<1> QED  BY <1>2, <1>3, <1>4

LEMMA FinishSimulated ==
  ASSUME NEW h \in Hosts, NEW c \in Commands, IInv, Finish(h, c) PROVE Simulated
<1> DEFINE s == Completed(ledger[c], "completed")
           r == IF ledger[c] = "unknown" THEN "rejected" ELSE "completed"
<1>1. Record(c, s) /\ Answer(c, r) /\ UNCHANGED accepted /\ work[h][c] = "accepted"
  BY DEF Finish, dsh
<1>2. ledger[c] \in {"pending", "completed", "unknown"} /\ accepted[c] = 1
  BY <1>1, FailsRecorded DEF Busy, IInv, Good, OneCall
<1>3. s \in LedgerStates /\ r \in Replies /\ (r = "completed" => s = "completed")
  BY <1>2 DEF Completed, LedgerStates, Replies
<1>4. ledger[c] \in Settled => s = ledger[c]
  BY <1>2 DEF Completed, Settled
<1> HIDE DEF s, r
<1> QED  BY <1>1, <1>2, <1>3, <1>4, Concludes DEF IInv

LEMMA FailsSimulated ==
  ASSUME NEW h \in Hosts, NEW c \in Commands, IInv, Refuse(h, c) \/ Break(h, c) PROVE Simulated
<1>1. PICK s \in {Completed(ledger[c], "refused"), Marked(ledger[c])} : Fails(h, c, s)
  BY DEF Refuse, Break
<1>2. Record(c, s) /\ Answer(c, "rejected") /\ UNCHANGED accepted /\ work[h][c] \in Busy
  BY <1>1 DEF Fails, Busy
<1>3. ledger[c] \in {"pending", "completed", "unknown"}
      /\ (ledger[c] = "completed" => accepted[c] = 1)
  BY <1>2, FailsRecorded DEF IInv, Good, Recorded
<1>4. s \in LedgerStates /\ (ledger[c] \in Settled => s = ledger[c])
      /\ (s = "completed" => ledger[c] = "completed")
  BY <1>1, <1>3 DEF Completed, Marked, LedgerStates, Settled
<1>5. "rejected" \in Replies  BY DEF Replies
<1> QED  BY <1>2, <1>3, <1>4, <1>5, Concludes DEF IInv

LEMMA ReconcileSimulated ==
  ASSUME NEW h \in Hosts, NEW c \in Commands, IInv, Reconcile(h, c) PROVE Simulated
<1>1. PICK proven \in Proof(c) :
        /\ Record(c, Reconciled(c, proven))
        /\ UNCHANGED answers \/ Answer(c, ReplyOf(Reconciled(c, proven)))
  BY DEF Reconcile
<1> DEFINE s == Reconciled(c, proven)
           r == ReplyOf(s)
<1>2. TypeOK /\ Good(c) /\ UNCHANGED accepted  BY DEF IInv, Reconcile, dsh
<1>3. proven => accepted[c] = 1
  <2>1. proven => accepted[c] > 0
    BY DEF Proof
  <2>2. accepted[c] > 0 => accepted[c] = 1
    BY <1>2 DEF Good, OneCall, TypeOK
  <2> QED  BY <2>1, <2>2
<1>4. ledger[c] \in LedgerStates  BY <1>2 DEF TypeOK
<1>5. /\ s \in LedgerStates
      /\ ledger[c] \in Settled => s = ledger[c]
      /\ s = "completed" => accepted[c] = 1
  BY <1>2, <1>3, <1>4 DEF Reconciled, Completed, Marked, LedgerStates, Settled, Good, Recorded
<1>6. r \in Replies /\ (r = "completed" => s = "completed")
  <2> HIDE DEF s
  <2> QED  BY DEF ReplyOf, Replies
<1> HIDE DEF s, r
<1>7. Record(c, s) /\ (UNCHANGED answers \/ Answer(c, r))
  BY <1>1 DEF s, r
<1> QED  BY <1>2, <1>5, <1>6, <1>7, Concludes

LEMMA AcceptSimulated ==
  ASSUME NEW h \in Hosts, NEW c \in Commands, IInv, Accept(h, c) PROVE Simulated
<1>1. /\ work[h][c] = "calling" /\ UNCHANGED <<ledger, answers>>
      /\ accepted' = [accepted EXCEPT ![c] = @ + 1]
  BY DEF Accept
<1>2. accepted[c] = 0  BY <1>1 DEF IInv, Good, OneCall
<1> QED  BY <1>1, <1>2, TakenOnce DEF IInv

LEMMA OrphanEndsSimulated ==
  ASSUME NEW c \in Commands, IInv, OrphanEnds(c) PROVE Simulated
<1>1. CASE UNCHANGED accepted
  BY <1>1, NothingSaid DEF OrphanEnds
<1>2. CASE accepted' = [accepted EXCEPT ![c] = @ + 1]
  <2>1. accepted[c] = 0
    BY DEF OrphanEnds, IInv, Good, OneCall
  <2> QED  BY <1>2, <2>1, TakenOnce DEF OrphanEnds, IInv
<1> QED  BY <1>1, <1>2 DEF OrphanEnds

(* Hosts, ledger, calls and answers together implement CommandVerdict: a   *)
(* command is taken once at most and judged once, "completed" only if it   *)
(* was taken, and answered "completed" only if that is the verdict, for    *)
(* any hosts, commands, departures and moves.                              *)
THEOREM CommandsImplementVerdict == Spec => OneVerdict
<1>1. Init => Verdict!Init
  BY DEF Init, Verdict!Init, Judged, Settled
<1>2. IInv /\ [Next]_vars => [Verdict!Next]_(Verdict!vars)
  <2> SUFFICES ASSUME IInv, [Next]_vars PROVE Simulated
    BY DEF Simulated
  <2>1. ASSUME NEW h \in Hosts, NEW c \in Commands,
               Receive(h, c) \/ Drop(h, c) \/ Start(h, c) \/ Look(h, c)
        PROVE  Simulated
    BY <2>1, NothingSaid DEF Receive, Drop, Start, Look, dsh
  <2>2. ASSUME NEW h \in Hosts, NEW c \in Commands, Dispatches(h, c) PROVE Simulated
    <3>1. CASE Open(h, c) \/ OpenFails(h, c) \/ TurnAway(h, c)
      BY <3>1, Rejects DEF Open, OpenFails, TurnAway, dsh
    <3>2. CASE ~(Open(h, c) \/ OpenFails(h, c) \/ TurnAway(h, c))
      BY <2>2, <3>2, BeginSimulated, AcceptSimulated, FinishSimulated, FailsSimulated,
         ReconcileSimulated DEF Dispatches
    <3> QED  BY <3>1, <3>2
  <2>3. ASSUME NEW c \in Commands, Expire(c) \/ OrphanEnds(c) PROVE Simulated
    BY <2>3, NothingSaid, OrphanEndsSimulated DEF Expire, dsh
  <2>4. ASSUME NEW h \in Hosts, Activate(h) \/ Connect(h) \/ Leave(h) PROVE Simulated
    BY <2>4, NothingSaid DEF Activate, Connect, Leave, dsh
  <2>5. ASSUME NEW h \in Hosts \cup {NoHost}, Move(h) PROVE Simulated
    BY <2>5, NothingSaid DEF Move
  <2>6. CASE UNCHANGED vars
    BY <2>6, NothingSaid DEF vars, dsh
  <2> QED  BY <2>1, <2>2, <2>3, <2>4, <2>5, <2>6 DEF Next
<1> QED  BY <1>1, <1>2, CommandsInvariant, PTL DEF Spec, OneVerdict, Verdict!Spec
===============================================================================
