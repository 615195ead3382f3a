------------------------ MODULE LiveEventBatcherProofs ------------------------
(***************************************************************************)
(* Proofs about LiveEventBatcher, for any sessions and any limits: order,  *)
(* single delivery and completeness, session by session, and the count of  *)
(* the events that all of them buffer.                                     *)
(***************************************************************************)
EXTENDS LiveEventBatcher, FiniteFacts, TLAPS

Pendings == [cursor : Nat, through : Nat, entries : Seq(Nat), replay : BOOLEAN,
             readyAt : Nat, retryAt : Nat]
FlightRecords == [step : {"none", "replay", "publish"}, source : Seq(Nat), upper : Nat,
                  replayed : BOOLEAN]

Types ==
    /\ head \in [Sessions -> Nat]
    /\ offered \in [Sessions -> SUBSET Nat]
    /\ repeated \in [Sessions -> SUBSET Nat]
    /\ order \in Seq(Sessions)
    /\ pending \in [Sessions -> Pendings]
    /\ flight \in [Sessions -> FlightRecords]
    /\ delivered \in [Sessions -> Seq(Nat)]
    /\ withheld \in [Sessions -> SUBSET Nat]

-------------------------------------------------------------------------------
(* The inductive invariant of one session: h is its head, o what is owed   *)
(* of it, r what was repeated and d what was delivered.                    *)

Has(q, m) == \E j \in 1..Len(q) : q[j] = m

History(h, o, r, d) ==
    /\ \A n \in o : 0 < n /\ n <= h
    /\ \A i \in 1..Len(d) : d[i] <= h
    /\ \A i \in 1..Len(d) : \A n \in o : n < d[i] => \E j \in 1..(i - 1) : d[j] = n
    /\ \A i, j \in 1..Len(d) : i # j /\ d[i] = d[j] => d[i] \in r

(* q may be published next: in order, nothing twice, nothing that overtakes*)
(* an event that was taken.                                                *)
Sound(q, h, o, r, d) ==
    /\ \A k \in 1..Len(q) : q[k] <= h
    /\ \A j, k \in 1..Len(q) : j < k => q[j] < q[k]
    /\ \A k \in 1..Len(q) : Has(d, q[k]) => q[k] \in r
    /\ \A k \in 1..Len(q) : \A m \in o : m < q[k] =>
           Has(d, m) \/ \E j \in 1..(k - 1) : q[j] = m

(* The buffer of a session in the map lies between cursor and through; it  *)
(* holds all that is left to publish, until the first event is omitted.    *)
Within(c, t, b, h, o, r, d) ==
    /\ c <= t /\ t <= h
    /\ \A i \in 1..Len(d) : d[i] <= c \/ d[i] \in r
    /\ \A k \in 1..Len(b) : c < b[k] /\ b[k] <= t
    /\ Sound(b, h, o, r, d)

Buffer(p, h, o, r, d) ==
    /\ Within(p.cursor, p.through, p.entries, h, o, r, d)
    /\ ~p.replay => \A m \in o : m <= p.through => Has(d, m) \/ Has(p.entries, m)

Remembered(p, known, o, d) == \A n \in o :
    Has(d, n) \/ (known /\ p.cursor < n /\ n <= p.through)

(* A flight publishes the front of the buffer, or a page of the history    *)
(* behind the cursor that holds all that is owed of its range, while the   *)
(* buffer stays empty.                                                     *)
Covers(q, c, u, o) ==
    /\ c < u
    /\ \A k \in 1..Len(q) : c < q[k] /\ q[k] <= u
    /\ \A j, k \in 1..Len(q) : j < k => q[j] < q[k]
    /\ \A m \in o : c < m /\ m <= u => Has(q, m)
Linked(f, p, o) ==
    /\ f.replayed =>
         /\ p.replay /\ p.entries = <<>> /\ f.upper <= p.through
         /\ f.step = "publish" => Covers(f.source, p.cursor, f.upper, o)
    /\ ~f.replayed =>
         /\ Len(f.source) <= Len(p.entries)
         /\ \A k \in 1..Len(f.source) : f.source[k] = p.entries[k]

Good(f, p, known, h, o, r, d) ==
    /\ History(h, o, r, d)
    /\ ~closed => /\ known => Buffer(p, h, o, r, d)
                  /\ Remembered(p, known, o, d)
                  /\ f # NoFlight => known /\ Linked(f, p, o)
    /\ f.step = "publish" => Sound(f.source, h, o, r, d)
    /\ f.step = "replay" => f.replayed
    /\ f.step = "none" => f = NoFlight

SessionInv(s) ==
    Good(flight[s], pending[s], InMap(s), head[s], Owed(s), repeated[s], delivered[s])

\* A session has one place in the map.
OneEach == \A i, j \in 1..Len(order) : order[i] = order[j] => i = j

\* What is pending of a session reaches up to all that was taken of it.
Offers == \A s \in Sessions : \A n \in offered[s] :
    /\ 0 < n /\ n <= head[s]
    /\ InMap(s) => n <= pending[s].through

IInv == Types /\ OneEach /\ Offers /\ \A s \in Sessions : SessionInv(s)

-------------------------------------------------------------------------------
(* Sequences.                                                              *)

LEMMA RangeHas == ASSUME NEW q \in Seq(Nat), NEW m PROVE m \in Range(q) <=> Has(q, m)
BY DEF Range, Has

LEMMA Rest == ASSUME NEW q \in Seq(Nat), NEW n \in 1..Len(q)
              PROVE /\ SubSeq(q, n + 1, Len(q)) \in Seq(Nat)
                    /\ Len(SubSeq(q, n + 1, Len(q))) = Len(q) - n
                    /\ \A i \in 1..(Len(q) - n) : SubSeq(q, n + 1, Len(q))[i] = q[n + i]
OBVIOUS

LEMMA Joined == ASSUME NEW q \in Seq(Nat), NEW r \in Seq(Nat)
                PROVE /\ q \o r \in Seq(Nat)
                      /\ Len(q \o r) = Len(q) + Len(r)
                      /\ \A i \in 1..Len(q) : (q \o r)[i] = q[i]
                      /\ \A i \in 1..Len(r) : (q \o r)[Len(q) + i] = r[i]
OBVIOUS

LEMMA MinPair == ASSUME NEW a \in Nat, NEW b \in Nat
                 PROVE Min({a, b}) \in {a, b} /\ Min({a, b}) <= a /\ Min({a, b}) <= b
<1>1. \E x \in {a, b} : \A y \in {a, b} : x <= y
  <2>1. CASE a <= b  BY <2>1
  <2>2. CASE b <= a  BY <2>2
  <2> QED  BY <2>1, <2>2
<1> QED  BY <1>1 DEF Min

(* The map: a session that is appended, and one that is removed.           *)
LEMMA Appended == ASSUME NEW q \in Seq(Sessions), NEW s \in Sessions
                  PROVE /\ Append(q, s) \in Seq(Sessions)
                        /\ \A x : x \in Range(Append(q, s)) <=> x \in Range(q) \/ x = s
                        /\ s \notin Range(q) /\ (\A j, k \in 1..Len(q) : q[j] = q[k] => j = k)
                           => \A j, k \in 1..Len(Append(q, s)) :
                                  Append(q, s)[j] = Append(q, s)[k] => j = k
<1> DEFINE r == Append(q, s)
<1>1. /\ r \in Seq(Sessions)
      /\ DOMAIN q = 1..Len(q) /\ DOMAIN r = 1..(Len(q) + 1)
      /\ \A i \in 1..Len(q) : r[i] = q[i]
      /\ r[Len(q) + 1] = s
  OBVIOUS
<1> HIDE DEF r
<1>2. Range(q) = {q[i] : i \in 1..Len(q)} /\ Range(r) = {r[i] : i \in 1..(Len(q) + 1)}
  BY <1>1 DEF Range
<1>3. \A x : x \in Range(r) <=> x \in Range(q) \/ x = s
  BY <1>1, <1>2
<1>4. ASSUME s \notin Range(q), \A j, k \in 1..Len(q) : q[j] = q[k] => j = k,
             NEW j \in 1..Len(r), NEW k \in 1..Len(r), r[j] = r[k]
      PROVE  j = k
  <2>1. \A i \in 1..Len(q) : r[i] # s  BY <1>1, <1>2, <1>4
  <2>2. Len(r) = Len(q) + 1 /\ Len(q) \in Nat  BY <1>1
  <2>3. CASE j = Len(q) + 1  BY <1>1, <1>4, <2>1, <2>2, <2>3
  <2>4. CASE k = Len(q) + 1  BY <1>1, <1>4, <2>1, <2>2, <2>4
  <2>5. CASE j \in 1..Len(q) /\ k \in 1..Len(q)  BY <1>1, <1>4, <2>5
  <2> QED  BY <2>2, <2>3, <2>4, <2>5
<1> QED  BY <1>1, <1>3, <1>4 DEF r

LEMMA KeysJoined == ASSUME NEW a \in Seq(Sessions), NEW b \in Seq(Sessions)
                    PROVE a \o b \in Seq(Sessions) /\ Len(a \o b) = Len(a) + Len(b)
OBVIOUS

LEMMA Removed == ASSUME NEW q \in Seq(Sessions), NEW i \in 1..Len(q),
                        \A j, k \in 1..Len(q) : q[j] = q[k] => j = k
                 PROVE /\ RemoveAt(q, i) \in Seq(Sessions)
                       /\ \A x : x \in Range(RemoveAt(q, i)) <=> x \in Range(q) /\ x # q[i]
                       /\ \A j, k \in 1..Len(RemoveAt(q, i)) :
                              RemoveAt(q, i)[j] = RemoveAt(q, i)[k] => j = k
<1> DEFINE r == RemoveAt(q, i)
<1>1. /\ r \in Seq(Sessions)
      /\ DOMAIN q = 1..Len(q) /\ DOMAIN r = 1..(Len(q) - 1) /\ Len(r) = Len(q) - 1
      /\ \A j \in 1..(i - 1) : r[j] = q[j]
      /\ \A j \in i..(Len(q) - 1) : r[j] = q[j + 1]
  <2> DEFINE a == SubSeq(q, 1, i - 1)
             b == SubSeq(q, i + 1, Len(q))
  <2>1. a \in Seq(Sessions) /\ Len(a) = i - 1 /\ \A j \in 1..(i - 1) : a[j] = q[j]
    OBVIOUS
  <2>2. b \in Seq(Sessions) /\ Len(b) = Len(q) - i /\ \A j \in 1..(Len(q) - i) : b[j] = q[i + j]
    OBVIOUS
  <2>3. r = a \o b  BY DEF RemoveAt
  <2> HIDE DEF a, b, r
  <2>4. r \in Seq(Sessions) /\ Len(r) = Len(q) - 1
    <3>1. r \in Seq(Sessions) /\ Len(r) = Len(a) + Len(b)  BY <2>1, <2>2, <2>3, KeysJoined
    <3> QED  BY <2>1, <2>2, <3>1
  <2>5. \A j \in 1..(i - 1) : r[j] = q[j]  BY <2>1, <2>2, <2>3
  <2>6. ASSUME NEW j \in i..(Len(q) - 1) PROVE r[j] = q[j + 1]
    <3>1. r[j] = b[j - (i - 1)]  BY <2>1, <2>2, <2>3
    <3> QED  BY <2>2, <3>1
  <2> QED  BY <2>4, <2>5, <2>6
<1> HIDE DEF r
<1>2. Range(q) = {q[j] : j \in 1..Len(q)} /\ Range(r) = {r[j] : j \in 1..(Len(q) - 1)}
  BY <1>1 DEF Range
<1>3. ASSUME NEW x, x # q[i], x \in Range(q) PROVE x \in Range(r)
  <2>1. PICK j \in 1..Len(q) : q[j] = x  BY <1>2, <1>3
  <2>2. CASE j < i  BY <1>1, <1>2, <2>1, <2>2
  <2>3. CASE j > i
    <3>1. j - 1 \in i..(Len(q) - 1) /\ r[j - 1] = x  BY <1>1, <2>1, <2>3
    <3> QED  BY <1>2, <3>1
  <2> QED  BY <1>3, <2>1, <2>2, <2>3
<1> DEFINE at(j) == IF j < i THEN j ELSE j + 1
<1>4. ASSUME NEW j \in 1..(Len(q) - 1) PROVE at(j) \in 1..Len(q) /\ at(j) # i /\ r[j] = q[at(j)]
  <2>1. CASE j < i  BY <1>1, <2>1
  <2>2. CASE j >= i  BY <1>1, <2>2
  <2> QED  BY <2>1, <2>2
<1>5. \A j, k \in 1..(Len(q) - 1) : at(j) = at(k) => j = k  OBVIOUS
<1> HIDE DEF at
<1>6. ASSUME NEW x, x \in Range(r) PROVE x \in Range(q) /\ x # q[i]
  <2>1. PICK j \in 1..(Len(q) - 1) : r[j] = x  BY <1>2, <1>6
  <2> QED  BY <1>2, <1>4, <2>1
<1>7. Len(r) = Len(q) - 1  BY <1>1
<1>8. ASSUME NEW j \in 1..Len(r), NEW k \in 1..Len(r), r[j] = r[k] PROVE j = k
  BY <1>4, <1>5, <1>7, <1>8
<1> QED  BY <1>1, <1>3, <1>6, <1>8 DEF r

LEMMA InitInv == Init => IInv
<1> SUFFICES ASSUME Init PROVE IInv  OBVIOUS
<1>1. NotPending \in Pendings /\ NoFlight \in FlightRecords /\ NoFlight.step = "none"
  BY DEF NotPending, NoFlight, Pendings, FlightRecords
<1>2. Types /\ OneEach /\ Offers  BY <1>1 DEF Init, Types, OneEach, Offers
<1>3. ASSUME NEW s \in Sessions PROVE SessionInv(s)
  <2>1. ~InMap(s)  BY DEF Init, InMap, Range
  <2>2. flight[s] = NoFlight /\ Owed(s) = {} /\ delivered[s] = <<>>  BY DEF Init, Owed
  <2> QED  BY <1>1, <2>1, <2>2 DEF SessionInv, Good, History, Remembered
<1> QED  BY <1>2, <1>3 DEF IInv

-------------------------------------------------------------------------------
(* What time, and events that are only repeated or missed, do to it.       *)

LEMMA Shrinks ==
  ASSUME NEW h, NEW o, NEW r, NEW d, NEW o2 \in SUBSET o
  PROVE  /\ History(h, o, r, d) => History(h, o2, r, d)
         /\ \A q : Sound(q, h, o, r, d) => Sound(q, h, o2, r, d)
         /\ \A p : Buffer(p, h, o, r, d) => Buffer(p, h, o2, r, d)
         /\ \A p, known : Remembered(p, known, o, d) => Remembered(p, known, o2, d)
         /\ \A f, p : Linked(f, p, o) => Linked(f, p, o2)
<1>1. History(h, o, r, d) => History(h, o2, r, d)  BY DEF History
<1>2. \A q : Sound(q, h, o, r, d) => Sound(q, h, o2, r, d)  BY DEF Sound
<1>3. \A p : Buffer(p, h, o, r, d) => Buffer(p, h, o2, r, d)
  BY <1>2 DEF Buffer, Within
<1>4. \A p, known : Remembered(p, known, o, d) => Remembered(p, known, o2, d)
  BY DEF Remembered
<1>5. \A f, p : Linked(f, p, o) => Linked(f, p, o2)  BY DEF Linked, Covers
<1> QED  BY <1>1, <1>2, <1>3, <1>4, <1>5

LEMMA HistoryGrows ==
  ASSUME NEW h \in Nat, NEW o \in SUBSET Nat, NEW r \in SUBSET Nat, NEW d \in Seq(Nat),
         NEW h2 \in Nat, NEW r2 \in SUBSET Nat, h <= h2, r \subseteq r2,
         History(h, o, r, d)
  PROVE  History(h2, o, r2, d)
<1>1. \A i \in 1..Len(d) : d[i] \in Nat  OBVIOUS
<1> QED  BY <1>1 DEF History

LEMMA SoundGrows ==
  ASSUME NEW h \in Nat, NEW o \in SUBSET Nat, NEW r \in SUBSET Nat, NEW d \in Seq(Nat),
         NEW h2 \in Nat, NEW r2 \in SUBSET Nat, h <= h2, r \subseteq r2,
         NEW q \in Seq(Nat), Sound(q, h, o, r, d)
  PROVE  Sound(q, h2, o, r2, d)
<1>1. \A i \in 1..Len(q) : q[i] \in Nat  OBVIOUS
<1> QED  BY <1>1 DEF Sound

LEMMA BufferGrows ==
  ASSUME NEW h \in Nat, NEW o \in SUBSET Nat, NEW r \in SUBSET Nat, NEW d \in Seq(Nat),
         NEW h2 \in Nat, NEW r2 \in SUBSET Nat, h <= h2, r \subseteq r2,
         NEW p \in Pendings, NEW p2 \in Pendings, Buffer(p, h, o, r, d),
         p2.cursor = p.cursor, p2.through = p.through, p2.entries = p.entries, p2.replay = p.replay
  PROVE  Buffer(p2, h2, o, r2, d)
<1>1. p.through \in Nat /\ p.entries \in Seq(Nat)  BY DEF Pendings
<1>2. Sound(p2.entries, h2, o, r2, d)  BY <1>1, SoundGrows DEF Buffer, Within
<1> QED  BY <1>1, <1>2 DEF Buffer, Within

(* A step that leaves the session where it is, or ends its flight.         *)
Still(s) ==
    /\ head[s] <= head'[s] /\ repeated[s] \subseteq repeated'[s]
    /\ offered'[s] = offered[s] /\ withheld'[s] = withheld[s]
    /\ delivered'[s] = delivered[s]
    /\ pending'[s].cursor = pending[s].cursor /\ pending'[s].through = pending[s].through
    /\ pending'[s].entries = pending[s].entries /\ pending'[s].replay = pending[s].replay
    /\ InMap(s)' <=> InMap(s)
    /\ closed' = closed

LEMMA StillOwed == ASSUME NEW s, Still(s) PROVE Owed(s)' = Owed(s)
BY DEF Still, Owed

LEMMA OffersStill == ASSUME Types, Types', Offers, \A s \in Sessions : Still(s) PROVE Offers'
<1> SUFFICES ASSUME NEW s \in Sessions, NEW n \in offered'[s]
             PROVE  /\ 0 < n /\ n <= head'[s]
                    /\ InMap(s)' => n <= pending'[s].through
  BY DEF Offers
<1>1. /\ n \in offered[s] /\ head[s] <= head'[s] /\ (InMap(s)' <=> InMap(s))
      /\ pending'[s].through = pending[s].through
  BY DEF Still
<1>2. n \in Nat /\ head[s] \in Nat /\ head'[s] \in Nat  BY <1>1 DEF Types
<1>3. 0 < n /\ n <= head[s] /\ (InMap(s) => n <= pending[s].through)  BY <1>1 DEF Offers
<1> QED  BY <1>1, <1>2, <1>3

LEMMA SessionTypes ==
  ASSUME NEW s \in Sessions, Types
  PROVE  /\ head[s] \in Nat /\ Owed(s) \in SUBSET Nat /\ repeated[s] \in SUBSET Nat
         /\ delivered[s] \in Seq(Nat) /\ pending[s] \in Pendings /\ flight[s] \in FlightRecords
         /\ pending[s].cursor \in Nat /\ pending[s].through \in Nat
         /\ pending[s].entries \in Seq(Nat) /\ pending[s].replay \in BOOLEAN
         /\ flight[s].source \in Seq(Nat) /\ flight[s].upper \in Nat
         /\ flight[s].step \in {"none", "replay", "publish"} /\ flight[s].replayed \in BOOLEAN
BY DEF Types, Pendings, FlightRecords, Owed

LEMMA SessionTypesNext ==
  ASSUME NEW s \in Sessions, Types'
  PROVE  /\ head'[s] \in Nat /\ Owed(s)' \in SUBSET Nat /\ repeated'[s] \in SUBSET Nat
         /\ delivered'[s] \in Seq(Nat) /\ pending'[s] \in Pendings /\ flight'[s] \in FlightRecords
BY DEF Types, Owed

LEMMA StillInv == ASSUME NEW s \in Sessions, Types, Types', SessionInv(s), Still(s),
                         flight'[s] \in {flight[s], NoFlight}
                  PROVE SessionInv(s)'
<1>1. NoFlight.step = "none" /\ Owed(s)' = Owed(s)  BY StillOwed DEF NoFlight
<1>2. History(head'[s], Owed(s)', repeated'[s], delivered'[s])
  <2>1. History(head[s], Owed(s), repeated[s], delivered[s])  BY DEF SessionInv, Good
  <2>2. History(head'[s], Owed(s), repeated'[s], delivered[s])
    BY <2>1, SessionTypes, SessionTypesNext, HistoryGrows DEF Still
  <2> QED  BY <1>1, <2>2 DEF Still
<1>3. flight'[s].step = "publish" =>
        Sound(flight'[s].source, head'[s], Owed(s)', repeated'[s], delivered'[s])
  <2>1. SUFFICES ASSUME flight'[s].step = "publish"
                 PROVE Sound(flight'[s].source, head'[s], Owed(s)', repeated'[s], delivered'[s])
    OBVIOUS
  <2>2. flight'[s] = flight[s]  BY <1>1, <2>1
  <2>3. Sound(flight[s].source, head[s], Owed(s), repeated[s], delivered[s])
    BY <2>1, <2>2 DEF SessionInv, Good
  <2>4. Sound(flight[s].source, head'[s], Owed(s), repeated'[s], delivered[s])
    <3>1. /\ flight[s].source \in Seq(Nat) /\ head[s] <= head'[s] /\ repeated[s] \subseteq repeated'[s]
          /\ head[s] \in Nat /\ head'[s] \in Nat /\ delivered[s] \in Seq(Nat)
          /\ Owed(s) \in SUBSET Nat /\ repeated[s] \in SUBSET Nat /\ repeated'[s] \in SUBSET Nat
      BY SessionTypes, SessionTypesNext DEF Still
    <3> QED  BY <2>3, <3>1, SoundGrows
  <2> QED  BY <1>1, <2>2, <2>4 DEF Still
<1>4. ~closed' /\ InMap(s)' =>
        Buffer(pending'[s], head'[s], Owed(s)', repeated'[s], delivered'[s])
  <2>1. SUFFICES ASSUME ~closed', InMap(s)'
                 PROVE  Buffer(pending'[s], head'[s], Owed(s)', repeated'[s], delivered'[s])
    OBVIOUS
  <2>2. Buffer(pending[s], head[s], Owed(s), repeated[s], delivered[s])
    BY <2>1 DEF SessionInv, Good, Still
  <2>3. Buffer(pending'[s], head'[s], Owed(s), repeated'[s], delivered[s])
    BY <2>2, SessionTypes, SessionTypesNext, BufferGrows DEF Still
  <2> QED  BY <1>1, <2>3 DEF Still
<1>5. ~closed' => Remembered(pending'[s], InMap(s)', Owed(s)', delivered'[s])
  BY <1>1 DEF SessionInv, Good, Still, Remembered
<1>6. ~closed' /\ flight'[s] # NoFlight => InMap(s)' /\ Linked(flight'[s], pending'[s], Owed(s)')
  BY <1>1 DEF SessionInv, Good, Still, Linked
<1> QED  BY <1>1, <1>2, <1>3, <1>4, <1>5, <1>6 DEF SessionInv, Good

-------------------------------------------------------------------------------
(* An event that is taken.                                                 *)

LEMMA AppendFacts == ASSUME NEW q \in Seq(Nat), NEW n \in Nat
                     PROVE /\ Append(q, n) \in Seq(Nat)
                           /\ Len(Append(q, n)) = Len(q) + 1
                           /\ \A i \in 1..Len(q) : Append(q, n)[i] = q[i]
                           /\ Append(q, n)[Len(q) + 1] = n
OBVIOUS

(* A new event is larger than all that were taken or published.            *)
LEMMA HistoryOffered ==
  ASSUME NEW h \in Nat, NEW o \in SUBSET Nat, NEW r \in SUBSET Nat, NEW d \in Seq(Nat),
         History(h, o, r, d)
  PROVE  History(h + 1, o \cup {h + 1}, r, d)
<1>1. \A i \in 1..Len(d) : d[i] \in Nat  OBVIOUS
<1> QED  BY <1>1 DEF History

LEMMA SoundOffered ==
  ASSUME NEW h \in Nat, NEW o \in SUBSET Nat, NEW r \in SUBSET Nat, NEW d \in Seq(Nat),
         NEW q \in Seq(Nat), Sound(q, h, o, r, d)
  PROVE  Sound(q, h + 1, o \cup {h + 1}, r, d)
<1>1. \A i \in 1..Len(q) : q[i] \in Nat  OBVIOUS
<1> QED  BY <1>1 DEF Sound

(* What enqueue() makes of a pending session.                              *)
LEMMA BufferedFacts ==
  ASSUME NEW p \in Pendings, NEW n \in Nat, NEW chunk \in BOOLEAN
  PROVE  LET q == Woken(Buffered(p, n), chunk)
         IN /\ q \in Pendings
            /\ q.cursor = p.cursor /\ q.through = n
            /\ \/ q.entries = Append(p.entries, n) /\ ~p.replay /\ ~q.replay
               \/ q.entries = p.entries /\ q.replay
<1> DEFINE b == Buffered(p, n)
<1>1. /\ b \in Pendings /\ b.cursor = p.cursor /\ b.through = n
      /\ \/ b.entries = Append(p.entries, n) /\ ~p.replay /\ ~b.replay
         \/ b.entries = p.entries /\ b.replay
  <2>1. Append(p.entries, n) \in Seq(Nat)  BY AppendFacts DEF Pendings
  <2>2. CASE Fits(p)
    <3>1. b = [p EXCEPT !.through = n, !.entries = Append(p.entries, n)]  BY <2>2 DEF Buffered
    <3> QED  BY <2>1, <2>2, <3>1 DEF Fits, Pendings
  <2>3. CASE ~Fits(p)  BY <2>3 DEF Buffered, Pendings
  <2> QED  BY <2>2, <2>3
<1> HIDE DEF b
<1> DEFINE q == Woken(b, chunk)
<1>2. q \in {b, [b EXCEPT !.readyAt = 0]}  BY DEF Woken
<1> HIDE DEF q
<1>3. /\ q \in Pendings /\ q.cursor = b.cursor /\ q.through = b.through
      /\ q.entries = b.entries /\ q.replay = b.replay
  BY <1>1, <1>2 DEF Pendings
<1>4. /\ q \in Pendings /\ q.cursor = p.cursor /\ q.through = n
      /\ \/ q.entries = Append(p.entries, n) /\ ~p.replay /\ ~q.replay
         \/ q.entries = p.entries /\ q.replay
  BY <1>1, <1>3
<1> QED  BY <1>4 DEF q, b

(* A new event of a session in the map, omitted ...                        *)
LEMMA WithinOmitted ==
  ASSUME NEW h \in Nat, NEW o \in SUBSET Nat, NEW r \in SUBSET Nat, NEW d \in Seq(Nat),
         NEW c \in Nat, NEW t \in Nat, NEW b \in Seq(Nat), Within(c, t, b, h, o, r, d)
  PROVE  Within(c, h + 1, b, h + 1, o \cup {h + 1}, r, d)
<1>1. \A k \in 1..Len(b) : b[k] \in Nat  OBVIOUS
<1>2. Sound(b, h + 1, o \cup {h + 1}, r, d)  BY SoundOffered DEF Within
<1> QED  BY <1>1, <1>2 DEF Within

(* ... or buffered, ...                                                    *)
LEMMA WithinAppended ==
  ASSUME NEW h \in Nat, NEW o \in SUBSET Nat, NEW r \in SUBSET Nat, NEW d \in Seq(Nat),
         NEW c \in Nat, NEW t \in Nat, NEW b \in Seq(Nat), Within(c, t, b, h, o, r, d),
         History(h, o, r, d), \A m \in o : Has(d, m) \/ Has(b, m)
  PROVE  /\ Within(c, h + 1, Append(b, h + 1), h + 1, o \cup {h + 1}, r, d)
         /\ \A m \in o \cup {h + 1} : Has(d, m) \/ Has(Append(b, h + 1), m)
<1> DEFINE e == Append(b, h + 1)
<1>1. /\ e \in Seq(Nat) /\ Len(b) \in Nat /\ Len(e) = Len(b) + 1 /\ e[Len(b) + 1] = h + 1
      /\ \A k \in 1..Len(b) : e[k] = b[k] /\ b[k] \in Nat
  BY AppendFacts
<1>2. \A k \in 1..Len(d) : d[k] \in Nat  OBVIOUS
<1> HIDE DEF e
<1>3. \A k \in 1..Len(e) : k \in 1..Len(b) \/ k = Len(b) + 1  BY <1>1
<1>4. \A k \in 1..Len(b) : c < b[k] /\ b[k] <= t /\ t <= h  BY DEF Within
<1>5. ASSUME NEW k \in 1..Len(e) PROVE c < e[k] /\ e[k] <= h + 1
  <2>1. CASE k \in 1..Len(b)
    <3>1. e[k] = b[k] /\ b[k] \in Nat /\ c < b[k] /\ b[k] <= t /\ t <= h  BY <1>1, <1>4, <2>1
    <3> QED  BY <3>1
  <2>2. CASE k = Len(b) + 1
    <3>1. e[k] = h + 1 /\ c <= t /\ t <= h  BY <1>1, <2>2 DEF Within
    <3> QED  BY <3>1
  <2> QED  BY <1>3, <2>1, <2>2
<1>6. Sound(e, h + 1, o \cup {h + 1}, r, d)
  <2>1. ASSUME NEW j \in 1..Len(e), NEW k \in 1..Len(e), j < k PROVE e[j] < e[k]
    <3>1. CASE k \in 1..Len(b)
      <4>1. j \in 1..Len(b)  BY <1>1, <2>1, <3>1
      <4> QED  BY <1>1, <2>1, <3>1, <4>1 DEF Within, Sound
    <3>2. CASE k = Len(b) + 1
      <4>1. j \in 1..Len(b)  BY <1>1, <2>1, <3>2
      <4> QED  BY <1>1, <1>4, <3>2, <4>1
    <3> QED  BY <1>3, <3>1, <3>2
  <2>2. ASSUME NEW k \in 1..Len(e), Has(d, e[k]) PROVE e[k] \in r
    <3>1. e[k] # h + 1  BY <1>2, <2>2 DEF Has, History
    <3>2. k \in 1..Len(b)  BY <1>1, <1>3, <3>1
    <3> QED  BY <1>1, <2>2, <3>2 DEF Within, Sound
  <2>3. ASSUME NEW k \in 1..Len(e), NEW m \in o \cup {h + 1}, m < e[k]
        PROVE Has(d, m) \/ \E j \in 1..(k - 1) : e[j] = m
    <3>1. m \in o
      <4>1. e[k] \in Nat /\ e[k] <= h + 1  BY <1>1, <1>5
      <4> QED  BY <2>3, <4>1
    <3>2. CASE k \in 1..Len(b)
      <4>1. Has(d, m) \/ \E j \in 1..(k - 1) : b[j] = m
        BY <1>1, <2>3, <3>1, <3>2 DEF Within, Sound
      <4>2. \A j \in 1..(k - 1) : e[j] = b[j]  BY <1>1, <3>2
      <4> QED  BY <4>1, <4>2
    <3>3. CASE k = Len(b) + 1
      <4>1. Has(d, m) \/ \E j \in 1..Len(b) : b[j] = m  BY <3>1 DEF Has
      <4>2. k - 1 = Len(b)  BY <1>1, <3>3
      <4> QED  BY <1>1, <4>1, <4>2
    <3> QED  BY <1>3, <3>2, <3>3
  <2> QED  BY <1>5, <2>1, <2>2, <2>3 DEF Sound
<1>7. ASSUME NEW m \in o \cup {h + 1} PROVE Has(d, m) \/ Has(e, m)
  <2>1. CASE m = h + 1
    <3>1. Len(b) + 1 \in 1..Len(e) /\ e[Len(b) + 1] = m  BY <1>1, <2>1
    <3> QED  BY <3>1 DEF Has
  <2>2. CASE m \in o
    <3>1. Has(b, m) => Has(e, m)
      <4>1. \A j \in 1..Len(b) : j \in 1..Len(e) /\ e[j] = b[j]  BY <1>1
      <4> QED  BY <4>1 DEF Has
    <3> QED  BY <2>2, <3>1
  <2> QED  BY <2>1, <2>2
<1>8. c <= h + 1 /\ \A i \in 1..Len(d) : d[i] <= c \/ d[i] \in r  BY DEF Within
<1>9. Within(c, h + 1, e, h + 1, o \cup {h + 1}, r, d)  BY <1>5, <1>6, <1>8 DEF Within
<1> QED  BY <1>7, <1>9 DEF e

(* ... and of one that was not in the map: whatever was taken before is    *)
(* published.                                                              *)
LEMMA WithinFresh ==
  ASSUME NEW n \in Nat, NEW o \in SUBSET Nat, NEW r \in SUBSET Nat, NEW c \in Nat, n = c + 1,
         NEW d \in Seq(Nat), NEW b \in Seq(Nat), b \in {<<>>, <<n>>},
         \A m \in o : m = n \/ Has(d, m),
         \A i \in 1..Len(d) : d[i] <= c \/ (d[i] = n /\ n \in r)
  PROVE  Within(c, n, b, n, o, r, d)
<1>1. \A k \in 1..Len(d) : d[k] \in Nat  OBVIOUS
<1>2. \A k \in 1..Len(b) : k = 1 /\ b[k] = n
  <2>1. CASE b = <<>>  BY <2>1
  <2>2. CASE b = <<n>>
    <3>1. Len(b) = 1 /\ b[1] = n  BY <2>2
    <3> QED  BY <3>1
  <2> QED  BY <2>1, <2>2
<1>3. Has(d, n) => n \in r  BY <1>1 DEF Has
<1>4. Sound(b, n, o, r, d)  BY <1>2, <1>3 DEF Sound
<1> QED  BY <1>2, <1>4 DEF Within

-------------------------------------------------------------------------------
(* enqueue() and the subscription.                                         *)

Known(s, n) == IF InMap(s) THEN pending[s] ELSE Fresh(n)
Refused(s, n) == (~InMap(s) /\ Len(order) >= MaxPending) \/ n <= Known(s, n).through

(* The two ways through enqueue().                                         *)
LEMMA EnqueueCases ==
  ASSUME NEW s \in Sessions, NEW n \in Nat, n > 0, NEW chunk \in BOOLEAN, Types, Enqueue(s, n, chunk)
  PROVE  /\ ~closed /\ closed' = closed /\ flight' = flight /\ UNCHANGED output
         /\ \/ Refused(s, n) /\ UNCHANGED <<offered, order, pending>>
            \/ /\ ~Refused(s, n)
               /\ offered' = [offered EXCEPT ![s] = @ \cup {n}]
               /\ order' \in Seq(Sessions)
               /\ \A x \in Sessions : InMap(x)' <=> InMap(x) \/ x = s
               /\ pending' = [pending EXCEPT ![s] = Woken(Buffered(Known(s, n), n), chunk)]
<1>1. ~closed /\ closed' = closed /\ flight' = flight /\ UNCHANGED output
  BY DEF Enqueue
<1>2. CASE Refused(s, n)
  BY <1>1, <1>2 DEF Enqueue, Refused, Known, queue
<1>3. CASE ~Refused(s, n)
  <2>1. /\ offered' = [offered EXCEPT ![s] = @ \cup {n}]
        /\ order' = IF InMap(s) THEN order ELSE Append(order, s)
        /\ pending' = [pending EXCEPT ![s] = Woken(Buffered(Known(s, n), n), chunk)]
    BY <1>3 DEF Enqueue, Refused, Known
  <2>2. order \in Seq(Sessions)  BY DEF Types
  <2>3. order' \in Seq(Sessions) /\ \A x \in Sessions : InMap(x)' <=> InMap(x) \/ x = s
    <3>1. CASE InMap(s)  BY <2>1, <2>2, <3>1 DEF InMap
    <3>2. CASE ~InMap(s)  BY <2>1, <2>2, <3>2, Appended DEF InMap
    <3> QED  BY <3>1, <3>2
  <2> QED  BY <1>1, <1>3, <2>1, <2>3
<1> QED  BY <1>2, <1>3

LEMMA KnownFacts ==
  ASSUME NEW s \in Sessions, NEW n \in Nat, n > 0, Types
  PROVE  /\ Known(s, n) \in Pendings
         /\ ~InMap(s) => /\ Known(s, n).cursor = n - 1 /\ Known(s, n).through = n - 1
                         /\ Known(s, n).entries = <<>> /\ ~Known(s, n).replay
         /\ InMap(s) => Known(s, n) = pending[s]
<1>1. ReadyDelay \in Nat  BY BatcherConstants
<1>2. pending[s] \in Pendings  BY DEF Types
<1>3. /\ Fresh(n) \in Pendings /\ Fresh(n).cursor = n - 1 /\ Fresh(n).through = n - 1
      /\ Fresh(n).entries = <<>> /\ ~Fresh(n).replay
  <2>1. /\ NotPending \in Pendings /\ NotPending.entries = <<>> /\ ~NotPending.replay
        /\ n - 1 \in Nat
    BY DEF NotPending, Pendings
  <2> QED  BY <1>1, <2>1 DEF Fresh, Pendings
<1> QED  BY <1>2, <1>3 DEF Known

LEMMA EnqueueTypes ==
  ASSUME NEW s \in Sessions, NEW n \in Nat, n > 0, NEW chunk \in BOOLEAN, Types, Enqueue(s, n, chunk),
         head' \in [Sessions -> Nat], repeated' \in [Sessions -> SUBSET Nat]
  PROVE  Types'
<1>1. /\ flight' = flight /\ delivered' = delivered /\ withheld' = withheld
      /\ \/ UNCHANGED <<offered, order, pending>>
         \/ /\ offered' = [offered EXCEPT ![s] = @ \cup {n}]
            /\ order' \in Seq(Sessions)
            /\ pending' = [pending EXCEPT ![s] = Woken(Buffered(Known(s, n), n), chunk)]
  BY EnqueueCases DEF output
<1>2. Woken(Buffered(Known(s, n), n), chunk) \in Pendings  BY KnownFacts, BufferedFacts
<1>3. CASE UNCHANGED <<offered, order, pending>>  BY <1>1, <1>3 DEF Types
<1>4. CASE /\ offered' = [offered EXCEPT ![s] = @ \cup {n}]
           /\ order' \in Seq(Sessions)
           /\ pending' = [pending EXCEPT ![s] = Woken(Buffered(Known(s, n), n), chunk)]
  <2>1. pending' \in [Sessions -> Pendings]  BY <1>2, <1>4 DEF Types
  <2>2. offered' \in [Sessions -> SUBSET Nat]  BY <1>4 DEF Types
  <2> QED  BY <1>1, <1>4, <2>1, <2>2 DEF Types
<1> QED  BY <1>1, <1>3, <1>4

LEMMA EnqueueOneEach ==
  ASSUME NEW s \in Sessions, NEW n \in Nat, NEW chunk \in BOOLEAN, Types, OneEach,
         Enqueue(s, n, chunk)
  PROVE  OneEach'
<1>1. order' = order \/ (order' = Append(order, s) /\ ~InMap(s))  BY DEF Enqueue, queue
<1>2. order \in Seq(Sessions)  BY DEF Types
<1>3. CASE order' = order  BY <1>3 DEF OneEach
<1>4. CASE order' = Append(order, s) /\ ~InMap(s)
  BY <1>2, <1>4, Appended DEF OneEach, InMap
<1> QED  BY <1>1, <1>3, <1>4

(* Other sessions, and this one when enqueue() leaves the event out.       *)
LEMMA EnqueueStill ==
  ASSUME NEW s \in Sessions, NEW n \in Nat, n > 0, NEW chunk \in BOOLEAN, NEW x \in Sessions,
         Types, Types', SessionInv(x), Enqueue(s, n, chunk), x # s \/ Refused(s, n),
         head[x] <= head'[x], repeated[x] \subseteq repeated'[x]
  PROVE  SessionInv(x)'
<1>1. flight'[x] = flight[x]  BY EnqueueCases
<1>2. Still(x)
  <2>1. offered'[x] = offered[x] /\ pending'[x] = pending[x] /\ (InMap(x)' <=> InMap(x))
    <3>1. CASE Refused(s, n)  BY <3>1, EnqueueCases DEF InMap
    <3>2. CASE ~Refused(s, n)
      <4>1. /\ offered' = [offered EXCEPT ![s] = @ \cup {n}] /\ (InMap(x)' <=> InMap(x) \/ x = s)
            /\ pending' = [pending EXCEPT ![s] = Woken(Buffered(Known(s, n), n), chunk)]
        BY <3>2, EnqueueCases
      <4>2. x # s  BY <3>2
      <4> QED  BY <4>1, <4>2 DEF Types
    <3> QED  BY <3>1, <3>2
  <2> QED  BY <2>1, EnqueueCases DEF Still, output
<1> QED  BY <1>1, <1>2, StillInv

(* The event that is taken is the last one so far.                         *)
LEMMA EnqueueOffers ==
  ASSUME NEW s \in Sessions, NEW n \in Nat, n > 0, NEW chunk \in BOOLEAN, Types, Types', Offers,
         Enqueue(s, n, chunk), n <= head'[s], \A m \in offered[s] : m <= n,
         \A x \in Sessions : head[x] <= head'[x]
  PROVE  Offers'
<1>1. \A x \in Sessions : \A m \in offered[x] : 0 < m /\ m <= head'[x]
  <2>1. \A x \in Sessions : head[x] \in Nat /\ head'[x] \in Nat /\ offered[x] \in SUBSET Nat
    BY DEF Types
  <2>2. ASSUME NEW x \in Sessions, NEW m \in offered[x] PROVE 0 < m /\ m <= head'[x]
    <3>1. 0 < m /\ m <= head[x] /\ head[x] <= head'[x] /\ m \in Nat  BY <2>1 DEF Offers
    <3>2. head[x] \in Nat /\ head'[x] \in Nat  BY <2>1
    <3> QED  BY <3>1, <3>2
  <2> QED  BY <2>2
<1>2. CASE Refused(s, n)
  <2>1. UNCHANGED <<offered, order, pending>>  BY <1>2, EnqueueCases
  <2> QED  BY <1>1, <2>1 DEF Offers, InMap
<1>3. CASE ~Refused(s, n)
  <2> DEFINE q == Woken(Buffered(Known(s, n), n), chunk)
  <2>1. /\ offered' = [offered EXCEPT ![s] = @ \cup {n}] /\ pending' = [pending EXCEPT ![s] = q]
        /\ \A x \in Sessions : InMap(x)' <=> InMap(x) \/ x = s
    BY <1>3, EnqueueCases
  <2>2. q.through = n  BY KnownFacts, BufferedFacts
  <2> HIDE DEF q
  <2>3. /\ offered'[s] = offered[s] \cup {n} /\ pending'[s] = q
        /\ \A x \in Sessions : x # s => offered'[x] = offered[x] /\ pending'[x] = pending[x]
    BY <2>1 DEF Types
  <2>4. ASSUME NEW x \in Sessions, x # s, NEW m \in offered'[x]
        PROVE  0 < m /\ m <= head'[x] /\ (InMap(x)' => m <= pending'[x].through)
    BY <1>1, <2>1, <2>3, <2>4 DEF Offers
  <2>5. ASSUME NEW m \in offered'[s]
        PROVE  0 < m /\ m <= head'[s] /\ m <= pending'[s].through
    BY <1>1, <2>2, <2>3
  <2> QED  BY <2>4, <2>5 DEF Offers
<1> QED  BY <1>2, <1>3

(* Nothing is in flight for a session that is not in the map.              *)
LEMMA NoFlightOutside ==
  ASSUME NEW s \in Sessions, SessionInv(s), ~closed, ~InMap(s)
  PROVE  flight[s] = NoFlight /\ \A m \in Owed(s) : Has(delivered[s], m)
BY DEF SessionInv, Good, Remembered

LEMMA ArrivesInv ==
  ASSUME NEW s \in Sessions, NEW chunk \in BOOLEAN, IInv, EventArrives(s, chunk)
  PROVE  IInv'
<1> DEFINE n == head[s] + 1
<1>1. /\ head[s] \in Nat /\ n \in Nat /\ n > 0 /\ Types
      /\ head' = [head EXCEPT ![s] = n] /\ repeated' = repeated
  BY DEF IInv, Types, EventArrives
<1>2. Enqueue(s, n, chunk)  BY <1>1 DEF EventArrives, Types
<1>3. head'[s] = n /\ \A x \in Sessions : head[x] <= head'[x]  BY <1>1 DEF Types
<1>4. Types'
  <2>1. head' \in [Sessions -> Nat] /\ repeated' \in [Sessions -> SUBSET Nat]  BY <1>1 DEF Types
  <2> QED  BY <1>1, <1>2, <2>1, EnqueueTypes
<1>5. ASSUME NEW x \in Sessions, x # s \/ Refused(s, n) PROVE SessionInv(x)'
  BY <1>1, <1>2, <1>3, <1>4, <1>5, EnqueueStill DEF IInv
<1>6. ASSUME ~Refused(s, n) PROVE SessionInv(s)'
  <2> HIDE DEF n
  <2> DEFINE p == Known(s, n)
             q == Woken(Buffered(p, n), chunk)
             h == head[s]
             o == Owed(s)
             r == repeated[s]
             d == delivered[s]
  <2>1. /\ h \in Nat /\ o \in SUBSET Nat /\ r \in SUBSET Nat /\ d \in Seq(Nat)
        /\ flight[s].source \in Seq(Nat)
    BY <1>1, SessionTypes
  <2>2. /\ ~closed /\ closed' = closed /\ flight'[s] = flight[s] /\ delivered'[s] = d
        /\ Owed(s)' \in SUBSET (o \cup {n}) /\ repeated'[s] = r /\ head'[s] = n
        /\ InMap(s)' /\ pending'[s] = q
    <3>1. /\ ~closed /\ closed' = closed /\ flight' = flight /\ UNCHANGED output
          /\ offered' = [offered EXCEPT ![s] = @ \cup {n}]
          /\ InMap(s)'
          /\ pending' = [pending EXCEPT ![s] = q]
      BY <1>1, <1>2, <1>6, EnqueueCases
    <3>2. offered'[s] = offered[s] \cup {n} /\ pending'[s] = q
      <4> HIDE DEF q
      <4> QED  BY <1>1, <3>1 DEF Types
    <3>3. Owed(s)' \in SUBSET (o \cup {n}) /\ delivered'[s] = d  BY <3>1, <3>2 DEF Owed, output
    <3> QED  BY <1>1, <1>3, <3>1, <3>2, <3>3
  <2>3. /\ p \in Pendings /\ q \in Pendings /\ q.cursor = p.cursor /\ q.through = n
        /\ \/ q.entries = Append(p.entries, n) /\ ~p.replay /\ ~q.replay
           \/ q.entries = p.entries /\ q.replay
    BY <1>1, KnownFacts, BufferedFacts
  <2>4. Good(flight[s], pending[s], InMap(s), h, o, r, d)  BY DEF IInv, SessionInv
  <2>5. p.cursor \in Nat /\ p.through \in Nat /\ p.entries \in Seq(Nat)  BY <2>3 DEF Pendings
  <2>6. n = h + 1  BY DEF n
  <2> HIDE DEF p, q, h, o, r, d
  <2>7. History(h, o, r, d)  BY <2>4 DEF Good
  <2>8. History(n, o \cup {n}, r, d)  BY <2>1, <2>6, <2>7, HistoryOffered
  <2>9. flight[s].step = "publish" => Sound(flight[s].source, n, o \cup {n}, r, d)
    BY <2>1, <2>4, <2>6, SoundOffered DEF Good
  <2>12. ASSUME Buffer(q, n, o \cup {n}, r, d), Remembered(q, TRUE, o \cup {n}, d),
                flight[s] # NoFlight => Linked(flight[s], q, o \cup {n})
         PROVE  SessionInv(s)'
    <3> DEFINE o2 == Owed(s)'
    <3>1. o2 \in SUBSET (o \cup {n})  BY <2>2
    <3> HIDE DEF o2
    <3>2. /\ History(n, o2, r, d) /\ Buffer(q, n, o2, r, d) /\ Remembered(q, TRUE, o2, d)
          /\ flight[s] # NoFlight => Linked(flight[s], q, o2)
          /\ flight[s].step = "publish" => Sound(flight[s].source, n, o2, r, d)
      BY <2>8, <2>9, <2>12, <3>1, Shrinks
    <3> QED  BY <2>2, <2>4, <3>2 DEF SessionInv, Good, o2
  <2>10. CASE InMap(s)
    <3>1. p = pending[s]  BY <1>1, <2>10, KnownFacts DEF p
    <3>2. Buffer(p, h, o, r, d) /\ Remembered(p, TRUE, o, d)
      BY <2>2, <2>4, <2>10, <3>1 DEF Good
    <3>3. Within(p.cursor, p.through, p.entries, h, o, r, d)  BY <3>2 DEF Buffer
    <3>4. Buffer(q, n, o \cup {n}, r, d)
      <4>1. CASE q.entries = p.entries /\ q.replay
        <5>1. Within(p.cursor, n, p.entries, n, o \cup {n}, r, d)
          BY <2>1, <2>5, <2>6, <3>3, WithinOmitted
        <5> QED  BY <2>3, <4>1, <5>1 DEF Buffer
      <4>2. CASE q.entries = Append(p.entries, n) /\ ~p.replay /\ ~q.replay
        <5>1. \A m \in o : Has(d, m) \/ Has(p.entries, m)  BY <3>2, <4>2 DEF Buffer, Remembered
        <5>2. /\ Within(p.cursor, n, Append(p.entries, n), n, o \cup {n}, r, d)
              /\ \A m \in o \cup {n} : Has(d, m) \/ Has(Append(p.entries, n), m)
          BY <2>1, <2>5, <2>6, <2>7, <3>3, <5>1, WithinAppended
        <5> QED  BY <2>3, <4>2, <5>2 DEF Buffer
      <4> QED  BY <2>3, <4>1, <4>2
    <3>5. Remembered(q, TRUE, o \cup {n}, d)
      <4>1. p.cursor <= p.through /\ p.through <= h  BY <3>3 DEF Within
      <4> QED  BY <2>1, <2>3, <2>5, <2>6, <3>2, <4>1 DEF Remembered
    <3>6. flight[s] # NoFlight => Linked(flight[s], q, o \cup {n})
      <4>1. SUFFICES ASSUME flight[s] # NoFlight PROVE Linked(flight[s], q, o \cup {n})
        OBVIOUS
      <4>2. Linked(flight[s], p, o)  BY <2>2, <2>4, <3>1, <4>1 DEF Good
      <4>3. p.through < n  BY <2>1, <2>5, <2>6, <3>3 DEF Within
      <4>4. flight[s].upper \in Nat  BY <1>1, SessionTypes
      <4>5. /\ Len(p.entries) <= Len(q.entries)
            /\ \A k \in 1..Len(p.entries) : q.entries[k] = p.entries[k]
            /\ Len(p.entries) \in Nat /\ Len(q.entries) \in Nat /\ Len(flight[s].source) \in Nat
            /\ p.replay => q.replay /\ q.entries = p.entries
        <5>1. Len(p.entries) \in Nat /\ Len(flight[s].source) \in Nat  BY <2>1, <2>5
        <5>2. CASE q.entries = p.entries /\ q.replay  BY <5>1, <5>2
        <5>3. CASE q.entries = Append(p.entries, n) /\ ~p.replay /\ ~q.replay
          <6>1. /\ Len(Append(p.entries, n)) = Len(p.entries) + 1
                /\ \A k \in 1..Len(p.entries) : Append(p.entries, n)[k] = p.entries[k]
            BY <1>1, <2>5, AppendFacts
          <6> QED  BY <5>1, <5>3, <6>1
        <5> QED  BY <2>3, <5>2, <5>3
      <4>6. CASE flight[s].replayed
        <5>1. q.replay /\ q.entries = <<>> /\ q.cursor = p.cursor /\ q.through = n
          BY <2>3, <4>2, <4>5, <4>6 DEF Linked
        <5>2. flight[s].upper < n  BY <1>1, <2>5, <4>2, <4>3, <4>4, <4>6 DEF Linked
        <5>3. Covers(flight[s].source, p.cursor, flight[s].upper, o)
              => Covers(flight[s].source, p.cursor, flight[s].upper, o \cup {n})
          BY <1>1, <4>4, <5>2 DEF Covers
        <5>4. flight[s].upper <= n  BY <1>1, <4>4, <5>2
        <5> QED  BY <4>2, <4>6, <5>1, <5>3, <5>4 DEF Linked
      <4>7. CASE ~flight[s].replayed
        <5>1. /\ Len(flight[s].source) <= Len(p.entries)
              /\ \A k \in 1..Len(flight[s].source) : flight[s].source[k] = p.entries[k]
          BY <4>2, <4>7 DEF Linked
        <5>2. \A k \in 1..Len(flight[s].source) : k \in 1..Len(p.entries)  BY <4>5, <5>1
        <5>3. Len(flight[s].source) <= Len(q.entries)  BY <4>5, <5>1
        <5>4. \A k \in 1..Len(flight[s].source) : flight[s].source[k] = q.entries[k]
          BY <4>5, <5>1, <5>2
        <5> QED  BY <4>7, <5>3, <5>4 DEF Linked
      <4> QED  BY <4>6, <4>7
    <3> QED  BY <2>12, <3>4, <3>5, <3>6
  <2>11. CASE ~InMap(s)
    <3>1. flight[s] = NoFlight /\ \A m \in o : Has(d, m)
      BY <2>2, <2>11, NoFlightOutside DEF IInv, o, d
    <3>2. p.cursor = h /\ p.entries = <<>> /\ ~p.replay
      <4>1. Known(s, n).cursor = n - 1 /\ Known(s, n).entries = <<>> /\ ~Known(s, n).replay
        BY <1>1, <2>11, KnownFacts
      <4>2. n - 1 = h  BY <2>1, <2>6
      <4> QED  BY <4>1, <4>2 DEF p
    <3>3. q.entries \in Seq(Nat) /\ (q.entries = <<n>> \/ (q.entries = <<>> /\ q.replay))
      <4>1. q.entries \in Seq(Nat)  BY <2>3 DEF Pendings
      <4>2. Append(<<>>, n) = <<n>>  BY <1>1
      <4>3. CASE q.entries = p.entries /\ q.replay  BY <3>2, <4>1, <4>3
      <4>4. CASE q.entries = Append(p.entries, n)
        <5>1. q.entries = <<n>>  BY <3>2, <4>2, <4>4
        <5>2. q.entries = <<n>> \/ (q.entries = <<>> /\ q.replay)  BY <5>1
        <5> QED  BY <4>1, <5>2
      <4> QED  BY <2>3, <4>3, <4>4
    <3>4. Within(h, n, q.entries, n, o \cup {n}, r, d)
      <4>1. \A i \in 1..Len(d) : d[i] <= h  BY <2>7 DEF History
      <4> QED  BY <1>1, <2>1, <2>6, <3>1, <3>3, <4>1, WithinFresh
    <3>5. \A m \in o \cup {n} : Has(d, m) \/ m = n  BY <3>1
    <3>6. Has(<<n>>, n)  BY DEF Has
    <3>7. Buffer(q, n, o \cup {n}, r, d)  BY <2>3, <3>2, <3>3, <3>4, <3>5, <3>6 DEF Buffer
    <3>8. Remembered(q, TRUE, o \cup {n}, d)
      BY <2>1, <2>3, <2>6, <3>2, <3>5 DEF Remembered
    <3> QED  BY <2>12, <3>1, <3>7, <3>8
  <2> QED  BY <2>10, <2>11
<1>7. OneEach'  BY <1>1, <1>2, EnqueueOneEach DEF IInv
<1>8. Offers'
  <2>1. \A m \in offered[s] : m <= head[s] /\ m \in Nat  BY <1>1 DEF IInv, Offers, Types
  <2>2. \A m \in offered[s] : m <= n  BY <1>1, <2>1
  <2>3. n <= head'[s]  BY <1>1, <1>3
  <2> HIDE DEF n
  <2> QED  BY <1>1, <1>2, <1>3, <1>4, <2>2, <2>3, EnqueueOffers DEF IInv
<1> QED  BY <1>4, <1>5, <1>6, <1>7, <1>8 DEF IInv

(* A repeated event is refused while its session is pending; otherwise it  *)
(* was published before, and is taken once more.                           *)
LEMMA RepeatsInv ==
  ASSUME NEW s \in Sessions, NEW chunk \in BOOLEAN, IInv, EventRepeats(s, chunk)
  PROVE  IInv'
<1> DEFINE n == head[s]
           o == Owed(s)
           r == repeated[s]
           d == delivered[s]
<1>1. Types /\ Offers /\ SessionInv(s)  BY DEF IInv
<1>2. /\ n \in Nat /\ n \in offered[s] /\ n \notin r /\ Enqueue(s, n, chunk)
      /\ head' = head /\ repeated' = [repeated EXCEPT ![s] = @ \cup {n}]
  BY <1>1 DEF EventRepeats, Types
<1>3. o \in SUBSET Nat /\ r \in SUBSET Nat /\ d \in Seq(Nat)  BY <1>1, SessionTypes
<1>4. History(n, o, r, d)  BY <1>1 DEF SessionInv, Good
<1>5. n > 0  BY <1>1, <1>2 DEF Offers
<1>6. repeated'[s] = r \cup {n} /\ \A x \in Sessions : repeated[x] \subseteq repeated'[x]
  BY <1>1, <1>2 DEF Types
<1>7. Types'
  <2>1. head' \in [Sessions -> Nat] /\ repeated' \in [Sessions -> SUBSET Nat]
    BY <1>1, <1>2 DEF Types
  <2> QED  BY <1>1, <1>2, <1>5, <2>1, EnqueueTypes
<1>8. ASSUME NEW x \in Sessions, x # s \/ Refused(s, n) PROVE SessionInv(x)'
  <2>1. SessionInv(x) /\ head[x] \in Nat /\ head'[x] = head[x]  BY <1>1, <1>2, SessionTypes DEF IInv
  <2>2. head[x] <= head'[x]  BY <2>1
  <2> QED  BY <1>1, <1>2, <1>5, <1>6, <1>7, <1>8, <2>1, <2>2, EnqueueStill
<1>9. ASSUME ~Refused(s, n) PROVE SessionInv(s)'
  <2> DEFINE p == Known(s, n)
             q == Woken(Buffered(p, n), chunk)
  <2>1. /\ ~closed /\ closed' = closed /\ flight' = flight /\ delivered' = delivered
        /\ offered' = [offered EXCEPT ![s] = @ \cup {n}]
        /\ InMap(s)'
        /\ pending' = [pending EXCEPT ![s] = q]
    BY <1>1, <1>2, <1>5, <1>9, EnqueueCases DEF output
  <2>2. Owed(s)' = o /\ pending'[s] = q
    <3>1. UNCHANGED withheld  BY <1>1, <1>2, <1>5, EnqueueCases DEF output
    <3> HIDE DEF q
    <3>2. offered'[s] = offered[s] /\ pending'[s] = q  BY <1>1, <1>2, <2>1 DEF Types
    <3> QED  BY <3>1, <3>2 DEF Owed
  <2>3. ~InMap(s)
    <3>1. SUFFICES ASSUME InMap(s) PROVE FALSE  OBVIOUS
    <3>5. n <= pending[s].through  BY <1>1, <1>2, <3>1 DEF Offers
    <3>6. Known(s, n) = pending[s]  BY <3>1 DEF Known
    <3> QED  BY <1>9, <3>5, <3>6 DEF Refused
  <2>4. flight[s] = NoFlight /\ \A m \in o : Has(d, m)  BY <1>1, <2>1, <2>3, NoFlightOutside
  <2>5. /\ p \in Pendings /\ q \in Pendings /\ q.cursor = p.cursor /\ q.through = n
        /\ \/ q.entries = Append(p.entries, n) /\ ~p.replay /\ ~q.replay
           \/ q.entries = p.entries /\ q.replay
    <3> HIDE DEF n
    <3>1. p \in Pendings  BY <1>1, <1>2, <1>5, KnownFacts
    <3> HIDE DEF p
    <3> QED  BY <1>2, <3>1, BufferedFacts
  <2>6. p.cursor = n - 1 /\ p.entries = <<>> /\ ~p.replay
    BY <1>1, <1>2, <1>5, <2>3, KnownFacts
  <2>7. History(n, o, r \cup {n}, d)
    <3>1. r \cup {n} \in SUBSET Nat /\ r \subseteq r \cup {n} /\ n <= n  BY <1>2, <1>3
    <3> QED  BY <1>2, <1>3, <1>4, <3>1, HistoryGrows
  <2> HIDE DEF p, q, n, o, r, d
  <2>8. q.entries \in {<<>>, <<n>>} /\ q.entries \in Seq(Nat)
    <3>1. q.entries \in Seq(Nat)  BY <2>5 DEF Pendings
    <3>2. Append(<<>>, n) = <<n>>  BY <1>2
    <3>3. CASE q.entries = p.entries  BY <2>6, <3>1, <3>3
    <3>4. CASE q.entries = Append(p.entries, n)
      <4>1. q.entries = <<n>>  BY <2>6, <3>2, <3>4
      <4> QED  BY <3>1, <4>1
    <3> QED  BY <2>5, <3>3, <3>4
  <2>9. Within(n - 1, n, q.entries, n, o, r \cup {n}, d)
    <3>1. n - 1 \in Nat /\ n = (n - 1) + 1 /\ r \cup {n} \in SUBSET Nat  BY <1>2, <1>3, <1>5
    <3>2. \A i \in 1..Len(d) : d[i] <= n - 1 \/ (d[i] = n /\ n \in r \cup {n})
      <4>1. \A i \in 1..Len(d) : d[i] \in Nat /\ d[i] <= n  BY <1>3, <1>4 DEF History
      <4> QED  BY <1>2, <4>1
    <3>3. \A m \in o : m = n \/ Has(d, m)  BY <2>4
    <3> QED  BY <1>2, <1>3, <2>8, <3>1, <3>2, <3>3, WithinFresh
  <2>10. Buffer(q, n, o, r \cup {n}, d)  BY <2>4, <2>5, <2>6, <2>9 DEF Buffer
  <2>11. Remembered(q, TRUE, o, d)  BY <2>4 DEF Remembered
  <2>12. /\ head'[s] = n /\ repeated'[s] = r \cup {n} /\ Owed(s)' = o /\ delivered'[s] = d
         /\ flight'[s] = NoFlight /\ pending'[s] = q
    BY <1>2, <1>6, <2>1, <2>2, <2>4 DEF n, r, d
  <2>13. NoFlight.step = "none"  BY DEF NoFlight
  <2> QED  BY <2>1, <2>7, <2>10, <2>11, <2>12, <2>13 DEF SessionInv, Good
<1>10. OneEach'  BY <1>1, <1>2, EnqueueOneEach DEF IInv
<1>11. Offers'
  <2>1. \A m \in offered[s] : m <= n  BY <1>1 DEF Offers
  <2>2. \A x \in Sessions : head[x] <= head'[x]
    <3>1. \A x \in Sessions : head[x] \in Nat /\ head'[x] = head[x]  BY <1>1, <1>2, SessionTypes
    <3> QED  BY <3>1
  <2>3. n <= head'[s]  BY <1>2
  <2> HIDE DEF n
  <2> QED  BY <1>1, <1>2, <1>5, <1>7, <2>1, <2>2, <2>3, EnqueueOffers
<1> QED  BY <1>7, <1>8, <1>9, <1>10, <1>11 DEF IInv

LEMMA MissedInv == ASSUME NEW s \in Sessions, IInv, EventMissed(s) PROVE IInv'
<1>1. Types /\ OneEach /\ Offers  BY DEF IInv
<1>2. /\ head' = [head EXCEPT ![s] = @ + 1]
      /\ UNCHANGED <<offered, repeated, order, pending, flight, closed, delivered, withheld>>
  BY DEF EventMissed, queue, output
<1>3. Types' /\ OneEach'  BY <1>1, <1>2 DEF Types, OneEach
<1>4. ASSUME NEW x \in Sessions PROVE Still(x) /\ SessionInv(x)'
  <2>1. head[x] <= head'[x]  BY <1>1, <1>2 DEF Types
  <2>2. Still(x) /\ flight'[x] = flight[x]  BY <1>2, <2>1 DEF Still, InMap
  <2> QED  BY <1>1, <1>3, <2>2, StillInv DEF IInv
<1>5. Offers'  BY <1>1, <1>3, <1>4, OffersStill
<1> QED  BY <1>3, <1>4, <1>5 DEF IInv

-------------------------------------------------------------------------------
(* consume() begins.                                                       *)

LEMMA ConsumeTypes == ASSUME NEW p \in Pendings PROVE Consume(p) \in FlightRecords
<1>1. /\ p.through \in Nat /\ p.cursor + BatchItems \in Nat /\ p.entries \in Seq(Nat)
  BY BatcherConstants DEF Pendings
<1>2. Min({p.through, p.cursor + BatchItems}) \in Nat  BY <1>1, MinPair
<1>3. <<>> \in Seq(Nat)  OBVIOUS
<1>4. CASE p.entries = <<>> /\ p.replay  BY <1>2, <1>3, <1>4 DEF Consume, FlightRecords
<1>5. CASE ~(p.entries = <<>> /\ p.replay)  BY <1>1, <1>5 DEF Consume, FlightRecords
<1> QED  BY <1>4, <1>5

LEMMA ConsumeLinked == ASSUME NEW p \in Pendings, NEW o PROVE Linked(Consume(p), p, o)
<1>1. /\ p.through \in Nat /\ p.cursor + BatchItems \in Nat /\ p.entries \in Seq(Nat)
      /\ Len(p.entries) \in Nat
  BY BatcherConstants DEF Pendings
<1>2. Min({p.through, p.cursor + BatchItems}) <= p.through  BY <1>1, MinPair
<1>4. CASE p.entries = <<>> /\ p.replay  BY <1>2, <1>4 DEF Consume, Linked
<1>5. CASE ~(p.entries = <<>> /\ p.replay)  BY <1>1, <1>5 DEF Consume, Linked
<1> QED  BY <1>4, <1>5

LEMMA DrainedFacts ==
  ASSUME Types, NEW p, NEW s \in Sessions
  PROVE  /\ DOMAIN Drained(p) = Sessions
         /\ \/ Drained(p)[s] = flight[s]
            \/ Drained(p)[s] = Consume(p[s]) /\ flight[s] = NoFlight /\ InMap(s)
<1> DEFINE due == {i \in DOMAIN order : flight[order[i]] = NoFlight /\ DueIn(p[order[i]]) = 0}
           busy == Cardinality(Flights(flight))
           begun == {order[i] : i \in {j \in due : busy + Cardinality({k \in due : k < j}) < MaxFlights}}
<1>1. Drained(p) = [x \in Sessions |-> IF x \in begun THEN Consume(p[x]) ELSE flight[x]]
  BY DEF Drained
<1>2. s \in begun => flight[s] = NoFlight /\ InMap(s)
  <2>1. \A i \in due : flight[order[i]] = NoFlight /\ i \in DOMAIN order  OBVIOUS
  <2>2. s \in begun => \E i \in due : s = order[i]  OBVIOUS
  <2> HIDE DEF due, begun
  <2> QED  BY <2>1, <2>2 DEF InMap, Range
<1> HIDE DEF begun
<1> QED  BY <1>1, <1>2

(* A step that starts flights and leaves the session where it is.          *)
LEMMA DrainInv ==
  ASSUME NEW s \in Sessions, Types, Types', SessionInv(s), Still(s), ~closed,
         \/ flight'[s] = flight[s]
         \/ flight'[s] = Consume(pending'[s]) /\ flight[s] = NoFlight /\ InMap(s)
  PROVE  SessionInv(s)'
<1>1. CASE flight'[s] = flight[s]  BY <1>1, StillInv
<1>2. CASE flight'[s] = Consume(pending'[s]) /\ flight[s] = NoFlight /\ InMap(s)
  <2> DEFINE h == head'[s]
             o == Owed(s)'
             r == repeated'[s]
             d == delivered'[s]
             p == pending'[s]
  <2>1. p \in Pendings /\ p.entries \in Seq(Nat)  BY SessionTypesNext DEF Pendings
  <2>2. InMap(s)' /\ ~closed' /\ Owed(s)' = Owed(s)  BY <1>2, StillOwed DEF Still
  <2>3. History(h, o, r, d)
    <3>1. History(head[s], Owed(s), repeated[s], delivered[s])  BY DEF SessionInv, Good
    <3>2. History(h, Owed(s), r, delivered[s])
      BY <3>1, SessionTypes, SessionTypesNext, HistoryGrows DEF Still
    <3> QED  BY <2>2, <3>2 DEF Still
  <2>4. Buffer(p, h, o, r, d)
    <3>1. Buffer(pending[s], head[s], Owed(s), repeated[s], delivered[s])
      BY <1>2 DEF SessionInv, Good
    <3>2. Buffer(p, h, Owed(s), r, delivered[s])
      BY <3>1, SessionTypes, SessionTypesNext, BufferGrows DEF Still
    <3> QED  BY <2>2, <3>2 DEF Still
  <2>5. Remembered(p, TRUE, o, d)  BY <1>2, <2>2 DEF SessionInv, Good, Still, Remembered
  <2>6. Linked(Consume(p), p, o)  BY <2>1, ConsumeLinked
  <2>7. Sound(p.entries, h, o, r, d)  BY <2>4 DEF Buffer, Within
  <2>8. /\ Consume(p).step = "publish" => Consume(p).source = p.entries
        /\ Consume(p).step = "replay" => Consume(p).replayed
        /\ Consume(p).step # "none"
    BY DEF Consume
  <2>9. flight'[s] = Consume(p)  BY <1>2
  <2> QED  BY <2>2, <2>3, <2>4, <2>5, <2>6, <2>7, <2>8, <2>9 DEF SessionInv, Good
<1> QED  BY <1>1, <1>2

(* Timers, ticks and the flush loop: no session moves but by a flight that *)
(* begins.                                                                 *)
LEMMA LoopInv ==
  ASSUME IInv, UNCHANGED <<host, order, closed, output>>,
         pending' \in [Sessions -> Pendings],
         \A s \in Sessions :
             /\ pending'[s].cursor = pending[s].cursor /\ pending'[s].through = pending[s].through
             /\ pending'[s].entries = pending[s].entries /\ pending'[s].replay = pending[s].replay,
         flight' = flight \/ (~closed /\ flight' = Drained(pending'))
  PROVE  IInv'
<1>1. Types /\ OneEach /\ Offers  BY DEF IInv
<1>2. UNCHANGED <<head, offered, repeated, order, closed, delivered, withheld>>  BY DEF host, output
<1>3. flight' \in [Sessions -> FlightRecords]
  <2>1. CASE flight' = flight  BY <1>1, <2>1 DEF Types
  <2>2. CASE flight' = Drained(pending')
    <3>1. DOMAIN flight' = Sessions /\ flight' = [s \in Sessions |-> flight'[s]]
      BY <1>1, <2>2, DrainedFacts DEF Drained
    <3>2. ASSUME NEW s \in Sessions PROVE flight'[s] \in FlightRecords
      <4>1. Consume(pending'[s]) \in FlightRecords /\ flight[s] \in FlightRecords
        BY <1>1, ConsumeTypes DEF Types
      <4> QED  BY <1>1, <2>2, <4>1, DrainedFacts
    <3> QED  BY <3>1, <3>2
  <2> QED  BY <2>1, <2>2
<1>4. Types'  BY <1>1, <1>2, <1>3 DEF Types
<1>5. OneEach'  BY <1>1, <1>2 DEF OneEach
<1>6. ASSUME NEW s \in Sessions PROVE Still(s) /\ SessionInv(s)'
  <2>1. head[s] <= head'[s]
    <3>1. head[s] \in Nat /\ head'[s] = head[s]  BY <1>1, <1>2, SessionTypes
    <3> QED  BY <3>1
  <2>2. Still(s)  BY <1>2, <2>1 DEF Still, InMap
  <2>3. SessionInv(s)  BY DEF IInv
  <2>4. CASE flight' = flight
    <3>1. flight'[s] = flight[s]  BY <2>4
    <3> QED  BY <1>1, <1>4, <2>2, <2>3, <3>1, StillInv
  <2>5. CASE ~closed /\ flight' = Drained(pending')
    <3>1. \/ flight'[s] = flight[s]
          \/ flight'[s] = Consume(pending'[s]) /\ flight[s] = NoFlight /\ InMap(s)
      BY <1>1, <2>5, DrainedFacts
    <3> QED  BY <1>1, <1>4, <2>2, <2>3, <2>5, <3>1, DrainInv
  <2> QED  BY <2>2, <2>4, <2>5
<1>7. Offers'  BY <1>1, <1>4, <1>6, OffersStill
<1> QED  BY <1>4, <1>5, <1>6, <1>7 DEF IInv

LEMMA TimerInv == IInv /\ TimerFires => IInv'
<1> SUFFICES ASSUME IInv, TimerFires PROVE IInv'  OBVIOUS
<1>1. /\ UNCHANGED <<host, order, closed, output>> /\ pending' = pending
      /\ ~closed /\ flight' = Drained(pending')
  BY DEF TimerFires, queue
<1>2. pending' \in [Sessions -> Pendings]  BY <1>1 DEF IInv, Types
<1> QED  BY <1>1, <1>2, LoopInv

LEMMA TickInv == IInv /\ Tick => IInv'
<1> SUFFICES ASSUME IInv, Tick PROVE IInv'  OBVIOUS
<1>1. /\ UNCHANGED <<host, order, closed, output, flight>>
      /\ pending' = [s \in Sessions |->
             [pending[s] EXCEPT !.readyAt = Left(@), !.retryAt = Left(@)]]
  BY DEF Tick
<1>2. ASSUME NEW p \in Pendings
      PROVE  LET q == [p EXCEPT !.readyAt = Left(@), !.retryAt = Left(@)]
             IN /\ q \in Pendings /\ q.cursor = p.cursor /\ q.through = p.through
                /\ q.entries = p.entries /\ q.replay = p.replay
  <2>1. Left(p.readyAt) \in Nat /\ Left(p.retryAt) \in Nat  BY DEF Pendings, Left
  <2> QED  BY <2>1 DEF Pendings
<1>3. pending \in [Sessions -> Pendings]  BY DEF IInv, Types
<1>4. /\ pending' \in [Sessions -> Pendings]
      /\ \A s \in Sessions :
             /\ pending'[s].cursor = pending[s].cursor /\ pending'[s].through = pending[s].through
             /\ pending'[s].entries = pending[s].entries /\ pending'[s].replay = pending[s].replay
  BY <1>1, <1>2, <1>3
<1> QED  BY <1>1, <1>4, LoopInv

LEMMA FlushInv == IInv /\ Flush => IInv'
<1> SUFFICES ASSUME IInv, Flush PROVE IInv'  OBVIOUS
<1>1. /\ UNCHANGED <<host, order, closed, output>> /\ ~closed
      /\ pending' = [s \in Sessions |-> [pending[s] EXCEPT !.readyAt = 0]]
      /\ flight' = Drained(pending')
  BY DEF Flush, FlushLoop
<1>2. ASSUME NEW p \in Pendings
      PROVE  LET q == [p EXCEPT !.readyAt = 0]
             IN /\ q \in Pendings /\ q.cursor = p.cursor /\ q.through = p.through
                /\ q.entries = p.entries /\ q.replay = p.replay
  BY DEF Pendings
<1>3. pending \in [Sessions -> Pendings]  BY DEF IInv, Types
<1>4. /\ pending' \in [Sessions -> Pendings]
      /\ \A s \in Sessions :
             /\ pending'[s].cursor = pending[s].cursor /\ pending'[s].through = pending[s].through
             /\ pending'[s].entries = pending[s].entries /\ pending'[s].replay = pending[s].replay
  BY <1>1, <1>2, <1>3
<1> QED  BY <1>1, <1>4, LoopInv

LEMMA FlushGoesOnInv == IInv /\ FlushGoesOn => IInv'
<1> SUFFICES ASSUME IInv, FlushGoesOn PROVE IInv'  OBVIOUS
<1>1. /\ UNCHANGED <<host, order, closed, output>> /\ pending' = pending
      /\ flight' = flight \/ (~closed /\ flight' = Drained(pending'))
  BY DEF FlushGoesOn, FlushLoop, queue
<1>2. pending' \in [Sessions -> Pendings]  BY <1>1 DEF IInv, Types
<1> QED  BY <1>1, <1>2, LoopInv

(* close() empties the map; the batches that are out keep their order.     *)
LEMMA CloseInv == IInv /\ Close => IInv'
<1> SUFFICES ASSUME IInv, Close PROVE IInv'  OBVIOUS
<1>1. /\ UNCHANGED <<head, offered, repeated, flight, delivered, withheld>> /\ closed'
      /\ order' = <<>> /\ pending' = [s \in Sessions |-> NotPending]
  BY DEF Close, host, output
<1>2. NotPending \in Pendings  BY DEF NotPending, Pendings
<1>3. Types' /\ OneEach'  BY <1>1, <1>2 DEF IInv, Types, OneEach
<1>5. Offers'  BY <1>1 DEF IInv, Offers, InMap, Range
<1>4. ASSUME NEW s \in Sessions PROVE SessionInv(s)'
  BY <1>1 DEF IInv, SessionInv, Good, Owed
<1> QED  BY <1>3, <1>4, <1>5 DEF IInv

-------------------------------------------------------------------------------
(* consume() goes on.                                                      *)

LEMMA FailsInv == ASSUME NEW s \in Sessions, IInv, Fails(s) \/ ReplayAfterClose(s) PROVE IInv'
<1>1. Types /\ OneEach /\ Offers  BY DEF IInv
<1>2. /\ UNCHANGED <<head, offered, repeated, order, closed, delivered, withheld>>
      /\ flight' = [flight EXCEPT ![s] = NoFlight]
      /\ pending' = pending \/ pending' = [pending EXCEPT ![s].retryAt = RetryDelay]
  BY DEF Fails, ReplayAfterClose, Ends, host, queue, output
<1>3. NoFlight \in FlightRecords  BY DEF NoFlight, FlightRecords
<1>4. flight' \in [Sessions -> FlightRecords]  BY <1>1, <1>2, <1>3 DEF Types
<1>5. /\ pending' \in [Sessions -> Pendings]
      /\ \A x \in Sessions :
             /\ pending'[x].cursor = pending[x].cursor /\ pending'[x].through = pending[x].through
             /\ pending'[x].entries = pending[x].entries /\ pending'[x].replay = pending[x].replay
  <2>1. pending \in [Sessions -> Pendings] /\ RetryDelay \in Nat
    BY <1>1, BatcherConstants DEF Types
  <2>2. CASE pending' = pending  BY <2>1, <2>2
  <2>3. CASE pending' = [pending EXCEPT ![s].retryAt = RetryDelay]
    <3>1. \A x \in Sessions : x # s => pending'[x] = pending[x]  BY <2>1, <2>3
    <3>2. pending'[s] = [pending[s] EXCEPT !.retryAt = RetryDelay]  BY <2>1, <2>3
    <3>3. pending[s] \in Pendings  BY <2>1
    <3>4. /\ pending'[s] \in Pendings
          /\ pending'[s].cursor = pending[s].cursor /\ pending'[s].through = pending[s].through
          /\ pending'[s].entries = pending[s].entries /\ pending'[s].replay = pending[s].replay
      BY <2>1, <3>2, <3>3 DEF Pendings
    <3>5. pending' = [x \in Sessions |-> pending'[x]]  BY <2>1, <2>3
    <3>6. \A x \in Sessions : pending'[x] \in Pendings  BY <2>1, <3>1, <3>4
    <3> QED  BY <3>1, <3>4, <3>5, <3>6
  <2> QED  BY <1>2, <2>2, <2>3
<1>6. Types' /\ OneEach'  BY <1>1, <1>2, <1>4, <1>5 DEF Types, OneEach
<1>7. ASSUME NEW x \in Sessions PROVE Still(x) /\ SessionInv(x)'
  <2>1. head[x] <= head'[x]
    <3>1. head[x] \in Nat /\ head'[x] = head[x]  BY <1>1, <1>2, SessionTypes
    <3> QED  BY <3>1
  <2>2. Still(x)  BY <1>2, <1>5, <2>1 DEF Still, InMap
  <2>3. flight'[x] \in {flight[x], NoFlight}  BY <1>1, <1>2 DEF Types
  <2> QED  BY <1>1, <1>6, <2>2, <2>3, StillInv DEF IInv
<1>8. Offers'  BY <1>1, <1>6, <1>7, OffersStill
<1> QED  BY <1>6, <1>7, <1>8 DEF IInv

(* A page of the history: a sequence, whose events ascend behind the cursor *)
(* and which holds all of its range that is still owed.                     *)
LEMMA PageFacts ==
  ASSUME NEW s \in Sessions, NEW page \in Pages(s)
  PROVE  /\ page.throughSeq \in Nat /\ page.entries \in Seq(Nat)
         /\ DOMAIN page.entries = 1..Len(page.entries)
<1>1. MaxSeq[s] \in Nat  BY BatcherConstants
<1>2. page.throughSeq \in Nat  BY <1>1 DEF Pages
<1>3. PICK n \in 0..BatchItems : page.entries \in [1..n -> 1..MaxSeq[s]]  BY DEF Pages
<1>4. n \in Nat /\ page.entries \in [1..n -> Nat]  BY <1>1, <1>3, BatcherConstants
<1>5. page.entries \in Seq(Nat)  BY <1>4
<1> QED  BY <1>2, <1>5

LEMMA SoundReplay ==
  ASSUME NEW h \in Nat, NEW o \in SUBSET Nat, NEW r \in SUBSET Nat, NEW d \in Seq(Nat),
         NEW c \in Nat, NEW t \in Nat, NEW u \in Nat, NEW q \in Seq(Nat), u <= t, t <= h,
         \A i \in 1..Len(d) : d[i] <= c \/ d[i] \in r,
         \A m \in o : Has(d, m) \/ (c < m /\ m <= t),
         \A k \in 1..Len(q) : c < q[k] /\ q[k] <= u,
         \A j, k \in 1..Len(q) : j < k => q[j] < q[k],
         \A m \in o : c < m /\ m <= u => Has(q, m)
  PROVE  Sound(q, h, o, r, d)
<1>1. \A k \in 1..Len(q) : q[k] \in Nat /\ Len(q) \in Nat  OBVIOUS
<1>2. \A i \in 1..Len(d) : d[i] \in Nat  OBVIOUS
<1>3. \A k \in 1..Len(q) : q[k] <= h  BY <1>1
<1>5. ASSUME NEW k \in 1..Len(q), Has(d, q[k]) PROVE q[k] \in r
  <2>1. PICK i \in 1..Len(d) : d[i] = q[k]  BY <1>5 DEF Has
  <2>2. ~(q[k] <= c)  BY <1>1
  <2> QED  BY <2>1, <2>2
<1>6. ASSUME NEW k \in 1..Len(q), NEW m \in o, m < q[k]
      PROVE  Has(d, m) \/ \E j \in 1..(k - 1) : q[j] = m
  <2>1. SUFFICES ASSUME ~Has(d, m) PROVE \E j \in 1..(k - 1) : q[j] = m  OBVIOUS
  <2>2. m \in Nat /\ c < m /\ m <= u  BY <1>1, <1>6, <2>1
  <2>3. PICK j \in 1..Len(q) : q[j] = m  BY <2>2 DEF Has
  <2>4. ~(k < j) /\ k # j
    <3>1. k < j => q[k] < m  BY <2>3
    <3> QED  BY <1>1, <1>6, <2>2, <2>3, <3>1
  <2>5. j \in 1..(k - 1)  BY <1>1, <2>4
  <2> QED  BY <2>3, <2>5
<1> QED  BY <1>3, <1>5, <1>6 DEF Sound

(* What an answer of the history leaves owed of its session; the page may  *)
(* be published next.                                                      *)
LEMMA AnsweredFacts ==
  ASSUME NEW s \in Sessions, NEW page \in Pages(s), IInv, Answered(s, page),
         UNCHANGED offered
  PROVE  LET p == pending[s]
             g == Replay(s, page)
             o == Owed(s)'
         IN /\ g \in FlightRecords /\ g.step = "publish" /\ g.replayed
            /\ g.source = page.entries /\ g.upper = page.throughSeq
            /\ ~closed /\ InMap(s) /\ o \in SUBSET Owed(s)
            /\ \A x \in Sessions : x # s => withheld'[x] = withheld[x]
            /\ withheld' \in [Sessions -> SUBSET Nat]
            /\ Linked(g, p, o)
            /\ Sound(g.source, head[s], o, repeated[s], delivered[s])
<1> DEFINE f == flight[s]
           p == pending[s]
           h == head[s]
           o == Owed(s)'
           r == repeated[s]
           d == delivered[s]
           q == page.entries
           u == page.throughSeq
           left == (p.cursor + 1)..u \ Range(q)
           g == Replay(s, page)
<1>1. Types /\ SessionInv(s)  BY DEF IInv
<1>2. u \in Nat /\ q \in Seq(Nat) /\ DOMAIN q = 1..Len(q)  BY PageFacts
<1>3. /\ h \in Nat /\ Owed(s) \in SUBSET Nat /\ r \in SUBSET Nat /\ d \in Seq(Nat)
      /\ p.cursor \in Nat /\ p.through \in Nat /\ f.upper \in Nat /\ f \in FlightRecords
  BY <1>1, SessionTypes
<1>4. /\ f.step = "replay" /\ ~closed /\ withheld' = [withheld EXCEPT ![s] = @ \cup left]
      /\ p.cursor < u /\ u <= f.upper
      /\ \A i \in 1..Len(q) : p.cursor < q[i] /\ q[i] <= u
      /\ \A i, j \in 1..Len(q) : i < j => q[i] < q[j]
  BY <1>2 DEF Answered, Valid
<1>5. /\ InMap(s) /\ Linked(f, p, Owed(s)) /\ Buffer(p, h, Owed(s), r, d)
      /\ Remembered(p, TRUE, Owed(s), d) /\ f.replayed
  <2>1. f # NoFlight  BY <1>4 DEF NoFlight
  <2> QED  BY <1>1, <1>4, <2>1 DEF SessionInv, Good
<1>6. left \in SUBSET Nat
  <2> HIDE DEF q, u
  <2>1. (p.cursor + 1)..u \in SUBSET Nat  BY <1>2, <1>3
  <2> QED  BY <2>1
<1>7. /\ withheld'[s] = withheld[s] \cup left
      /\ \A x \in Sessions : x # s => withheld'[x] = withheld[x]
      /\ withheld' \in [Sessions -> SUBSET Nat]
  <2> HIDE DEF left
  <2> QED  BY <1>1, <1>4, <1>6 DEF Types
<1>8. o \in SUBSET Owed(s) /\ \A m \in o : m \notin left
  BY <1>7 DEF Owed
<1>9. ASSUME NEW m \in o, p.cursor < m, m <= u PROVE Has(q, m)
  <2>1. m \in (p.cursor + 1)..u  BY <1>2, <1>3, <1>8, <1>9
  <2>2. m \in Range(q)  BY <1>8, <2>1
  <2> QED  BY <1>2, <2>2, RangeHas
<1>10. g \in FlightRecords /\ g.step = "publish" /\ g.upper = u /\ g.replayed /\ g.source = q
  <2> HIDE DEF q, u
  <2>1. g = [f EXCEPT !.step = "publish", !.upper = u, !.source = q]  BY DEF Replay, q, u
  <2> QED  BY <1>2, <1>3, <1>5, <2>1 DEF FlightRecords
<1>11. Linked(g, p, o)
  <2>1. p.replay /\ p.entries = <<>> /\ u <= p.through
    BY <1>2, <1>3, <1>4, <1>5 DEF Linked
  <2>2. Covers(g.source, p.cursor, g.upper, o)  BY <1>4, <1>9, <1>10 DEF Covers
  <2> QED  BY <1>10, <2>1, <2>2 DEF Linked
<1>12. Sound(q, h, o, r, d)
  <2>1. u <= p.through  BY <1>2, <1>3, <1>4, <1>5 DEF Linked
  <2>2. p.through <= h /\ \A i \in 1..Len(d) : d[i] <= p.cursor \/ d[i] \in r
    BY <1>5 DEF Buffer, Within
  <2>3. \A m \in o : Has(d, m) \/ (p.cursor < m /\ m <= p.through)
    BY <1>5, <1>8 DEF Remembered
  <2>4. o \in SUBSET Nat  BY <1>3, <1>8
  <2>5. /\ \A i \in 1..Len(q) : p.cursor < q[i] /\ q[i] <= u
        /\ \A i, j \in 1..Len(q) : i < j => q[i] < q[j]
    BY <1>4
  <2>6. p.cursor \in Nat /\ p.through \in Nat  BY <1>3
  <2> DEFINE c == p.cursor
             t == p.through
  <2> HIDE DEF h, o, r, d, q, u, p, c, t
  <2>7. Sound(q, h, o, r, d)
    BY <1>2, <1>3, <1>9, <2>1, <2>2, <2>3, <2>4, <2>5, <2>6, SoundReplay DEF c, t
  <2> QED  BY <2>7
<1> QED  BY <1>4, <1>5, <1>7, <1>8, <1>10, <1>11, <1>12

LEMMA AnswersInv ==
  ASSUME NEW s \in Sessions, NEW page \in Pages(s), IInv, ReplayAnswers(s, page)
  PROVE  IInv'
<1> DEFINE p == pending[s]
           h == head[s]
           o == Owed(s)'
           r == repeated[s]
           d == delivered[s]
           g == Replay(s, page)
<1>1. Types /\ OneEach /\ Offers /\ SessionInv(s)  BY DEF IInv
<1>2. /\ UNCHANGED <<head, offered, repeated, order, pending, closed, delivered>>
      /\ Answered(s, page) /\ flight' = [flight EXCEPT ![s] = g]
  BY DEF ReplayAnswers, Answered, host, queue
<1>3. /\ g \in FlightRecords /\ g.step = "publish" /\ g.replayed
      /\ ~closed /\ InMap(s) /\ o \in SUBSET Owed(s)
      /\ \A x \in Sessions : x # s => withheld'[x] = withheld[x]
      /\ withheld' \in [Sessions -> SUBSET Nat]
      /\ Linked(g, p, o) /\ Sound(g.source, h, o, r, d)
  BY <1>2, AnsweredFacts
<1> HIDE DEF g
<1>4. Types' /\ OneEach'  BY <1>1, <1>2, <1>3 DEF Types, OneEach
<1>5. flight'[s] = g /\ \A x \in Sessions : x # s => flight'[x] = flight[x]
  BY <1>1, <1>2 DEF Types
<1>6. ASSUME NEW x \in Sessions, x # s PROVE SessionInv(x)'
  <2>1. head[x] <= head'[x]
    <3>1. head[x] \in Nat /\ head'[x] = head[x]  BY <1>1, <1>2, SessionTypes
    <3> QED  BY <3>1
  <2>2. withheld'[x] = withheld[x]  BY <1>3, <1>6
  <2>3. Still(x)  BY <1>2, <2>1, <2>2 DEF Still, InMap
  <2>4. flight'[x] = flight[x]  BY <1>5, <1>6
  <2> QED  BY <1>1, <1>4, <2>3, <2>4, StillInv DEF IInv
<1>7. SessionInv(s)'
  <2>1. /\ History(h, Owed(s), r, d) /\ Buffer(p, h, Owed(s), r, d)
        /\ Remembered(p, TRUE, Owed(s), d)
    <3>1. flight[s] # NoFlight  BY <1>2 DEF Answered, NoFlight
    <3> QED  BY <1>1, <1>3, <3>1 DEF SessionInv, Good
  <2>2. /\ head'[s] = h /\ repeated'[s] = r /\ delivered'[s] = d
        /\ pending'[s] = p /\ InMap(s)' /\ closed' = closed
    BY <1>2, <1>3 DEF InMap
  <2> HIDE DEF o
  <2>3. History(h, o, r, d) /\ Buffer(p, h, o, r, d) /\ Remembered(p, TRUE, o, d)
    BY <1>3, <2>1, Shrinks
  <2> QED  BY <1>3, <1>5, <2>2, <2>3 DEF SessionInv, Good, o
<1>8. Offers'  BY <1>1, <1>2 DEF Offers, InMap
<1> QED  BY <1>4, <1>6, <1>7, <1>8 DEF IInv

(* n events of q are published behind d.                                   *)
Extends(e, d, q, n) ==
    /\ Len(e) = Len(d) + n
    /\ \A i \in 1..Len(d) : e[i] = d[i]
    /\ \A k \in 1..n : e[Len(d) + k] = q[k]

LEMMA Extended ==
  ASSUME NEW d \in Seq(Nat), NEW q \in Seq(Nat), NEW n \in 1..Len(q)
  PROVE  d \o SubSeq(q, 1, n) \in Seq(Nat) /\ Extends(d \o SubSeq(q, 1, n), d, q, n)
<1> DEFINE b == SubSeq(q, 1, n)
<1>1. b \in Seq(Nat) /\ Len(b) = n /\ \A i \in 1..n : b[i] = q[i]  OBVIOUS
<1> HIDE DEF b
<1>2. /\ d \o b \in Seq(Nat) /\ Len(d \o b) = Len(d) + Len(b)
      /\ \A i \in 1..Len(d) : (d \o b)[i] = d[i]
      /\ \A i \in 1..Len(b) : (d \o b)[Len(d) + i] = b[i]
  BY <1>1, Joined
<1>3. Extends(d \o b, d, q, n)  BY <1>1, <1>2 DEF Extends
<1> QED  BY <1>2, <1>3 DEF b

LEMMA ExtendsParts ==
  ASSUME NEW d \in Seq(Nat), NEW q \in Seq(Nat), NEW n \in 1..Len(q), NEW e \in Seq(Nat),
         Extends(e, d, q, n), NEW i \in 1..Len(e)
  PROVE  i \in 1..Len(d) \/ \E k \in 1..n : i = Len(d) + k
<1>1. Len(e) = Len(d) + n /\ Len(d) \in Nat /\ n \in Nat  BY DEF Extends
<1>2. CASE i <= Len(d)  BY <1>1, <1>2
<1>3. CASE i > Len(d)
  <2>1. i - Len(d) \in 1..n /\ i = Len(d) + (i - Len(d))  BY <1>1, <1>3
  <2> QED  BY <2>1
<1> QED  BY <1>1, <1>2, <1>3

LEMMA ExtendsHas ==
  ASSUME NEW d \in Seq(Nat), NEW q \in Seq(Nat), NEW n \in 1..Len(q), NEW e \in Seq(Nat),
         Extends(e, d, q, n)
  PROVE  \A m : Has(e, m) <=> Has(d, m) \/ \E k \in 1..n : q[k] = m
<1>1. Len(e) = Len(d) + n /\ Len(d) \in Nat /\ n \in Nat  BY DEF Extends
<1>2. \A i \in 1..Len(e) : i \in 1..Len(d) \/ \E k \in 1..n : i = Len(d) + k  BY ExtendsParts
<1>3. ASSUME NEW m, Has(e, m) PROVE Has(d, m) \/ \E k \in 1..n : q[k] = m
  <2>1. PICK i \in 1..Len(e) : e[i] = m  BY <1>3 DEF Has
  <2>2. CASE i \in 1..Len(d)  BY <2>1, <2>2 DEF Extends, Has
  <2>3. CASE \E k \in 1..n : i = Len(d) + k  BY <2>1, <2>3 DEF Extends
  <2> QED  BY <1>2, <2>2, <2>3
<1>4. ASSUME NEW m, Has(d, m) PROVE Has(e, m)
  <2>1. PICK i \in 1..Len(d) : d[i] = m  BY <1>4 DEF Has
  <2>2. i \in 1..Len(e) /\ e[i] = m  BY <1>1, <2>1 DEF Extends
  <2> QED  BY <2>2 DEF Has
<1>5. ASSUME NEW m, NEW k \in 1..n, q[k] = m PROVE Has(e, m)
  <2>1. Len(d) + k \in 1..Len(e) /\ e[Len(d) + k] = m  BY <1>1, <1>5 DEF Extends
  <2> QED  BY <2>1 DEF Has
<1> QED  BY <1>3, <1>4, <1>5

LEMMA HistoryPublished ==
  ASSUME NEW h \in Nat, NEW o \in SUBSET Nat, NEW r \in SUBSET Nat, NEW d \in Seq(Nat),
         NEW q \in Seq(Nat), NEW n \in 1..Len(q), NEW e \in Seq(Nat),
         History(h, o, r, d), Sound(q, h, o, r, d), Extends(e, d, q, n)
  PROVE  History(h, o, r, e)
<1>1. Len(e) = Len(d) + n /\ Len(d) \in Nat /\ n \in Nat /\ Len(q) \in Nat  BY DEF Extends
<1>2. \A i \in 1..Len(e) : i \in 1..Len(d) \/ \E k \in 1..n : i = Len(d) + k  BY ExtendsParts
<1>3. /\ \A i \in 1..Len(d) : e[i] = d[i]
      /\ \A k \in 1..n : e[Len(d) + k] = q[k] /\ k \in 1..Len(q)
  <2>1. \A k \in 1..n : k \in 1..Len(q)  BY <1>1
  <2>2. (\A i \in 1..Len(d) : e[i] = d[i]) /\ \A k \in 1..n : e[Len(d) + k] = q[k]  BY DEF Extends
  <2> QED  BY <2>1, <2>2
<1>4. ASSUME NEW i \in 1..Len(e) PROVE e[i] <= h
  <2>1. CASE i \in 1..Len(d)  BY <1>3, <2>1 DEF History
  <2>2. CASE \E k \in 1..n : i = Len(d) + k  BY <1>3, <2>2 DEF Sound
  <2> QED  BY <1>2, <2>1, <2>2
<1>5. ASSUME NEW i \in 1..Len(e), NEW m \in o, m < e[i]
      PROVE  \E j \in 1..(i - 1) : e[j] = m
  <2>1. CASE i \in 1..Len(d)
    <3>1. PICK j \in 1..(i - 1) : d[j] = m  BY <1>3, <1>5, <2>1 DEF History
    <3>2. j \in 1..Len(d)  BY <1>1, <2>1
    <3> QED  BY <1>3, <3>1, <3>2
  <2>2. ASSUME NEW k \in 1..n, i = Len(d) + k PROVE \E j \in 1..(i - 1) : e[j] = m
    <3>1. Has(d, m) \/ \E j \in 1..(k - 1) : q[j] = m  BY <1>3, <1>5, <2>2 DEF Sound
    <3>2. CASE Has(d, m)
      <4>1. PICK j \in 1..Len(d) : d[j] = m  BY <3>2 DEF Has
      <4>2. j \in 1..(i - 1)  BY <1>1, <2>2
      <4> QED  BY <1>3, <4>1, <4>2
    <3>3. CASE \E j \in 1..(k - 1) : q[j] = m
      <4>1. PICK j \in 1..(k - 1) : q[j] = m  BY <3>3
      <4>2. Len(d) + j \in 1..(i - 1) /\ j \in 1..n  BY <1>1, <2>2
      <4> QED  BY <1>3, <4>1, <4>2
    <3> QED  BY <3>1, <3>2, <3>3
  <2> QED  BY <1>2, <2>1, <2>2
<1>6. ASSUME NEW k \in 1..n, NEW i \in 1..Len(d), d[i] = q[k] PROVE q[k] \in r
  <2>1. Has(d, q[k])  BY <1>6 DEF Has
  <2> QED  BY <1>3, <2>1 DEF Sound
<1>7. ASSUME NEW j \in 1..n, NEW k \in 1..n, j # k PROVE q[j] # q[k]
  <2>1. q[j] \in Nat /\ q[k] \in Nat  BY <1>3
  <2>2. CASE j < k  BY <1>3, <2>1, <2>2 DEF Sound
  <2>3. CASE k < j  BY <1>3, <2>1, <2>3 DEF Sound
  <2> QED  BY <1>1, <1>7, <2>2, <2>3
<1>8. ASSUME NEW i \in 1..Len(e), NEW j \in 1..Len(e), i # j, e[i] = e[j] PROVE e[i] \in r
  <2>1. CASE i \in 1..Len(d) /\ j \in 1..Len(d)  BY <1>3, <1>8, <2>1 DEF History
  <2>2. ASSUME NEW k \in 1..n, i = Len(d) + k PROVE e[i] \in r
    <3>1. CASE j \in 1..Len(d)  BY <1>3, <1>6, <1>8, <2>2, <3>1
    <3>2. ASSUME NEW l \in 1..n, j = Len(d) + l PROVE FALSE
      <4>1. k # l  BY <1>8, <2>2, <3>2
      <4> QED  BY <1>3, <1>7, <1>8, <2>2, <3>2, <4>1
    <3> QED  BY <1>2, <3>1, <3>2
  <2>3. ASSUME NEW k \in 1..n, j = Len(d) + k, i \in 1..Len(d) PROVE e[i] \in r
    BY <1>3, <1>6, <1>8, <2>3
  <2> QED  BY <1>2, <2>1, <2>2, <2>3
<1> QED  BY <1>4, <1>5, <1>8 DEF History

(* The rest of a buffer may follow its front.                              *)
LEMMA SoundRest ==
  ASSUME NEW h \in Nat, NEW o \in SUBSET Nat, NEW r \in SUBSET Nat, NEW d \in Seq(Nat),
         NEW q \in Seq(Nat), NEW n \in 1..Len(q), NEW e \in Seq(Nat), NEW b \in Seq(Nat),
         Sound(q, h, o, r, d), Extends(e, d, q, n),
         Len(b) = Len(q) - n, \A k \in 1..Len(b) : b[k] = q[n + k]
  PROVE  Sound(b, h, o, r, e)
<1>1. n \in Nat /\ Len(q) \in Nat /\ Len(b) \in Nat /\ Len(b) = Len(q) - n  OBVIOUS
<1>2. \A k \in 1..Len(b) : n + k \in 1..Len(q) /\ b[k] = q[n + k] /\ q[n + k] \in Nat  BY <1>1
<1>3. \A m : Has(e, m) <=> Has(d, m) \/ \E k \in 1..n : q[k] = m  BY ExtendsHas
<1>4. \A j, k \in 1..Len(q) : j < k => q[j] < q[k]  BY DEF Sound
<1>5. \A k \in 1..Len(q) : q[k] \in Nat  OBVIOUS
<1>6. ASSUME NEW k \in 1..Len(b), Has(e, b[k]) PROVE b[k] \in r
  <2>1. \A j \in 1..n : q[j] # b[k]
    <3>1. ASSUME NEW j \in 1..n PROVE q[j] < q[n + k]
      <4>1. j \in 1..Len(q) /\ n + k \in 1..Len(q) /\ j < n + k  BY <1>1, <1>2
      <4> QED  BY <1>4, <4>1
    <3>2. \A j \in 1..n : q[j] \in Nat /\ q[j] < q[n + k]  BY <1>1, <1>5, <3>1
    <3> QED  BY <1>2, <3>2
  <2>2. Has(d, b[k])  BY <1>3, <1>6, <2>1
  <2> QED  BY <1>2, <2>2 DEF Sound
<1>7. ASSUME NEW m, NEW j \in 1..Len(q), q[j] = m, j > n PROVE j - n \in 1..Len(b) /\ b[j - n] = m
  <2>1. j - n \in 1..Len(b) /\ n + (j - n) = j  BY <1>1, <1>7
  <2> QED  BY <1>2, <1>7, <2>1
<1>8. ASSUME NEW k \in 1..Len(b), NEW m \in o, m < b[k]
      PROVE  Has(e, m) \/ \E j \in 1..(k - 1) : b[j] = m
  <2>1. Has(d, m) \/ \E j \in 1..(n + k - 1) : q[j] = m
    <3>1. n + k \in 1..Len(q) /\ m < q[n + k]  BY <1>2, <1>8
    <3>2. Has(d, m) \/ \E j \in 1..((n + k) - 1) : q[j] = m  BY <3>1 DEF Sound
    <3> QED  BY <3>2
  <2>2. ASSUME NEW j \in 1..(n + k - 1), q[j] = m PROVE Has(e, m) \/ \E i \in 1..(k - 1) : b[i] = m
    <3>1. CASE j <= n
      <4>1. j \in 1..n  BY <1>1, <3>1
      <4> QED  BY <1>3, <2>2, <4>1
    <3>2. CASE j > n
      <4>1. j \in 1..Len(q) /\ j - n \in 1..(k - 1)  BY <1>1, <3>2
      <4> QED  BY <1>7, <2>2, <3>2, <4>1
    <3> QED  BY <1>1, <3>1, <3>2
  <2> QED  BY <1>3, <2>1, <2>2
<1>10. \A k \in 1..Len(b) : b[k] <= h  BY <1>2 DEF Sound
<1>11. ASSUME NEW j \in 1..Len(b), NEW k \in 1..Len(b), j < k PROVE b[j] < b[k]
  <2>1. n + j < n + k  BY <1>1, <1>11
  <2> QED  BY <1>2, <1>4, <2>1
<1> QED  BY <1>6, <1>8, <1>10, <1>11 DEF Sound

LEMMA FrontHas ==
  ASSUME NEW h \in Nat, NEW o \in SUBSET Nat, NEW r \in SUBSET Nat, NEW d \in Seq(Nat),
         NEW q \in Seq(Nat), NEW n \in 1..Len(q), NEW e \in Seq(Nat),
         Sound(q, h, o, r, d), Extends(e, d, q, n), NEW m \in o, m <= q[n]
  PROVE  Has(e, m)
<1>1. \A x : Has(e, x) <=> Has(d, x) \/ \E k \in 1..n : q[k] = x  BY ExtendsHas
<1>2. n \in 1..Len(q) /\ n \in Nat /\ q[n] \in Nat /\ m \in Nat  OBVIOUS
<1>3. CASE m = q[n]
  <2>1. n \in 1..n  BY <1>2
  <2> QED  BY <1>1, <1>3, <2>1
<1>4. CASE m < q[n]
  <2>1. Has(d, m) \/ \E j \in 1..(n - 1) : q[j] = m  BY <1>2, <1>4 DEF Sound
  <2>2. \A j \in 1..(n - 1) : j \in 1..n  BY <1>2
  <2> QED  BY <1>1, <2>1, <2>2
<1> QED  BY <1>2, <1>3, <1>4

LEMMA HasRest ==
  ASSUME NEW d \in Seq(Nat), NEW q \in Seq(Nat), NEW n \in 1..Len(q), NEW e \in Seq(Nat),
         NEW b \in Seq(Nat), Extends(e, d, q, n),
         Len(b) = Len(q) - n, \A k \in 1..Len(b) : b[k] = q[n + k],
         NEW m, Has(q, m)
  PROVE  Has(e, m) \/ Has(b, m)
<1>1. n \in Nat /\ Len(q) \in Nat /\ Len(b) \in Nat /\ Len(b) = Len(q) - n  OBVIOUS
<1>2. \A x : Has(e, x) <=> Has(d, x) \/ \E k \in 1..n : q[k] = x  BY ExtendsHas
<1>3. PICK j \in 1..Len(q) : q[j] = m  BY DEF Has
<1>4. CASE j <= n
  <2>1. j \in 1..n  BY <1>1, <1>4
  <2> QED  BY <1>2, <1>3, <2>1
<1>5. CASE j > n
  <2>1. j - n \in 1..Len(b) /\ n + (j - n) = j  BY <1>1, <1>5
  <2>2. b[j - n] = m  BY <1>3, <2>1
  <2> QED  BY <2>1, <2>2 DEF Has
<1> QED  BY <1>1, <1>3, <1>4, <1>5

(* What stays pending when the front of a buffer is published.             *)
LEMMA WithinRest ==
  ASSUME NEW h \in Nat, NEW o \in SUBSET Nat, NEW r \in SUBSET Nat, NEW d \in Seq(Nat),
         NEW c \in Nat, NEW t \in Nat, NEW q \in Seq(Nat), NEW n \in 1..Len(q),
         NEW e \in Seq(Nat), NEW b \in Seq(Nat),
         Within(c, t, q, h, o, r, d), Extends(e, d, q, n),
         Len(b) = Len(q) - n, \A k \in 1..Len(b) : b[k] = q[n + k]
  PROVE  /\ q[n] \in Nat /\ Within(q[n], t, b, h, o, r, e)
<1>1. n \in 1..Len(q) /\ n \in Nat /\ Len(q) \in Nat /\ Len(b) \in Nat  OBVIOUS
<1>2. \A k \in 1..Len(q) : q[k] \in Nat /\ c < q[k] /\ q[k] <= t  BY DEF Within
<1>3. Sound(q, h, o, r, d)  BY DEF Within
<1>4. Sound(b, h, o, r, e)  BY <1>3, SoundRest
<1>6. \A j, k \in 1..Len(q) : j < k => q[j] < q[k]  BY <1>3 DEF Sound
<1>7. \A k \in 1..n : q[k] <= q[n]
  <2>1. ASSUME NEW k \in 1..n PROVE q[k] <= q[n]
    <3>1. k \in 1..Len(q) /\ q[k] \in Nat /\ q[n] \in Nat  BY <1>1, <1>2
    <3>2. CASE k < n
      <4>1. q[k] < q[n]  BY <1>1, <1>6, <3>1, <3>2
      <4> QED  BY <3>1, <4>1
    <3>3. CASE k = n  BY <3>1, <3>3
    <3> QED  BY <1>1, <3>2, <3>3
  <2> QED  BY <2>1
<1>8. ASSUME NEW i \in 1..Len(e) PROVE e[i] <= q[n] \/ e[i] \in r
  <2>1. CASE i \in 1..Len(d)
    <3>1. e[i] = d[i] /\ d[i] \in Nat
      <4>1. \A l \in 1..Len(d) : e[l] = d[l]  BY DEF Extends
      <4>2. e[i] = d[i]  BY <2>1, <4>1, Zenon
      <4>3. d[i] \in Nat  BY <2>1
      <4> QED  BY <4>2, <4>3
    <3>2. d[i] <= c \/ d[i] \in r  BY <2>1 DEF Within
    <3>3. c < q[n] /\ q[n] \in Nat  BY <1>1, <1>2
    <3> QED  BY <3>1, <3>2, <3>3
  <2>2. CASE \E k \in 1..n : i = Len(d) + k  BY <1>7, <2>2 DEF Extends
  <2>3. i \in 1..Len(d) \/ \E k \in 1..n : i = Len(d) + k
    <3>1. Len(e) = Len(d) + n /\ Len(d) \in Nat /\ Len(e) \in Nat  BY DEF Extends
    <3>2. CASE i <= Len(d)  BY <3>1, <3>2
    <3>3. CASE i > Len(d)
      <4>1. i - Len(d) \in 1..n /\ i = Len(d) + (i - Len(d))  BY <1>1, <3>1, <3>3
      <4> QED  BY <4>1
    <3> QED  BY <3>1, <3>2, <3>3
  <2> QED  BY <2>1, <2>2, <2>3
<1>9. ASSUME NEW k \in 1..Len(b) PROVE q[n] < b[k] /\ b[k] <= t
  <2>1. n + k \in 1..Len(q) /\ n < n + k /\ b[k] = q[n + k]  BY <1>1
  <2> QED  BY <1>1, <1>2, <1>6, <2>1
<1>11. q[n] \in Nat /\ q[n] <= t /\ t <= h  BY <1>1, <1>2 DEF Within
<1>12. Within(q[n], t, b, h, o, r, e)  BY <1>4, <1>8, <1>9, <1>11 DEF Within
<1> QED  BY <1>11, <1>12

(* The map after a batch: the session goes to its end, or leaves it.       *)
LEMMA Requeued ==
  ASSUME NEW q \in Seq(Sessions), NEW s \in Sessions, NEW i \in 1..Len(q), q[i] = s,
         \A j, k \in 1..Len(q) : q[j] = q[k] => j = k,
         NEW z, z \in {RemoveAt(q, i), Append(RemoveAt(q, i), s)}
  PROVE  /\ z \in Seq(Sessions)
         /\ \A j, k \in 1..Len(z) : z[j] = z[k] => j = k
         /\ \A x : x # s => (x \in Range(z) <=> x \in Range(q))
         /\ z = RemoveAt(q, i) => s \notin Range(z)
         /\ z = Append(RemoveAt(q, i), s) => s \in Range(z)
<1> DEFINE rest == RemoveAt(q, i)
<1>1. /\ rest \in Seq(Sessions)
      /\ \A x : x \in Range(rest) <=> x \in Range(q) /\ x # q[i]
      /\ \A j, k \in 1..Len(rest) : rest[j] = rest[k] => j = k
  BY Removed
<1> HIDE DEF rest
<1>2. s \notin Range(rest)  BY <1>1
<1>3. CASE z = Append(rest, s)
  <2>1. /\ z \in Seq(Sessions)
        /\ \A x : x \in Range(z) <=> x \in Range(rest) \/ x = s
        /\ \A j, k \in 1..Len(z) : z[j] = z[k] => j = k
    BY <1>1, <1>2, <1>3, Appended
  <2>2. /\ \A x : x # s => (x \in Range(z) <=> x \in Range(q))
        /\ s \in Range(z)
    BY <1>1, <2>1
  <2>3. z # rest  BY <1>2, <2>2
  <2> QED  BY <2>1, <2>2, <2>3 DEF rest
<1>4. CASE z = rest
  <2>1. z # Append(rest, s)
    <3>1. s \in Range(Append(rest, s))  BY <1>1, Appended
    <3> QED  BY <1>2, <1>4, <3>1
  <2>2. /\ z \in Seq(Sessions)
        /\ \A j, k \in 1..Len(z) : z[j] = z[k] => j = k
        /\ \A x : x # s => (x \in Range(z) <=> x \in Range(q))
        /\ s \notin Range(z)
    BY <1>1, <1>2, <1>4
  <2> QED  BY <2>1, <2>2 DEF rest
<1> QED  BY <1>3, <1>4 DEF rest

(* a is what stays pending of p.                                           *)
Leaves(a, p, h, o, r, e) ==
    /\ a \in Pendings /\ a.through = p.through
    /\ Buffer(a, h, o, r, e) /\ Remembered(a, TRUE, o, e)

(* The session after n events of its flight.                               *)
LEMMA AdvancedInv ==
  ASSUME NEW h \in Nat, NEW o \in SUBSET Nat, NEW r \in SUBSET Nat, NEW d \in Seq(Nat),
         NEW p \in Pendings, NEW f \in FlightRecords,
         NEW q \in Seq(Nat), q = f.source, NEW n \in 1..Len(q),
         NEW e \in Seq(Nat), f.step = "publish", Linked(f, p, o), Extends(e, d, q, n),
         Buffer(p, h, o, r, d), Remembered(p, TRUE, o, d)
  PROVE  Leaves(Advanced(p, f, n), p, h, o, r, e)
<1> DEFINE c == p.cursor
           t == p.through
           b == p.entries
           a == Advanced(p, f, n)
<1>1. c \in Nat /\ t \in Nat /\ b \in Seq(Nat) /\ f.source \in Seq(Nat) /\ f.upper \in Nat
  BY DEF Pendings, FlightRecords
<1>2. Within(c, t, b, h, o, r, d)  BY DEF Buffer
<1>3. c <= t /\ t <= h  BY <1>2 DEF Within
<1>4. \A m \in o : Has(d, m) \/ (c < m /\ m <= t)  BY DEF Remembered
<1>5. \A m : Has(e, m) <=> Has(d, m) \/ \E k \in 1..n : q[k] = m
  <2> HIDE DEF c, t, b, a
  <2> QED  BY ExtendsHas, SMTT(60)
<1>6. CASE f.replayed
  <2> DEFINE u == f.upper
             v == IF n = Len(q) THEN u ELSE q[n]
  <2>1. p.replay /\ b = <<>> /\ u <= t /\ Covers(q, c, u, o)  BY <1>6 DEF Linked
  <2>2. a = [p EXCEPT !.entries = p.entries, !.cursor = v, !.retryAt = 0]
    BY <1>6 DEF Advanced
  <2> HIDE DEF v
  <2>8. /\ n \in Nat /\ Len(q) \in Nat /\ n \in 1..Len(q) /\ u \in Nat
        /\ \A k \in 1..Len(q) : q[k] \in Nat
    BY <1>1
  <2>9. v \in Nat /\ c < v /\ v <= t  BY <1>1, <2>1, <2>8 DEF Covers, v
  <2>10. \A k \in 1..n : k \in 1..Len(q) /\ q[k] <= v
    <3>1. ASSUME NEW k \in 1..n PROVE k \in 1..Len(q) /\ q[k] <= v
      <4>1. k \in 1..Len(q)  BY <2>8
      <4>2. CASE n = Len(q)  BY <2>1, <4>1, <4>2 DEF Covers, v
      <4>3. CASE n # Len(q)
        <5>1. k < n => q[k] < q[n]  BY <2>1, <2>8, <4>1 DEF Covers
        <5> QED  BY <2>8, <4>1, <4>3, <5>1 DEF v
      <4> QED  BY <4>1, <4>2, <4>3
    <3> QED  BY <3>1
  <2>11. ASSUME NEW i \in 1..Len(e) PROVE e[i] <= v \/ e[i] \in r
    <3>1. /\ Len(e) = Len(d) + n /\ Len(d) \in Nat /\ \A k \in 1..Len(d) : e[k] = d[k]
          /\ \A k \in 1..n : e[Len(d) + k] = q[k]
      BY DEF Extends
    <3>2. CASE i <= Len(d)
      <4>1. i \in 1..Len(d)  BY <3>1, <3>2
      <4>2. e[i] = d[i] /\ d[i] \in Nat  BY <3>1, <4>1
      <4>3. d[i] <= c \/ d[i] \in r  BY <1>2, <4>1 DEF Within
      <4> QED  BY <1>1, <2>9, <4>2, <4>3
    <3>3. CASE ~(i <= Len(d))
      <4>1. i - Len(d) \in 1..n /\ Len(d) + (i - Len(d)) = i  BY <2>8, <3>1, <3>3
      <4>2. e[i] = q[i - Len(d)]  BY <3>1, <4>1
      <4> QED  BY <2>10, <4>1, <4>2
    <3> QED  BY <3>2, <3>3
  <2>12. ASSUME NEW m \in o, m <= v PROVE Has(e, m)
    <3>1. SUFFICES ASSUME ~Has(d, m) PROVE \E k \in 1..n : q[k] = m  BY <1>5
    <3>2. m \in Nat /\ c < m  BY <1>4, <3>1
    <3>3. m <= u  BY <2>1, <2>8, <2>12, <3>2 DEF Covers, v
    <3>4. PICK k \in 1..Len(q) : q[k] = m  BY <2>1, <3>2, <3>3 DEF Covers, Has
    <3>5. k <= n
      <4>1. CASE n = Len(q)  BY <2>8, <4>1
      <4>2. CASE n # Len(q)
        <5>1. n < k => q[n] < q[k]  BY <2>1, <2>8 DEF Covers
        <5>2. m <= q[n]  BY <2>12, <4>2 DEF v
        <5> QED  BY <2>8, <3>2, <3>4, <5>1, <5>2
      <4> QED  BY <4>1, <4>2
    <3> QED  BY <2>8, <3>4, <3>5
  <2>3. /\ v \in Nat /\ Within(v, t, <<>>, h, o, r, e)
        /\ \A m \in o : m <= v => Has(e, m)
    <3>1. Sound(<<>>, h, o, r, e)  BY DEF Sound
    <3>2. Within(v, t, <<>>, h, o, r, e)  BY <1>3, <2>9, <2>11, <3>1 DEF Within
    <3> QED  BY <2>9, <2>12, <3>2
  <2>4. /\ a \in Pendings /\ a.cursor = v /\ a.through = t /\ a.entries = <<>> /\ a.replay
    <3> HIDE DEF a
    <3> DEFINE x == p.entries
    <3>1. a = [p EXCEPT !.entries = x, !.cursor = v, !.retryAt = 0] /\ x \in Seq(Nat)
      BY <1>1, <2>2
    <3> HIDE DEF x
    <3>2. /\ a \in Pendings /\ a.cursor = v /\ a.through = p.through
          /\ a.entries = x /\ a.replay = p.replay
      BY <2>3, <3>1 DEF Pendings
    <3> QED  BY <2>1, <3>2 DEF x
  <2>6. ASSUME NEW m \in o PROVE Has(e, m) \/ (v < m /\ m <= t)
    <3>1. CASE m <= v  BY <2>3, <3>1
    <3>2. CASE ~(m <= v)
      <4>1. Has(d, m) => Has(e, m)  BY <1>5
      <4>2. v < m  BY <2>3, <3>2
      <4> QED  BY <1>4, <4>1, <4>2
    <3> QED  BY <3>1, <3>2
  <2> HIDE DEF a, c, b
  <2> QED  BY <2>4, <2>3, <2>6 DEF Buffer, Remembered, Leaves, a, t
<1>7. CASE ~f.replayed
  <2> DEFINE z == SubSeq(b, n + 1, Len(b))
  <2>1. Len(q) <= Len(b) /\ \A k \in 1..Len(q) : q[k] = b[k]
    BY <1>7 DEF Linked
  <2>2. n \in 1..Len(b) /\ \A k \in 1..n : q[k] = b[k]
    <3>1. Len(b) \in Nat /\ Len(q) \in Nat  BY <1>1
    <3> QED  BY <2>1, <3>1
  <2>3. Extends(e, d, b, n)  BY <2>2 DEF Extends
  <2>4. z \in Seq(Nat) /\ Len(z) = Len(b) - n /\ \A k \in 1..Len(z) : z[k] = b[n + k]
    <3>1. /\ z \in Seq(Nat) /\ Len(z) = Len(b) - n
          /\ \A k \in 1..(Len(b) - n) : z[k] = b[n + k]
      BY <1>1, <2>2, Rest
    <3> QED  BY <3>1
  <2>5. b[n] \in Nat /\ q[n] = b[n]
    <3>1. n \in 1..n  BY <2>2
    <3>2. \A k \in 1..Len(b) : b[k] \in Nat
      <4> HIDE DEF b
      <4> QED  BY <1>1
    <3> QED  BY <2>2, <3>1, <3>2
  <2>6. a = [p EXCEPT !.entries = z, !.cursor = b[n], !.retryAt = 0]
    BY <1>7, <2>5 DEF Advanced
  <2> HIDE DEF z
  <2>7. /\ a \in Pendings /\ a.cursor = b[n] /\ a.through = t /\ a.entries = z
        /\ a.replay = p.replay
    <3> DEFINE y == b[n]
    <3>1. a = [p EXCEPT !.entries = z, !.cursor = y, !.retryAt = 0] /\ z \in Seq(Nat) /\ y \in Nat
      BY <2>4, <2>5, <2>6
    <3> HIDE DEF a, y
    <3>2. /\ a \in Pendings /\ a.cursor = y /\ a.through = p.through /\ a.entries = z
          /\ a.replay = p.replay
      BY <3>1 DEF Pendings
    <3> QED  BY <3>2 DEF y
  <2> HIDE DEF a, c, t, b
  <2>8. /\ Within(b[n], t, z, h, o, r, e)
        /\ \A m : Has(b, m) => Has(e, m) \/ Has(z, m)
        /\ \A m \in o : m <= b[n] => Has(e, m)
    <3>1. \A k \in 1..Len(z) : z[k] = b[n + k]  BY <2>4
    <3>2. Within(b[n], t, z, h, o, r, e)
      BY <1>1, <1>2, <2>2, <2>3, <2>4, <3>1, WithinRest
    <3>3. \A m : Has(b, m) => Has(e, m) \/ Has(z, m)
      BY <1>1, <2>2, <2>3, <2>4, <3>1, HasRest
    <3>4. \A m \in o : m <= b[n] => Has(e, m)
      <4>1. Sound(b, h, o, r, d)  BY <1>2 DEF Within
      <4> QED  BY <1>1, <2>2, <2>3, <2>5, <4>1, FrontHas
    <3> QED  BY <3>2, <3>3, <3>4
  <2>9. \A m : Has(d, m) => Has(e, m)  BY <1>5
  <2>10. Remembered(a, TRUE, o, e)
    <3>1. ASSUME NEW m \in o PROVE Has(e, m) \/ (b[n] < m /\ m <= t)
      <4>1. CASE m <= b[n]  BY <2>8, <4>1
      <4>2. CASE ~(m <= b[n])
        <5>1. b[n] < m  BY <2>5, <4>2
        <5> QED  BY <1>4, <2>9, <5>1
      <4> QED  BY <4>1, <4>2
    <3> QED  BY <2>7, <3>1 DEF Remembered
  <2>11. ~p.replay => \A m \in o : m <= t => Has(d, m) \/ Has(b, m)  BY DEF Buffer, b, t
  <2>12. Buffer(a, h, o, r, e)  BY <2>7, <2>8, <2>9, <2>11 DEF Buffer
  <2> QED  BY <2>7, <2>10, <2>12 DEF Leaves, a, t
<1> QED  BY <1>6, <1>7

(* What a published batch leaves pending; nothing is buffered any more once *)
(* the cursor has reached the high-water mark.                              *)
LEMMA NoMore ==
  ASSUME NEW a \in Pendings, NEW h, NEW o, NEW r, NEW d, Buffer(a, h, o, r, d), ~More(a)
  PROVE  a.entries = <<>>
<1> DEFINE b == a.entries
<1>1. b \in Seq(Nat) /\ a.cursor \in Nat /\ a.through \in Nat  BY DEF Pendings
<1>2. \A k \in 1..Len(b) : a.cursor < b[k] /\ b[k] <= a.through  BY DEF Buffer, Within
<1>3. \A k \in 1..Len(b) : b[k] \in Nat  BY <1>1
<1>4. ~(a.cursor < a.through)  BY DEF More
<1>5. Len(b) \in Nat  BY <1>1
<1>6. 1 \notin 1..Len(b)  BY <1>1, <1>2, <1>3, <1>4
<1>7. Len(b) = 0  BY <1>5, <1>6
<1> QED  BY <1>1, <1>7

LEMMA PublishedLeaves ==
  ASSUME NEW s \in Sessions, NEW n \in Nat, IInv, Published(s, n)
  PROVE  LET f == flight[s]
             a == Advanced(pending[s], f, n)
             e == delivered[s] \o SubSeq(f.source, 1, n)
         IN /\ n \in 1..Len(f.source) /\ e \in Seq(Nat) /\ Extends(e, delivered[s], f.source, n)
            /\ Owed(s)' = Owed(s)
            /\ ~closed => /\ InMap(s) /\ Linked(f, pending[s], Owed(s))
                          /\ Leaves(a, pending[s], head[s], Owed(s), repeated[s], e)
<1> DEFINE f == flight[s]
           p == pending[s]
           h == head[s]
           o == Owed(s)
           r == repeated[s]
           d == delivered[s]
           e == d \o SubSeq(f.source, 1, n)
           a == Advanced(p, f, n)
<1>1. Types /\ OneEach /\ SessionInv(s)  BY DEF IInv
<1>2. /\ h \in Nat /\ o \in SUBSET Nat /\ r \in SUBSET Nat /\ d \in Seq(Nat)
      /\ f \in FlightRecords /\ f.source \in Seq(Nat) /\ p \in Pendings
  BY <1>1, SessionTypes
<1>3. /\ UNCHANGED <<head, offered, repeated, closed, withheld>>
      /\ f.step = "publish"
      /\ n \in 1..Min({BatchItems, Len(f.source)})
  BY DEF Published, Ends, host
<1>4. n \in 1..Len(f.source)
  <2>1. BatchItems \in Nat /\ Len(f.source) \in Nat  BY <1>2, BatcherConstants
  <2>2. Min({BatchItems, Len(f.source)}) <= Len(f.source)
        /\ Min({BatchItems, Len(f.source)}) \in Nat
    BY <2>1, MinPair
  <2> QED  BY <1>3, <2>1, <2>2
<1>5. e \in Seq(Nat) /\ Extends(e, d, f.source, n)
  <2> DEFINE q == f.source
  <2>1. q \in Seq(Nat) /\ n \in 1..Len(q)  BY <1>2, <1>4
  <2> HIDE DEF q, d
  <2>2. d \o SubSeq(q, 1, n) \in Seq(Nat) /\ Extends(d \o SubSeq(q, 1, n), d, q, n)
    BY <1>2, <2>1, Extended
  <2> QED  BY <2>2 DEF q
<1> HIDE DEF e, a
<1>6. ASSUME ~closed
      PROVE  /\ InMap(s) /\ Linked(f, p, o) /\ Buffer(p, h, o, r, d)
             /\ Remembered(p, TRUE, o, d) /\ Sound(f.source, h, o, r, d)
  <2>1. f # NoFlight  BY <1>3 DEF NoFlight
  <2> QED  BY <1>1, <1>3, <1>6, <2>1 DEF SessionInv, Good
<1>7. ASSUME ~closed
      PROVE  Leaves(a, p, h, o, r, e)
  <2> DEFINE q == f.source
  <2>1. q \in Seq(Nat) /\ q = f.source /\ n \in 1..Len(q) /\ Extends(e, d, q, n)
    BY <1>2, <1>4, <1>5
  <2>2. /\ Linked(f, p, o) /\ Buffer(p, h, o, r, d) /\ Remembered(p, TRUE, o, d)
    BY <1>6, <1>7
  <2>3. f.step = "publish"  BY <1>3
  <2> HIDE DEF q, f, p, h, o, r, d
  <2>4. e \in Seq(Nat)  BY <1>5
  <2> QED  BY <1>2, <2>1, <2>2, <2>3, <2>4, AdvancedInv DEF a
<1>8. Owed(s)' = o  BY <1>3 DEF Owed
<1> QED  BY <1>4, <1>5, <1>6, <1>7, <1>8 DEF e, a

(* A session that was published leaves its place; one that has more to     *)
(* publish goes to the end of the map.                                     *)
LEMMA MovedPlaces ==
  ASSUME NEW s \in Sessions, NEW f, NEW n, Types, OneEach, InMap(s), Moves(s, f, n)
  PROVE  /\ order' \in Seq(Sessions) /\ OneEach'
         /\ \A x \in Sessions : x # s => (InMap(x)' <=> InMap(x))
         /\ InMap(s)' <=> More(Advanced(pending[s], f, n))
<1> DEFINE i == CHOOSE i \in DOMAIN order : order[i] = s
           q == order
           z == order'
           more == More(Advanced(pending[s], f, n))
<1>1. /\ q \in Seq(Sessions) /\ s \in Range(q)
      /\ \A j, k \in 1..Len(q) : q[j] = q[k] => j = k
  BY DEF Types, OneEach, InMap
<1>2. z = IF more THEN Append(RemoveAt(q, i), s) ELSE RemoveAt(q, i)  BY DEF Moves
<1>3. i \in 1..Len(q) /\ q[i] = s
  <2>1. DOMAIN q = 1..Len(q)  BY <1>1
  <2>2. \E k \in DOMAIN q : q[k] = s  BY <1>1 DEF Range
  <2>3. i \in DOMAIN q /\ q[i] = s  BY <2>2
  <2> QED  BY <2>1, <2>3
<1>4. more \in BOOLEAN  BY DEF More
<1> HIDE DEF i, q, z, more
<1>5. z \in {RemoveAt(q, i), Append(RemoveAt(q, i), s)}  BY <1>2
<1>6. /\ z \in Seq(Sessions)
      /\ \A j, k \in 1..Len(z) : z[j] = z[k] => j = k
      /\ \A x : x # s => (x \in Range(z) <=> x \in Range(q))
      /\ z = RemoveAt(q, i) => s \notin Range(z)
      /\ z = Append(RemoveAt(q, i), s) => s \in Range(z)
  BY <1>1, <1>3, <1>5, Requeued
<1>7. s \in Range(z) <=> more  BY <1>2, <1>4, <1>6
<1> QED  BY <1>6, <1>7 DEF OneEach, InMap, z, q, more

(* What is pending of the sessions then.                                   *)
LEMMA MovedPending ==
  ASSUME NEW s \in Sessions, NEW f, NEW n, Types, Moves(s, f, n),
         NEW a \in Pendings, a = Advanced(pending[s], f, n)
  PROVE  /\ pending' \in [Sessions -> Pendings]
         /\ \A x \in Sessions : x # s => pending'[x] = pending[x]
         /\ ~More(a) => pending'[s] = NotPending
         /\ More(a) => /\ pending'[s].cursor = a.cursor /\ pending'[s].through = a.through
                       /\ pending'[s].entries = a.entries /\ pending'[s].replay = a.replay
<1> DEFINE b == [a EXCEPT !.readyAt = 0]
<1>1. /\ b \in Pendings /\ b.cursor = a.cursor /\ b.through = a.through
      /\ b.entries = a.entries /\ b.replay = a.replay
  BY DEF Pendings
<1> HIDE DEF b
<1>2. NotPending \in Pendings  BY DEF NotPending, Pendings
<1>3. pending' = [pending EXCEPT ![s] = IF More(a) THEN b ELSE NotPending]
  BY DEF Moves, b
<1>4. pending \in [Sessions -> Pendings]  BY DEF Types
<1> QED  BY <1>1, <1>2, <1>3, <1>4

(* The flight of s is over; the session moved, or the batcher was closed.  *)
LEMMA MovedInv ==
  ASSUME NEW s \in Sessions, NEW f, NEW n, IInv,
         UNCHANGED <<head, offered, repeated, closed>>,
         flight' = [flight EXCEPT ![s] = NoFlight],
         delivered' \in [Sessions -> Seq(Nat)], withheld' \in [Sessions -> SUBSET Nat],
         \A x \in Sessions : x # s => delivered'[x] = delivered[x] /\ withheld'[x] = withheld[x],
         NEW o, o = Owed(s)', NEW e, e = delivered'[s],
         History(head[s], o, repeated[s], e),
         closed => UNCHANGED queue,
         NEW a, a = Advanced(pending[s], f, n),
         ~closed => /\ InMap(s) /\ Moves(s, f, n)
                    /\ Leaves(a, pending[s], head[s], o, repeated[s], e)
  PROVE  IInv'
<1> DEFINE h == head[s]
           r == repeated[s]
<1>1. Types /\ OneEach /\ Offers /\ SessionInv(s)  BY DEF IInv
<1>2. NoFlight.step = "none" /\ NoFlight \in FlightRecords  BY DEF NoFlight, FlightRecords
<1>3. /\ \A x \in Sessions : x # s => flight'[x] = flight[x]
      /\ flight'[s] = NoFlight /\ flight' \in [Sessions -> FlightRecords]
  BY <1>1, <1>2 DEF Types
<1>4. ASSUME Types', NEW x \in Sessions, x # s, pending'[x] = pending[x], InMap(x)' <=> InMap(x)
      PROVE  SessionInv(x)'
  <2>1. head[x] <= head'[x]
    <3>1. head[x] \in Nat /\ head'[x] = head[x]  BY <1>1, SessionTypes
    <3> QED  BY <3>1
  <2>2. delivered'[x] = delivered[x] /\ withheld'[x] = withheld[x] /\ flight'[x] = flight[x]
    BY <1>3, <1>4
  <2>3. Still(x)  BY <1>4, <2>1, <2>2 DEF Still
  <2> QED  BY <1>1, <1>4, <2>2, <2>3, StillInv DEF IInv
<1>5. CASE closed
  <2>1. order' = order /\ pending' = pending  BY <1>5 DEF queue
  <2>2. Types' /\ OneEach'  BY <1>1, <1>3, <2>1 DEF Types, OneEach
  <2>3. \A x \in Sessions : x # s => SessionInv(x)'  BY <1>4, <2>1, <2>2 DEF InMap
  <2>4. SessionInv(s)'  BY <1>2, <1>3, <1>5 DEF SessionInv, Good
  <2>5. Offers'  BY <1>1, <2>1 DEF Offers, InMap
  <2> QED  BY <2>2, <2>3, <2>4, <2>5 DEF IInv
<1>6. CASE ~closed
  <2>1. /\ InMap(s) /\ Moves(s, f, n) /\ a \in Pendings /\ a.through = pending[s].through
        /\ Buffer(a, h, o, r, e) /\ Remembered(a, TRUE, o, e)
    BY <1>6 DEF Leaves
  <2>2. /\ order' \in Seq(Sessions) /\ OneEach'
        /\ \A x \in Sessions : x # s => (InMap(x)' <=> InMap(x))
        /\ InMap(s)' <=> More(a)
    BY <1>1, <2>1, MovedPlaces
  <2>3. /\ pending' \in [Sessions -> Pendings]
        /\ \A x \in Sessions : x # s => pending'[x] = pending[x]
        /\ ~More(a) => pending'[s] = NotPending
        /\ More(a) => /\ pending'[s].cursor = a.cursor /\ pending'[s].through = a.through
                      /\ pending'[s].entries = a.entries /\ pending'[s].replay = a.replay
    BY <1>1, <2>1, MovedPending
  <2>4. Types'  BY <1>1, <1>3, <2>2, <2>3 DEF Types
  <2>5. \A x \in Sessions : x # s => SessionInv(x)'  BY <1>4, <2>2, <2>3, <2>4
  <2>6. InMap(s)' => Buffer(pending'[s], h, o, r, e)  BY <2>1, <2>2, <2>3 DEF Buffer
  <2>7. Remembered(pending'[s], InMap(s)', o, e)
    <3>1. CASE More(a)  BY <2>1, <2>2, <2>3, <3>1 DEF Remembered
    <3>2. CASE ~More(a)
      <4>1. a.cursor \in Nat /\ a.through \in Nat  BY <2>1 DEF Pendings
      <4>2. ~(a.cursor < a.through)  BY <3>2 DEF More
      <4>3. o \in SUBSET Nat  BY <2>4, SessionTypesNext
      <4>4. \A m \in o : Has(e, m)  BY <2>1, <4>1, <4>2, <4>3 DEF Remembered
      <4> QED  BY <4>4 DEF Remembered
    <3> QED  BY <3>1, <3>2
  <2>8. SessionInv(s)'  BY <1>2, <1>3, <2>6, <2>7 DEF SessionInv, Good
  <2>9. Offers'
    <3>1. ASSUME NEW x \in Sessions, NEW m \in offered[x], InMap(x)' PROVE m <= pending'[x].through
      <4>1. CASE x = s  BY <1>1, <2>1, <2>2, <2>3, <3>1, <4>1 DEF Offers
      <4>2. CASE x # s  BY <1>1, <2>2, <2>3, <3>1, <4>2 DEF Offers
      <4> QED  BY <4>1, <4>2
    <3> QED  BY <1>1, <3>1 DEF Offers
  <2> QED  BY <2>2, <2>4, <2>5, <2>8, <2>9 DEF IInv
<1> QED  BY <1>5, <1>6

LEMMA PublishedInv == ASSUME NEW s \in Sessions, NEW n \in Nat, IInv, Published(s, n) PROVE IInv'
<1> DEFINE f == flight[s]
           h == head[s]
           o == Owed(s)
           r == repeated[s]
           d == delivered[s]
           e == d \o SubSeq(f.source, 1, n)
           a == Advanced(pending[s], f, n)
<1>1. Types /\ SessionInv(s)  BY DEF IInv
<1>2. /\ h \in Nat /\ o \in SUBSET Nat /\ r \in SUBSET Nat /\ d \in Seq(Nat)
      /\ f.source \in Seq(Nat)
  BY <1>1, SessionTypes
<1>3. /\ UNCHANGED <<head, offered, repeated, closed, withheld>>
      /\ f.step = "publish"
      /\ delivered' = [delivered EXCEPT ![s] = e]
      /\ flight' = [flight EXCEPT ![s] = NoFlight]
      /\ closed => UNCHANGED queue
      /\ ~closed => Moves(s, f, n)
  BY DEF Published, Ends, host
<1>4. /\ n \in 1..Len(f.source) /\ e \in Seq(Nat) /\ Extends(e, d, f.source, n)
      /\ Owed(s)' = o
      /\ ~closed => InMap(s) /\ Leaves(a, pending[s], h, o, r, e)
  BY PublishedLeaves
<1> HIDE DEF e, a
<1>5. History(h, o, r, e)
  <2>1. History(h, o, r, d) /\ Sound(f.source, h, o, r, d)  BY <1>1, <1>3 DEF SessionInv, Good
  <2> DEFINE q == f.source
  <2>2. q \in Seq(Nat) /\ n \in 1..Len(q) /\ Sound(q, h, o, r, d) /\ Extends(e, d, q, n)
    BY <1>2, <1>4, <2>1
  <2> HIDE DEF q, h, o, r, d
  <2> QED  BY <1>2, <1>4, <2>1, <2>2, HistoryPublished
<1>6. /\ \A x \in Sessions : x # s => delivered'[x] = delivered[x] /\ withheld'[x] = withheld[x]
      /\ delivered'[s] = e /\ delivered' \in [Sessions -> Seq(Nat)]
      /\ withheld' \in [Sessions -> SUBSET Nat]
  BY <1>1, <1>3, <1>4 DEF Types
<1> QED  BY <1>3, <1>4, <1>5, <1>6, MovedInv DEF a

(* An answer with no event: what it leaves out is owed no more, and the    *)
(* cursor goes past it.                                                    *)
LEMMA PassedLeaves ==
  ASSUME NEW s \in Sessions, NEW page \in Pages(s), IInv, ReplayPasses(s, page)
  PROVE  LET a == Advanced(pending[s], Replay(s, page), 0)
             o == Owed(s)'
         IN /\ Leaves(a, pending[s], head[s], o, repeated[s], delivered[s])
            /\ a.entries = <<>>
<1> DEFINE p == pending[s]
           h == head[s]
           o == Owed(s)'
           r == repeated[s]
           d == delivered[s]
           g == Replay(s, page)
           u == page.throughSeq
           a == Advanced(p, g, 0)
<1>1. Types /\ SessionInv(s) /\ Answered(s, page) /\ page.entries = <<>> /\ UNCHANGED offered
  BY DEF IInv, ReplayPasses, Ends, host
<1>2. /\ h \in Nat /\ Owed(s) \in SUBSET Nat /\ r \in SUBSET Nat /\ d \in Seq(Nat)
      /\ p \in Pendings /\ p.cursor \in Nat /\ p.through \in Nat /\ p.entries \in Seq(Nat)
      /\ u \in Nat
  BY <1>1, SessionTypes, PageFacts
<1>3. /\ g.source = <<>> /\ g.upper = u /\ g.replayed /\ g.step = "publish"
      /\ ~closed /\ InMap(s) /\ o \in SUBSET Owed(s) /\ Linked(g, p, o)
  BY <1>1, AnsweredFacts
<1> HIDE DEF g
<1>4. /\ Buffer(p, h, Owed(s), r, d) /\ Remembered(p, TRUE, Owed(s), d)
  <2>1. flight[s] # NoFlight  BY <1>1 DEF Answered, NoFlight
  <2> QED  BY <1>1, <1>3, <2>1 DEF SessionInv, Good
<1>5. /\ p.entries = <<>> /\ p.replay /\ u <= p.through /\ p.cursor < u
      /\ \A m \in o : ~(p.cursor < m /\ m <= u)
  <2>1. Len(<<>>) = 0  OBVIOUS
  <2> QED  BY <1>3, <2>1 DEF Linked, Covers, Has
<1>6. a = [p EXCEPT !.entries = p.entries, !.cursor = u, !.retryAt = 0]
  <2>1. Len(<<>>) = 0  OBVIOUS
  <2> QED  BY <1>3, <2>1 DEF Advanced
<1> HIDE DEF a, u
<1>7. /\ a \in Pendings /\ a.cursor = u /\ a.through = p.through
      /\ a.entries = <<>> /\ a.replay
  <2> DEFINE x == p.entries
  <2>1. a = [p EXCEPT !.entries = x, !.cursor = u, !.retryAt = 0] /\ x \in Seq(Nat)
    BY <1>2, <1>6
  <2> HIDE DEF x
  <2>2. /\ a \in Pendings /\ a.cursor = u /\ a.through = p.through
        /\ a.entries = x /\ a.replay = p.replay
    BY <1>2, <2>1 DEF Pendings
  <2> QED  BY <1>5, <2>2 DEF x
<1>8. Within(u, p.through, <<>>, h, o, r, d)
  <2>1. p.through <= h /\ \A i \in 1..Len(d) : d[i] <= p.cursor \/ d[i] \in r
    BY <1>4 DEF Buffer, Within
  <2>2. \A i \in 1..Len(d) : d[i] \in Nat  BY <1>2
  <2>3. Sound(<<>>, h, o, r, d)  BY DEF Sound
  <2> QED  BY <1>2, <1>5, <2>1, <2>2, <2>3 DEF Within
<1>9. Remembered(a, TRUE, o, d)
  <2>1. ASSUME NEW m \in o PROVE Has(d, m) \/ (u < m /\ m <= p.through)
    <3>1. Has(d, m) \/ (p.cursor < m /\ m <= p.through)  BY <1>3, <1>4 DEF Remembered
    <3>2. m \in Nat  BY <1>2, <1>3
    <3> QED  BY <1>2, <1>5, <3>1, <3>2
  <2> QED  BY <1>7, <2>1 DEF Remembered
<1>10. Buffer(a, h, o, r, d)  BY <1>7, <1>8 DEF Buffer
<1> QED  BY <1>7, <1>9, <1>10 DEF Leaves, a, g

LEMMA PassesInv ==
  ASSUME NEW s \in Sessions, NEW page \in Pages(s), IInv, ReplayPasses(s, page) PROVE IInv'
<1> DEFINE o == Owed(s)'
           d == delivered[s]
           a == Advanced(pending[s], Replay(s, page), 0)
<1>1. Types /\ SessionInv(s) /\ Answered(s, page)  BY DEF IInv, ReplayPasses
<1>2. /\ UNCHANGED <<head, offered, repeated, closed, delivered>>
      /\ flight' = [flight EXCEPT ![s] = NoFlight]
      /\ Moves(s, Replay(s, page), 0)
  BY DEF ReplayPasses, Answered, Ends, host
<1>3. /\ ~closed /\ InMap(s) /\ o \in SUBSET Owed(s)
      /\ \A x \in Sessions : x # s => withheld'[x] = withheld[x]
      /\ withheld' \in [Sessions -> SUBSET Nat]
  BY <1>1, <1>2, AnsweredFacts
<1>4. Leaves(a, pending[s], head[s], o, repeated[s], d)  BY PassedLeaves
<1>5. History(head[s], o, repeated[s], d)
  <2>1. History(head[s], Owed(s), repeated[s], d)  BY <1>1 DEF SessionInv, Good
  <2> QED  BY <1>3, <2>1, Shrinks
<1>6. /\ delivered' \in [Sessions -> Seq(Nat)] /\ d = delivered'[s]
      /\ \A x \in Sessions : x # s => delivered'[x] = delivered[x]
  BY <1>1, <1>2 DEF Types
<1> HIDE DEF o, d, a
<1> QED  BY <1>2, <1>3, <1>4, <1>5, <1>6, MovedInv DEF o, a

-------------------------------------------------------------------------------
(* The count of what is buffered.                                          *)

Lengths == [s \in Sessions |-> Len(pending[s].entries)]

CountInv ==
    /\ \A s \in Sessions : ~InMap(s) => pending[s].entries = <<>>
    /\ IsFiniteSet(Columns(Sessions, Lengths))
    /\ buffered = Cardinality(Columns(Sessions, Lengths))
    /\ buffered <= MaxBuffered

LEMMA LengthsNat == ASSUME Types PROVE Lengths \in [Sessions -> Nat]
<1>1. ASSUME NEW s \in Sessions PROVE Len(pending[s].entries) \in Nat
  <2>1. pending[s].entries \in Seq(Nat)  BY SessionTypes
  <2> QED  BY <2>1
<1> QED  BY <1>1 DEF Lengths

LEMMA SameCount ==
  ASSUME CountInv, buffered' = buffered,
         \A s \in Sessions : pending'[s].entries = pending[s].entries /\ (InMap(s)' <=> InMap(s))
  PROVE  CountInv'
<1>1. Lengths' = Lengths  BY DEF Lengths
<1> QED  BY <1>1 DEF CountInv

LEMMA InitCount == Init => CountInv
<1> SUFFICES ASSUME Init PROVE CountInv  OBVIOUS
<1>1. \A s \in Sessions : pending[s].entries = <<>>  BY DEF Init, NotPending
<1>2. \A s \in Sessions : Lengths[s] = 0  BY <1>1 DEF Lengths
<1>3. IsFiniteSet(Columns(Sessions, Lengths)) /\ Cardinality(Columns(Sessions, Lengths)) = 0
  BY <1>2, NoColumns
<1>4. buffered = 0 /\ MaxBuffered \in Nat  BY BatcherConstants DEF Init
<1> QED  BY <1>1, <1>3, <1>4 DEF CountInv

(* enqueue() counts an event exactly when it keeps it.                     *)
LEMMA BufferedKeeps ==
  ASSUME NEW p \in Pendings, NEW n \in Nat, NEW chunk \in BOOLEAN
  PROVE  Woken(Buffered(p, n), chunk).entries =
             IF Fits(p) THEN Append(p.entries, n) ELSE p.entries
<1>1. Append(p.entries, n) \in Seq(Nat)  BY AppendFacts DEF Pendings
<1> DEFINE b == Buffered(p, n)
<1>2. b \in Pendings /\ b.entries = IF Fits(p) THEN Append(p.entries, n) ELSE p.entries
  <2>1. CASE Fits(p)
    <3>1. b = [p EXCEPT !.through = n, !.entries = Append(p.entries, n)]  BY <2>1 DEF Buffered
    <3> QED  BY <1>1, <2>1, <3>1 DEF Pendings
  <2>2. CASE ~Fits(p)  BY <2>2 DEF Buffered, Pendings
  <2> QED  BY <2>1, <2>2
<1> HIDE DEF b
<1>3. Woken(b, chunk).entries = b.entries  BY <1>2 DEF Woken, Pendings
<1> QED  BY <1>2, <1>3 DEF b

LEMMA EnqueueCounts ==
  ASSUME NEW s \in Sessions, NEW n \in Nat, n > 0, NEW chunk \in BOOLEAN, Types, CountInv,
         Enqueue(s, n, chunk)
  PROVE  CountInv'
<1> DEFINE p == Known(s, n)
<1>1. p \in Pendings /\ p.entries = pending[s].entries
  BY KnownFacts DEF CountInv
<1>2. CASE Refused(s, n)
  <2>1. UNCHANGED queue  BY <1>2 DEF Enqueue, Refused, Known
  <2> QED  BY <2>1, SameCount DEF queue, InMap
<1>3. CASE ~Refused(s, n)
  <2>1. /\ buffered' = buffered + (IF Fits(p) THEN 1 ELSE 0)
        /\ pending' = [pending EXCEPT ![s] = Woken(Buffered(p, n), chunk)]
        /\ \A x \in Sessions : InMap(x)' <=> InMap(x) \/ x = s
    <3>1. buffered' = buffered + (IF Fits(p) THEN 1 ELSE 0)  BY <1>3 DEF Enqueue, Refused, Known
    <3> QED  BY <1>3, <3>1, EnqueueCases
  <2> HIDE DEF p
  <2>2. /\ pending'[s].entries = IF Fits(p) THEN Append(pending[s].entries, n)
                                 ELSE pending[s].entries
        /\ \A x \in Sessions : x # s => pending'[x] = pending[x]
    <3>1. pending \in [Sessions -> Pendings]  BY DEF Types
    <3>2. pending'[s] = Woken(Buffered(p, n), chunk)  BY <2>1, <3>1
    <3> QED  BY <1>1, <2>1, <3>1, <3>2, BufferedKeeps
  <2>3. \A x \in Sessions : ~InMap(x)' => pending'[x].entries = <<>>
    BY <2>1, <2>2 DEF CountInv
  <2>4. CASE Fits(p)
    <3>1. Lengths'[s] = Lengths[s] + 1 /\ \A x \in Sessions : x # s => Lengths'[x] = Lengths[x]
      <4>1. pending[s].entries \in Seq(Nat)  BY SessionTypes
      <4> QED  BY <2>2, <2>4, <4>1, AppendFacts DEF Lengths
    <3>2. /\ IsFiniteSet(Columns(Sessions, Lengths'))
          /\ Cardinality(Columns(Sessions, Lengths')) = Cardinality(Columns(Sessions, Lengths)) + 1
      <4>1. Lengths \in [Sessions -> Nat] /\ IsFiniteSet(Columns(Sessions, Lengths))
        BY LengthsNat DEF CountInv
      <4> QED  BY <3>1, <4>1, ColumnGrows
    <3>3. Columns(Sessions, Lengths)' = Columns(Sessions, Lengths')  BY DEF Columns
    <3>4. buffered' = buffered + 1 /\ buffered' <= MaxBuffered
      <4>1. buffered \in Nat  BY FS_CardinalityType DEF CountInv
      <4>2. buffered < MaxBuffered /\ MaxBuffered \in Nat  BY <2>4, BatcherConstants DEF Fits
      <4> QED  BY <2>1, <2>4, <4>1, <4>2
    <3> QED  BY <2>3, <3>2, <3>3, <3>4 DEF CountInv
  <2>5. CASE ~Fits(p)
    <3>1. Lengths' = Lengths  BY <2>2, <2>5 DEF Lengths
    <3>2. buffered' = buffered
      <4>1. buffered \in Nat  BY FS_CardinalityType DEF CountInv
      <4> QED  BY <2>1, <2>5, <4>1
    <3> QED  BY <2>3, <3>1, <3>2 DEF CountInv
  <2> QED  BY <2>4, <2>5
<1> QED  BY <1>2, <1>3

(* A session that moves takes from the count what it published out of its  *)
(* buffer; what leaves the map leaves nothing in its buffer.               *)
LEMMA MovedCounts ==
  ASSUME NEW s \in Sessions, NEW f, NEW n, Types, OneEach, CountInv, InMap(s), Moves(s, f, n),
         NEW a \in Pendings, a = Advanced(pending[s], f, n), ~More(a) => a.entries = <<>>,
         f.replayed \in BOOLEAN, f.replayed \/ n \in 1..Len(pending[s].entries)
  PROVE  CountInv'
<1> DEFINE p == pending[s]
<1>1. /\ \A x \in Sessions : x # s => (InMap(x)' <=> InMap(x))
      /\ InMap(s)' <=> More(a)
  BY MovedPlaces
<1>2. /\ \A x \in Sessions : x # s => pending'[x] = pending[x]
      /\ pending'[s].entries = a.entries
  <2>1. NotPending.entries = <<>>  BY DEF NotPending
  <2> QED  BY <2>1, MovedPending
<1>3. \A x \in Sessions : ~InMap(x)' => pending'[x].entries = <<>>
  BY <1>1, <1>2 DEF CountInv
<1>4. p.entries \in Seq(Nat) /\ buffered \in Nat /\ MaxBuffered \in Nat /\ p \in Pendings
  BY SessionTypes, BatcherConstants, FS_CardinalityType DEF CountInv
<1>5. buffered' = buffered - (IF f.replayed THEN 0 ELSE n)  BY DEF Moves
<1>6. CASE f.replayed
  <2>1. a.entries = p.entries  BY <1>4, <1>6 DEF Advanced, Pendings
  <2>2. Lengths' = Lengths  BY <1>2, <2>1 DEF Lengths
  <2>3. buffered' = buffered  BY <1>4, <1>5, <1>6
  <2> QED  BY <1>3, <2>2, <2>3 DEF CountInv
<1>7. CASE ~f.replayed
  <2>1. n \in 1..Len(p.entries)  BY <1>7
  <2>2. a.entries = SubSeq(p.entries, n + 1, Len(p.entries))
    BY <1>4, <1>7 DEF Advanced, Pendings
  <2>3. Len(a.entries) = Len(p.entries) - n  BY <1>4, <2>1, <2>2, Rest
  <2>4. /\ Lengths'[s] = Lengths[s] - n /\ \A x \in Sessions : x # s => Lengths'[x] = Lengths[x]
        /\ n \in 0..Lengths[s]
    BY <1>2, <1>4, <2>1, <2>3 DEF Lengths
  <2>5. /\ IsFiniteSet(Columns(Sessions, Lengths'))
        /\ Cardinality(Columns(Sessions, Lengths')) = Cardinality(Columns(Sessions, Lengths)) - n
        /\ n <= Cardinality(Columns(Sessions, Lengths))
    <3>1. Lengths \in [Sessions -> Nat] /\ IsFiniteSet(Columns(Sessions, Lengths))
      BY LengthsNat DEF CountInv
    <3> QED  BY <2>4, <3>1, ColumnShrinks
  <2>6. Columns(Sessions, Lengths)' = Columns(Sessions, Lengths')  BY DEF Columns
  <2>7. buffered' = buffered - n /\ buffered' <= MaxBuffered
    BY <1>4, <1>5, <1>7, <2>1 DEF CountInv
  <2> QED  BY <1>3, <2>5, <2>6, <2>7 DEF CountInv
<1> QED  BY <1>6, <1>7

LEMMA PublishedCounts ==
  ASSUME NEW s \in Sessions, NEW n \in Nat, IInv, CountInv, Published(s, n)
  PROVE  CountInv'
<1> DEFINE f == flight[s]
           p == pending[s]
           a == Advanced(p, f, n)
<1>1. CASE closed
  <2>1. UNCHANGED queue  BY <1>1 DEF Published
  <2> QED  BY <2>1, SameCount DEF queue, InMap
<1>2. CASE ~closed
  <2>1. /\ InMap(s) /\ Linked(f, p, Owed(s)) /\ n \in 1..Len(f.source)
        /\ a \in Pendings /\ (~More(a) => a.entries = <<>>)
    <3> HIDE DEF a
    <3> QED  BY <1>2, PublishedLeaves, NoMore DEF a, Leaves
  <2>2. Types /\ OneEach /\ Moves(s, f, n)  BY <1>2 DEF IInv, Published
  <2>3. f.replayed \in BOOLEAN /\ f.source \in Seq(Nat) /\ p.entries \in Seq(Nat)
    BY <2>2, SessionTypes
  <2>4. ~f.replayed => n \in 1..Len(p.entries)
    <3>1. ~f.replayed => Len(f.source) <= Len(p.entries)  BY <2>1 DEF Linked
    <3>2. Len(f.source) \in Nat /\ Len(p.entries) \in Nat  BY <2>3
    <3> QED  BY <2>1, <3>1, <3>2
  <2> HIDE DEF a
  <2> QED  BY <2>1, <2>2, <2>3, <2>4, MovedCounts DEF a
<1> QED  BY <1>1, <1>2

LEMMA PassesCounts ==
  ASSUME NEW s \in Sessions, NEW page \in Pages(s), IInv, CountInv, ReplayPasses(s, page)
  PROVE  CountInv'
<1> DEFINE g == Replay(s, page)
           a == Advanced(pending[s], g, 0)
<1>1. /\ Types /\ OneEach /\ Moves(s, g, 0) /\ Answered(s, page) /\ UNCHANGED offered
  BY DEF IInv, ReplayPasses, Ends, host
<1>2. InMap(s) /\ g.replayed /\ g.replayed \in BOOLEAN  BY <1>1, AnsweredFacts DEF FlightRecords
<1>3. a \in Pendings /\ a.entries = <<>>  BY PassedLeaves DEF Leaves
<1> HIDE DEF g, a
<1> QED  BY <1>1, <1>2, <1>3, MovedCounts DEF a

(* Nothing else moves an event into a buffer or out of one, but close(),   *)
(* which empties them all.                                                 *)
LEMMA OtherCounts ==
  ASSUME Types, CountInv,
         \/ TimerFires \/ Tick \/ Flush \/ FlushGoesOn \/ UNCHANGED vars
         \/ \E s \in Sessions : \/ EventMissed(s) \/ Fails(s) \/ ReplayAfterClose(s)
                               \/ \E page \in Pages(s) : ReplayAnswers(s, page)
  PROVE  CountInv'
<1>1. UNCHANGED <<order, buffered>>
  BY DEF TimerFires, Tick, Flush, FlushGoesOn, vars, EventMissed, Fails, ReplayAfterClose,
         ReplayAnswers, queue
<1>2. pending \in [Sessions -> Pendings]  BY DEF Types
<1>3. ASSUME NEW x \in Sessions PROVE pending'[x].entries = pending[x].entries
  <2>1. pending[x] \in Pendings  BY <1>2
  <2>2. CASE Tick  BY <1>2, <2>1, <2>2 DEF Tick, Pendings
  <2>3. CASE Flush  BY <1>2, <2>1, <2>3 DEF Flush, Pendings
  <2>4. CASE \E s \in Sessions : Fails(s)
    <3>1. PICK s \in Sessions : Fails(s)  BY <2>4
    <3>2. pending' = pending \/ pending' = [pending EXCEPT ![s].retryAt = RetryDelay]
      BY <3>1 DEF Fails
    <3> QED  BY <1>2, <2>1, <3>2 DEF Pendings
  <2>5. CASE pending' = pending  BY <2>5
  <2> QED
    BY <2>2, <2>3, <2>4, <2>5 DEF TimerFires, FlushGoesOn, vars, EventMissed,
       ReplayAfterClose, ReplayAnswers, queue
<1> QED  BY <1>1, <1>3, SameCount DEF InMap

LEMMA CloseCounts == CountInv /\ Close => CountInv'
<1> SUFFICES ASSUME CountInv, Close PROVE CountInv'  OBVIOUS
<1>1. pending' = [s \in Sessions |-> NotPending] /\ buffered' = 0  BY DEF Close
<1>2. \A s \in Sessions : pending'[s].entries = <<>>  BY <1>1 DEF NotPending
<1>3. \A s \in Sessions : Lengths'[s] = 0  BY <1>2 DEF Lengths
<1>4. /\ IsFiniteSet(Columns(Sessions, Lengths'))
      /\ Cardinality(Columns(Sessions, Lengths')) = 0
  BY <1>3, NoColumns
<1>5. Columns(Sessions, Lengths)' = Columns(Sessions, Lengths')  BY DEF Columns
<1>6. MaxBuffered \in Nat  BY BatcherConstants
<1> QED  BY <1>1, <1>2, <1>4, <1>5, <1>6 DEF CountInv

LEMMA NextCount == IInv /\ CountInv /\ [Next]_vars => CountInv'
<1> SUFFICES ASSUME IInv, CountInv, [Next]_vars PROVE CountInv'  OBVIOUS
<1>1. Types  BY DEF IInv
<1>2. ASSUME NEW s \in Sessions, EventSteps(s) PROVE CountInv'
  <2>1. head[s] \in Nat  BY <1>1, SessionTypes
  <2>2. ASSUME NEW chunk \in BOOLEAN, EventArrives(s, chunk) PROVE CountInv'
    <3>1. Enqueue(s, head[s] + 1, chunk)  BY <1>1, <2>2 DEF EventArrives, Types
    <3> QED  BY <1>1, <2>1, <3>1, EnqueueCounts
  <2>3. ASSUME NEW chunk \in BOOLEAN, EventRepeats(s, chunk) PROVE CountInv'
    <3>1. Enqueue(s, head[s], chunk) /\ head[s] \in offered[s]  BY <2>3 DEF EventRepeats
    <3>2. head[s] > 0  BY <2>1, <3>1 DEF IInv, Offers
    <3> QED  BY <1>1, <2>1, <3>1, <3>2, EnqueueCounts
  <2> QED  BY <1>1, <1>2, <2>2, <2>3, OtherCounts DEF EventSteps
<1>3. ASSUME NEW s \in Sessions, ConsumeSteps(s) PROVE CountInv'
  <2>1. ASSUME NEW page \in Pages(s), ReplayAnswers(s, page) \/ ReplayPasses(s, page)
        PROVE  CountInv'
    BY <1>1, <2>1, OtherCounts, PassesCounts
  <2>2. CASE \E n \in 1..BatchItems : Published(s, n)
    <3>1. PICK n \in 1..BatchItems : Published(s, n)  BY <2>2
    <3>2. n \in Nat  BY BatcherConstants
    <3> QED  BY <3>1, <3>2, PublishedCounts
  <2>3. CASE Fails(s) \/ ReplayAfterClose(s)  BY <1>1, <2>3, OtherCounts
  <2> QED  BY <1>3, <2>1, <2>2, <2>3 DEF ConsumeSteps
<1> QED  BY <1>1, <1>2, <1>3, OtherCounts, CloseCounts DEF Next

-------------------------------------------------------------------------------
(* The theorems.                                                           *)

LEMMA NextInv == IInv /\ [Next]_vars => IInv'
<1> SUFFICES ASSUME IInv, [Next]_vars PROVE IInv'  OBVIOUS
<1>1. ASSUME NEW s \in Sessions, EventSteps(s) PROVE IInv'
  BY <1>1, ArrivesInv, RepeatsInv, MissedInv DEF EventSteps
<1>2. ASSUME NEW s \in Sessions, ConsumeSteps(s) PROVE IInv'
  <2>1. CASE Fails(s) \/ ReplayAfterClose(s)  BY <2>1, FailsInv
  <2>2. ASSUME NEW page \in Pages(s), ReplayAnswers(s, page) \/ ReplayPasses(s, page)
        PROVE  IInv'
    BY <2>2, AnswersInv, PassesInv
  <2>3. CASE \E n \in 1..BatchItems : Published(s, n)
    <3>1. PICK n \in 1..BatchItems : Published(s, n)  BY <2>3
    <3>2. n \in Nat  BY BatcherConstants
    <3> QED  BY <3>1, <3>2, PublishedInv
  <2> QED  BY <1>2, <2>1, <2>2, <2>3 DEF ConsumeSteps
<1>3. CASE UNCHANGED vars
  <2>1. /\ UNCHANGED <<host, order, closed, output>> /\ pending' = pending /\ flight' = flight
    BY <1>3 DEF vars, queue
  <2>2. pending' \in [Sessions -> Pendings]  BY <2>1 DEF IInv, Types
  <2> QED  BY <2>1, <2>2, LoopInv
<1> QED
  BY <1>1, <1>2, <1>3, TimerInv, TickInv, FlushInv, FlushGoesOnInv, CloseInv DEF Next

(* Each session's buffer, flight and history fit together, whatever comes  *)
(* in, fails or is closed while a batch is out.                            *)
THEOREM BatcherInvariant == Spec => []IInv
<1> QED  BY InitInv, NextInv, PTL DEF Spec

(* A session's events that are owed are published in the order in which    *)
(* they were taken, also when some were buffered and others read back.     *)
THEOREM BatcherInOrder == Spec => []InOrder
<1>1. IInv => InOrder
  BY DEF IInv, SessionInv, Good, History, InOrder, Positions
<1> QED  BY <1>1, BatcherInvariant, PTL

(* An event is published twice only if the subscription repeated it.       *)
THEOREM BatcherOnceEach == Spec => []OnceEach
<1>1. IInv => OnceEach
  BY DEF IInv, SessionInv, Good, History, OnceEach, Positions
<1> QED  BY <1>1, BatcherInvariant, PTL

(* Until the batcher is closed, an event that is owed is published or      *)
(* still between the cursor and the high-water mark of its session.        *)
THEOREM BatcherForgetsNothing == Spec => []NothingForgotten
<1>1. IInv => NothingForgotten
  <2> SUFFICES ASSUME IInv, ~closed, NEW s \in Sessions, NEW n \in Owed(s)
               PROVE  \/ n \in Range(delivered[s])
                      \/ InMap(s) /\ pending[s].cursor < n /\ n <= pending[s].through
    BY DEF NothingForgotten
  <2>1. Remembered(pending[s], InMap(s), Owed(s), delivered[s])
    BY DEF IInv, SessionInv, Good
  <2>2. n \in Range(delivered[s]) <=> Has(delivered[s], n)
    BY SessionTypes, RangeHas DEF IInv
  <2> QED  BY <2>1, <2>2 DEF Remembered
<1> QED  BY <1>1, BatcherInvariant, PTL

(* bufferedEntries is the number of events in the buffers of all sessions  *)
(* and never more than the limit: it neither leaks, which would make every *)
(* session read its history back, nor is it given back twice when the      *)
(* batcher closes while a batch is out.                                    *)
THEOREM BatcherBufferExact == Spec => []BufferExact
<1>1. IInv /\ CountInv => BufferExact
  <2> SUFFICES ASSUME IInv, CountInv PROVE BufferExact  OBVIOUS
  <2>1. ASSUME NEW s \in Sessions PROVE DOMAIN pending[s].entries = 1..Lengths[s]
    <3>1. pending[s].entries \in Seq(Nat)  BY SessionTypes DEF IInv
    <3> QED  BY <3>1 DEF Lengths
  <2>2. UNION {{s} \X DOMAIN pending[s].entries : s \in Sessions} = Columns(Sessions, Lengths)
    BY <2>1 DEF Columns
  <2> QED  BY <2>2 DEF CountInv, BufferExact
<1>2. Spec => []CountInv  BY BatcherInvariant, InitCount, NextCount, PTL DEF Spec
<1> QED  BY <1>1, <1>2, BatcherInvariant, PTL
===============================================================================
