---------------------------- MODULE LogFeed_proofs ----------------------------
(***************************************************************************)
(* Log lines are shown in order and only old ones are lost, for every       *)
(* capacity of the queue: the inductive invariant names the first line that *)
(* still waits to be parsed and places every other line before it.          *)
(***************************************************************************)
EXTENDS LogFeed, SequenceTheorems, TLAPS

\* The number of the first line that waits, or of the next line when none does.
FirstWaiting == emitted - Len(logs) + (IF at = 0 THEN 1 ELSE at)

\* The queue holds the last lines logged, without a gap.
QueueInv == \A i \in 1..Len(logs) : logs[i] = emitted - Len(logs) + i

\* What left the queue is older than what waits.
Older(s) == \A i \in 1..Len(s) : s[i] < FirstWaiting

ShownInv == Increasing(shown) /\ Older(shown) /\ Before(shown, rows)

RowsInv == Increasing(rows) /\ Older(rows)

PostedInv ==
    \A r \in 1..Len(posted) :
        /\ Increasing(posted[r]) /\ Older(posted[r])
        /\ Before(shown, posted[r]) /\ Before(posted[r], rows)
        /\ \A q \in 1..Len(posted) : r < q => Before(posted[r], posted[q])

\* Line n is in the view, on its way or parsed.
Away(n) ==
    \/ Contains(shown, n)
    \/ \E r \in 1..Len(posted) : Contains(posted[r], n)
    \/ Contains(rows, n)

KeptInv ==
    \A n \in 1..emitted :
        n > emitted - Capacity /\ n \notin broken /\ n < FirstWaiting => Away(n)

FeedInv == TypeOK /\ QueueInv /\ ShownInv /\ RowsInv /\ PostedInv /\ KeptInv

---------------------------------------------------------------------------

\* A line appended to a sequence of older lines keeps it increasing.
LEMMA AppendNewer ==
    ASSUME NEW s \in Seq(Lines), NEW x \in Lines, Increasing(s), \A i \in 1..Len(s) : s[i] < x
    PROVE  /\ Increasing(Append(s, x))
           /\ \A y \in Int : x < y => \A i \in 1..Len(Append(s, x)) : Append(s, x)[i] < y
<1>0. Lines \subseteq Int /\ \A i \in 1..Len(s) : s[i] \in Lines
      BY FeedAssumption DEF Lines
<1>1. /\ Len(Append(s, x)) = Len(s) + 1 /\ Len(s) \in Nat
      /\ \A i \in 1..Len(s) : Append(s, x)[i] = s[i] /\ s[i] \in Int
      /\ Append(s, x)[Len(s) + 1] = x /\ x \in Int
  <2>1. /\ Len(Append(s, x)) = Len(s) + 1
        /\ \A i \in 1..Len(s) : Append(s, x)[i] = s[i]
        /\ Append(s, x)[Len(s) + 1] = x
        BY AppendProperties
  <2> QED
        BY <1>0, <2>1, LenProperties
<1>2. ASSUME NEW i \in 1..Len(Append(s, x)), NEW j \in 1..Len(Append(s, x)), i < j
      PROVE  Append(s, x)[i] < Append(s, x)[j]
  <2>1. i \in 1..Len(s)
        BY <1>1, <1>2
  <2>2. CASE j \in 1..Len(s)
    <3>1. s[i] < s[j]
          BY <1>2, <2>1, <2>2 DEF Increasing
    <3> QED
          BY <3>1, <1>1, <2>1, <2>2
  <2>3. CASE j = Len(s) + 1
        BY <1>1, <2>1, <2>3
  <2> QED
        BY <1>1, <2>2, <2>3
<1>3. ASSUME NEW y \in Int, x < y, NEW i \in 1..Len(Append(s, x))
      PROVE  Append(s, x)[i] < y
  <2>1. CASE i \in 1..Len(s)
    <3>1. s[i] < x
          BY <2>1
    <3> QED
          BY <3>1, <1>1, <1>3, <2>1
  <2>2. CASE i = Len(s) + 1
        BY <1>1, <1>3, <2>2
  <2> QED
        BY <1>1, <2>1, <2>2
<1> QED
      BY <1>2, <1>3 DEF Increasing

\* A record of newer lines shown behind the view keeps it increasing.
LEMMA ShowNewer ==
    ASSUME NEW s \in Seq(Lines), NEW t \in Seq(Lines), Increasing(s), Increasing(t), Before(s, t)
    PROVE  /\ Increasing(s \o t)
           /\ \A u \in Seq(Lines) : Before(s, u) /\ Before(t, u) => Before(s \o t, u)
           /\ \A y : (\A i \in 1..Len(s) : s[i] < y) /\ (\A i \in 1..Len(t) : t[i] < y)
                        => \A i \in 1..Len(s \o t) : (s \o t)[i] < y
           /\ \A n : Contains(s, n) \/ Contains(t, n) => Contains(s \o t, n)
<1>1. /\ Len(s \o t) = Len(s) + Len(t) /\ Len(s) \in Nat /\ Len(t) \in Nat
      /\ \A i \in 1..(Len(s) + Len(t)) : (s \o t)[i] = IF i <= Len(s) THEN s[i] ELSE t[i - Len(s)]
      BY ConcatProperties
<1>2. ASSUME NEW i \in 1..Len(s \o t)
      PROVE  \/ i \in 1..Len(s) /\ (s \o t)[i] = s[i]
             \/ i - Len(s) \in 1..Len(t) /\ ~(i <= Len(s)) /\ (s \o t)[i] = t[i - Len(s)]
      BY <1>1
<1>3. ASSUME NEW i \in 1..Len(s \o t), NEW j \in 1..Len(s \o t), i < j
      PROVE  (s \o t)[i] < (s \o t)[j]
  <2>1. CASE i \in 1..Len(s) /\ j \in 1..Len(s)
    <3>1. s[i] < s[j]
          BY <1>3, <2>1 DEF Increasing
    <3> QED
          BY <3>1, <1>1, <2>1
  <2>2. CASE i \in 1..Len(s) /\ j - Len(s) \in 1..Len(t)
    <3>1. s[i] < t[j - Len(s)]
          BY <2>2 DEF Before
    <3> QED
          BY <3>1, <1>1, <2>2
  <2>3. CASE i - Len(s) \in 1..Len(t) /\ j - Len(s) \in 1..Len(t)
    <3>1. t[i - Len(s)] < t[j - Len(s)]
          BY <1>1, <1>3, <2>3 DEF Increasing
    <3> QED
          BY <3>1, <1>1, <2>3
  <2> QED
        BY <1>1, <1>3, <2>1, <2>2, <2>3
<1>4. ASSUME NEW u \in Seq(Lines), Before(s, u), Before(t, u),
             NEW i \in 1..Len(s \o t), NEW j \in 1..Len(u)
      PROVE  (s \o t)[i] < u[j]
      BY <1>2, <1>4 DEF Before
<1>5. ASSUME NEW y, \A i \in 1..Len(s) : s[i] < y, \A i \in 1..Len(t) : t[i] < y,
             NEW i \in 1..Len(s \o t)
      PROVE  (s \o t)[i] < y
      BY <1>2, <1>5
<1>6. ASSUME NEW n, Contains(s, n) \/ Contains(t, n)
      PROVE  Contains(s \o t, n)
  <2>1. ASSUME NEW i \in 1..Len(s), s[i] = n
        PROVE  Contains(s \o t, n)
    <3>1. i \in 1..Len(s \o t) /\ (s \o t)[i] = n
          BY <1>1, <2>1
    <3> QED
          BY <3>1 DEF Contains
  <2>2. ASSUME NEW i \in 1..Len(t), t[i] = n
        PROVE  Contains(s \o t, n)
    <3>1. i + Len(s) \in 1..Len(s \o t) /\ (i + Len(s)) - Len(s) = i /\ ~(i + Len(s) <= Len(s))
          BY <1>1
    <3>2. (s \o t)[i + Len(s)] = n
          BY <1>1, <2>2, <3>1
    <3> QED
          BY <3>1, <3>2 DEF Contains
  <2> QED
        BY <1>6, <2>1, <2>2 DEF Contains
<1> QED
      BY <1>3, <1>4, <1>5, <1>6 DEF Increasing, Before

\* Init satisfies the invariant: nothing has been logged.
LEMMA FeedInvInit == Init => FeedInv
<1> SUFFICES ASSUME Init PROVE FeedInv
      OBVIOUS
<1>1. /\ emitted = 0 /\ broken = {} /\ logs = <<>> /\ at = 0
      /\ rows = <<>> /\ posted = <<>> /\ shown = <<>>
      BY DEF Init
<1>2. Len(logs) = 0 /\ Len(rows) = 0 /\ Len(posted) = 0 /\ Len(shown) = 0
      BY <1>1
<1>3. TypeOK
      BY <1>1, <1>2, FeedAssumption DEF TypeOK
<1>4. QueueInv /\ ShownInv /\ RowsInv /\ PostedInv
      BY <1>2 DEF QueueInv, ShownInv, RowsInv, PostedInv, Increasing, Older, Before
<1>5. KeptInv
      BY <1>1 DEF KeptInv
<1> QED
      BY <1>3, <1>4, <1>5 DEF FeedInv

---------------------------------------------------------------------------
(* The steps: what each operation does to the conjuncts of the invariant. *)

\* The type of a step's state, for every operation.
LEMMA FeedTypes ==
    ASSUME TypeOK
    PROVE  /\ Lines \subseteq Int /\ Capacity \in Nat \ {0} /\ MaxLines \in Nat
           /\ emitted \in Nat /\ emitted <= MaxLines
           /\ Len(logs) \in Nat /\ Len(logs) <= Capacity
           /\ at \in Nat /\ at <= Len(logs) + 1
           /\ FirstWaiting \in Int
           /\ \A i \in 1..Len(logs) : logs[i] \in Lines
<1>1. Len(logs) \in Nat
      BY LenProperties DEF TypeOK
<1>2. MaxLines \in Nat /\ Capacity \in Nat \ {0}
      BY FeedAssumption
<1>3. emitted \in Nat /\ emitted <= MaxLines /\ Len(logs) <= Capacity
      BY <1>2 DEF TypeOK
<1>4. at \in Nat /\ at <= Len(logs) + 1
      BY <1>1 DEF TypeOK
<1>5. FirstWaiting \in Int
      BY <1>1, <1>3, <1>4 DEF FirstWaiting
<1>6. Lines \subseteq Int
      BY <1>2 DEF Lines
<1>7. \A i \in 1..Len(logs) : logs[i] \in Lines
      BY DEF TypeOK
<1> QED
      BY <1>1, <1>2, <1>3, <1>4, <1>5, <1>6, <1>7

\* A callback of the SDK adds a line: a full queue gives up its oldest line,
\* which is older than the last Capacity lines (logs.cpp: log).
LEMMA LogStep ==
    ASSUME FeedInv, Log
    PROVE  FeedInv'
<1>1. TypeOK /\ QueueInv /\ ShownInv /\ RowsInv /\ PostedInv /\ KeptInv
      BY DEF FeedInv
<1>2. /\ at = 0 /\ emitted < MaxLines /\ emitted' = emitted + 1
      /\ broken' \subseteq broken \cup {emitted'} /\ broken \subseteq broken'
      /\ logs' = Append(Room, emitted')
      /\ at' = at /\ rows' = rows /\ posted' = posted /\ shown' = shown
      BY DEF Log
<1>3. /\ Lines \subseteq Int /\ Capacity \in Nat \ {0} /\ MaxLines \in Nat
      /\ emitted \in Nat /\ Len(logs) \in Nat /\ Len(logs) <= Capacity
      BY <1>1, FeedTypes
<1> DEFINE lost == IF Len(logs) >= Capacity THEN 1 ELSE 0
<1>4. lost \in {0, 1} /\ (lost = 1 <=> Len(logs) = Capacity)
      BY <1>3
<1>5. /\ Room \in Seq(Lines) /\ Len(Room) = Len(logs) - lost
      /\ \A i \in 1..Len(Room) : Room[i] = logs[i + lost]
  <2>1. CASE lost = 1
    <3>1. logs # <<>> /\ logs \in Seq(Lines)
          BY <1>1, <1>3, <1>4, <2>1, EmptySeq DEF TypeOK
    <3>2. Room = Tail(logs)
          BY <1>3, <1>4, <2>1 DEF Room
    <3> QED
          BY <3>1, <3>2, <2>1, HeadTailProperties
  <2>2. CASE lost = 0
    <3>1. Room = logs /\ logs \in Seq(Lines)
          BY <1>1, <1>3, <1>4, <2>2 DEF Room, TypeOK
    <3> QED
          BY <3>1, <2>2, <1>3
  <2> QED
        BY <1>4, <2>1, <2>2
<1>6. emitted' \in Lines
      BY <1>2, <1>3 DEF Lines
<1> HIDE DEF lost
<1>7. /\ logs' \in Seq(Lines) /\ Len(logs') = Len(logs) - lost + 1
      /\ \A i \in 1..(Len(logs) - lost) : logs'[i] = logs[i + lost]
      /\ logs'[Len(logs) - lost + 1] = emitted'
  <2>1. /\ Append(Room, emitted') \in Seq(Lines)
        /\ Len(Append(Room, emitted')) = Len(Room) + 1
        /\ \A i \in 1..Len(Room) : Append(Room, emitted')[i] = Room[i]
        /\ Append(Room, emitted')[Len(Room) + 1] = emitted'
        BY <1>5, <1>6, AppendProperties
  <2> QED
        BY <2>1, <1>2, <1>5
<1>8. Len(logs) - lost + 1 <= Capacity /\ Len(logs) - lost \in Nat
      BY <1>3, <1>4
<1>9. TypeOK'
  <2>1. emitted' \in 0..MaxLines
        BY <1>2, <1>3
  <2>2. broken' \subseteq 1..emitted'
        BY <1>1, <1>2, <1>3 DEF TypeOK
  <2>3. at' \in 0..(Len(logs') + 1)
        BY <1>2, <1>7, <1>8
  <2> QED
        BY <1>1, <1>2, <1>7, <1>8, <2>1, <2>2, <2>3 DEF TypeOK
<1>10. QueueInv'
  <2>1. ASSUME NEW i \in 1..(Len(logs) - lost + 1)
        PROVE  logs'[i] = emitted' - (Len(logs) - lost + 1) + i
    <3>1. CASE i = Len(logs) - lost + 1
          BY <3>1, <1>2, <1>3, <1>4, <1>7
    <3>2. CASE i \in 1..(Len(logs) - lost)
      <4>1. i + lost \in 1..Len(logs)
            BY <3>2, <1>3, <1>4
      <4>2. logs[i + lost] = emitted - Len(logs) + (i + lost)
            BY <4>1, <1>1 DEF QueueInv
      <4> QED
            BY <4>2, <3>2, <1>2, <1>3, <1>4, <1>7
    <3> QED
          BY <3>1, <3>2, <1>8
  <2> QED
        BY <2>1, <1>7 DEF QueueInv
<1>11. FirstWaiting' = FirstWaiting + lost /\ FirstWaiting \in Int
  <2>1. FirstWaiting = emitted - Len(logs) + 1 /\ FirstWaiting' = emitted' - Len(logs') + 1
        BY <1>2 DEF FirstWaiting
  <2>2. lost \in Int
        BY <1>4
  <2>3. Len(logs') = Len(logs) - lost + 1 /\ emitted' = emitted + 1 /\ emitted \in Int /\ Len(logs) \in Int
        BY <1>2, <1>3, <1>7
  <2> QED
        BY <2>1, <2>2, <2>3
<1>12. ASSUME NEW s \in Seq(Lines), Older(s)
       PROVE  \A i \in 1..Len(s) : s[i] < FirstWaiting'
  <2>1. \A i \in 1..Len(s) : s[i] \in Lines
        OBVIOUS
  <2>2. \A i \in 1..Len(s) : s[i] \in Int
        BY <2>1, <1>3
  <2> QED
        BY <2>2, <1>4, <1>11, <1>12 DEF Older
<1>13. ShownInv'
  <2>1. \A i \in 1..Len(shown) : shown[i] < FirstWaiting'
        BY <1>1, <1>12 DEF ShownInv, TypeOK
  <2> QED
        BY <2>1, <1>1, <1>2 DEF ShownInv, Increasing, Before, Older
<1>14. RowsInv'
  <2>1. \A i \in 1..Len(rows) : rows[i] < FirstWaiting'
        BY <1>1, <1>12 DEF RowsInv, TypeOK
  <2> QED
        BY <2>1, <1>1, <1>2 DEF RowsInv, Increasing, Older
<1>15. PostedInv'
  <2>1. ASSUME NEW r \in 1..Len(posted)
        PROVE  \A i \in 1..Len(posted[r]) : posted[r][i] < FirstWaiting'
    <3>1. posted[r] \in Seq(Lines) /\ Older(posted[r])
          BY <1>1 DEF PostedInv, TypeOK
    <3> QED
          BY <3>1, <1>12
  <2> QED
        BY <2>1, <1>1, <1>2 DEF PostedInv, Increasing, Before, Older
<1>16. KeptInv'
  <2>1. ASSUME NEW n \in 1..emitted', n > emitted' - Capacity, n \notin broken', n < FirstWaiting'
        PROVE  Away(n)
    <3>1. n \in 1..emitted /\ n > emitted - Capacity
      <4>1. FirstWaiting' = emitted - Len(logs) + lost + 1
            BY <1>2, <1>7, <1>3, <1>4, <1>11 DEF FirstWaiting
      <4>2. FirstWaiting' <= emitted'
            BY <4>1, <1>2, <1>3, <1>8, <1>4
      <4> QED
            BY <4>2, <4>1, <2>1, <1>2, <1>3, <1>4
    <3>2. n # FirstWaiting \/ lost = 0
          BY <1>2, <1>3, <1>4, <2>1 DEF FirstWaiting
    <3>3. n < FirstWaiting
          BY <3>1, <3>2, <2>1, <1>4, <1>11
    <3>4. n \notin broken
          BY <2>1, <1>2
    <3> QED
          BY <3>1, <3>3, <3>4, <1>1 DEF KeptInv
  <2>2. ASSUME NEW n PROVE Away(n)' <=> Away(n)
        BY <1>2 DEF Away, Contains
  <2> QED
        BY <2>1, <2>2 DEF KeptInv
<1> QED
      BY <1>9, <1>10, <1>13, <1>14, <1>15, <1>16 DEF FeedInv

\* Taking and releasing the mutex moves no line: what the worker has parsed is
\* not in the queue any more (logs.cpp: logs).
LEMMA DrainStep ==
    ASSUME FeedInv, BeginDrain \/ EndDrain
    PROVE  FeedInv'
<1>1. TypeOK /\ QueueInv /\ ShownInv /\ RowsInv /\ PostedInv /\ KeptInv
      BY DEF FeedInv
<1>2. /\ emitted' = emitted /\ broken' = broken
      /\ rows' = rows /\ posted' = posted /\ shown' = shown
      BY DEF BeginDrain, EndDrain
<1>3. /\ emitted \in Nat /\ Len(logs) \in Nat
      BY <1>1, FeedTypes
<1>4. TypeOK' /\ QueueInv' /\ FirstWaiting' = FirstWaiting
  <2>1. CASE BeginDrain
    <3>1. at = 0 /\ at' = 1 /\ logs' = logs
          BY <2>1 DEF BeginDrain
    <3>2. at' \in 0..(Len(logs') + 1)
          BY <3>1, <1>3
    <3> QED
          BY <3>1, <3>2, <1>1, <1>2 DEF TypeOK, QueueInv, FirstWaiting
  <2>2. CASE EndDrain
    <3>1. at = Len(logs) + 1 /\ at' = 0 /\ logs' = <<>> /\ Len(logs') = 0 /\ logs' \in Seq(Lines)
          BY <2>2 DEF EndDrain, Drained
    <3>2. at # 0
          BY <3>1, <1>3
    <3>3. FirstWaiting' = FirstWaiting
          BY <3>1, <3>2, <1>2, <1>3 DEF FirstWaiting
    <3>4. TypeOK'
          BY <3>1, <1>1, <1>2, FeedAssumption DEF TypeOK
    <3>5. QueueInv'
          BY <3>1 DEF QueueInv
    <3> QED
          BY <3>3, <3>4, <3>5
  <2> QED
        BY <2>1, <2>2
<1>5. ShownInv' /\ RowsInv' /\ PostedInv'
  <2>1. ShownInv' /\ RowsInv'
        BY <1>1, <1>2, <1>4 DEF ShownInv, RowsInv, Increasing, Before, Older
  <2>2. ASSUME NEW r \in 1..Len(posted)
        PROVE  /\ Increasing(posted[r])' /\ Older(posted[r])'
               /\ Before(shown, posted[r])' /\ Before(posted[r], rows)'
               /\ \A q \in 1..Len(posted) : r < q => Before(posted[r], posted[q])'
    <3>1. Increasing(posted[r])' /\ Older(posted[r])'
          BY <1>1, <1>2, <1>4 DEF PostedInv, Increasing, Older
    <3>2. Before(shown, posted[r])' /\ Before(posted[r], rows)'
          BY <1>1, <1>2 DEF PostedInv, Before
    <3>3. \A q \in 1..Len(posted) : r < q => Before(posted[r], posted[q])'
          BY <1>1, <1>2 DEF PostedInv, Before
    <3> QED
          BY <3>1, <3>2, <3>3
  <2>3. PostedInv'
        BY <2>2, <1>2 DEF PostedInv
  <2> QED
        BY <2>1, <2>3
<1>6. KeptInv'
      BY <1>1, <1>2, <1>4 DEF KeptInv, Away, Contains
<1> QED
      BY <1>4, <1>5, <1>6 DEF FeedInv

\* The worker parses the first line that waits: it joins the rows unless it is
\* no JSON, and is older than what still waits (logs.cpp: logs).
LEMMA ParseStep ==
    ASSUME FeedInv, Parse
    PROVE  FeedInv'
<1>1. TypeOK /\ QueueInv /\ ShownInv /\ RowsInv /\ PostedInv /\ KeptInv
      BY DEF FeedInv
<1>2. /\ emitted' = emitted /\ broken' = broken /\ logs' = logs
      /\ posted' = posted /\ shown' = shown
      /\ at \in 1..Len(logs) /\ at' = at + 1
      /\ rows' = IF logs[at] \in broken THEN rows ELSE Append(rows, logs[at])
      BY DEF Parse
<1>3. /\ Lines \subseteq Int /\ emitted \in Nat /\ Len(logs) \in Nat /\ logs[at] \in Lines
      /\ FirstWaiting \in Int
      BY <1>1, <1>2, FeedTypes
<1>4. logs[at] = FirstWaiting /\ FirstWaiting' = FirstWaiting + 1
  <2>1. at # 0 /\ at' # 0
        BY <1>2, <1>3
  <2>2. FirstWaiting = emitted - Len(logs) + at
        BY <2>1 DEF FirstWaiting
  <2>3. FirstWaiting' = emitted - Len(logs) + (at + 1)
        BY <2>1, <1>2 DEF FirstWaiting
  <2>4. logs[at] = emitted - Len(logs) + at
        BY <1>1, <1>2 DEF QueueInv
  <2> QED
        BY <2>2, <2>3, <2>4, <1>2, <1>3
<1>5. rows \in Seq(Lines) /\ shown \in Seq(Lines) /\ posted \in Seq(Seq(Lines))
      BY <1>1 DEF TypeOK
<1>6. ASSUME NEW s \in Seq(Lines), Older(s)
      PROVE  /\ \A i \in 1..Len(s) : s[i] < FirstWaiting'
             /\ Before(s, rows) => Before(s, rows')
  <2>0. \A i \in 1..Len(s) : s[i] \in Lines
        OBVIOUS
  <2>1. \A i \in 1..Len(s) : s[i] \in Int
        BY <2>0, <1>3
  <2>2. \A i \in 1..Len(s) : s[i] < FirstWaiting'
        BY <2>1, <1>3, <1>4, <1>6 DEF Older
  <2>3. ASSUME Before(s, rows)
        PROVE  Before(s, rows')
    <3>1. CASE logs[at] \in broken
          BY <3>1, <2>3, <1>2
    <3>2. CASE logs[at] \notin broken
      <4>1. /\ Len(rows') = Len(rows) + 1 /\ rows'[Len(rows) + 1] = FirstWaiting
            /\ \A j \in 1..Len(rows) : rows'[j] = rows[j]
            BY <3>2, <1>2, <1>3, <1>4, <1>5, AppendProperties
      <4>2. Len(rows) \in Nat
            BY <1>5, LenProperties
      <4>3. ASSUME NEW i \in 1..Len(s), NEW j \in 1..Len(rows')
            PROVE  s[i] < rows'[j]
        <5>1. CASE j \in 1..Len(rows)
              BY <5>1, <4>1, <2>3 DEF Before
        <5>2. CASE j = Len(rows) + 1
              BY <5>2, <4>1, <1>6 DEF Older
        <5> QED
              BY <5>1, <5>2, <4>1, <4>2
      <4> QED
            BY <4>3 DEF Before
    <3> QED
          BY <3>1, <3>2
  <2> QED
        BY <2>2, <2>3
<1>7. TypeOK'
  <2>1. rows' \in Seq(Lines)
        BY <1>2, <1>3, <1>5, AppendProperties
  <2>2. at' \in 0..(Len(logs') + 1)
        BY <1>2, <1>3
  <2> QED
        BY <2>1, <2>2, <1>1, <1>2 DEF TypeOK
<1>8. QueueInv'
      BY <1>1, <1>2 DEF QueueInv
<1>9. ShownInv'
  <2>1. Increasing(shown) /\ Older(shown) /\ Before(shown, rows)
        BY <1>1 DEF ShownInv
  <2>2. (\A i \in 1..Len(shown) : shown[i] < FirstWaiting') /\ Before(shown, rows')
        BY <2>1, <1>5, <1>6
  <2> QED
        BY <2>1, <2>2, <1>2 DEF ShownInv, Increasing, Before, Older
<1>10. RowsInv'
  <2>1. Increasing(rows) /\ Older(rows)
        BY <1>1 DEF RowsInv
  <2>2. CASE logs[at] \in broken
    <3>1. rows' = rows /\ \A i \in 1..Len(rows) : rows[i] < FirstWaiting'
          BY <2>2, <2>1, <1>2, <1>5, <1>6
    <3> QED
          BY <3>1, <2>1 DEF RowsInv, Increasing, Older
  <2>3. CASE logs[at] \notin broken
    <3>1. rows' = Append(rows, FirstWaiting) /\ FirstWaiting \in Lines
          BY <2>3, <1>2, <1>3, <1>4
    <3>2. \A i \in 1..Len(rows) : rows[i] < FirstWaiting
          BY <2>1 DEF Older
    <3>3. FirstWaiting' \in Int /\ FirstWaiting < FirstWaiting'
          BY <1>3, <1>4
    <3>4. /\ Increasing(rows')
          /\ \A y \in Int : FirstWaiting < y => \A i \in 1..Len(rows') : rows'[i] < y
          BY <3>1, <3>2, <2>1, <1>5, AppendNewer
    <3>5. \A i \in 1..Len(rows') : rows'[i] < FirstWaiting'
          BY <3>3, <3>4
    <3> QED
          BY <3>4, <3>5 DEF RowsInv, Increasing, Older
  <2> QED
        BY <2>2, <2>3
<1>11. PostedInv'
  <2>1. ASSUME NEW r \in 1..Len(posted)
        PROVE  /\ Increasing(posted[r])' /\ Older(posted[r])'
               /\ Before(shown, posted[r])' /\ Before(posted[r], rows)'
               /\ \A q \in 1..Len(posted) : r < q => Before(posted[r], posted[q])'
    <3>1. posted[r] \in Seq(Lines) /\ Older(posted[r]) /\ Before(posted[r], rows)
          BY <1>1, <1>5 DEF PostedInv
    <3>2. (\A i \in 1..Len(posted[r]) : posted[r][i] < FirstWaiting') /\ Before(posted[r], rows')
          BY <3>1, <1>6
    <3>3. Increasing(posted[r])' /\ Older(posted[r])'
          BY <3>2, <1>1, <1>2 DEF PostedInv, Increasing, Older
    <3>4. Before(shown, posted[r])' /\ Before(posted[r], rows)'
          BY <3>2, <1>1, <1>2 DEF PostedInv, Before
    <3>5. \A q \in 1..Len(posted) : r < q => Before(posted[r], posted[q])'
          BY <1>1, <1>2 DEF PostedInv, Before
    <3> QED
          BY <3>3, <3>4, <3>5
  <2> QED
        BY <2>1, <1>2 DEF PostedInv
<1>12. KeptInv'
  <2>1. ASSUME NEW n, Contains(rows, n)
        PROVE  Contains(rows, n)'
    <3>1. PICK i \in 1..Len(rows) : rows[i] = n
          BY <2>1 DEF Contains
    <3>2. CASE logs[at] \in broken
          BY <3>2, <2>1, <1>2
    <3>3. CASE logs[at] \notin broken
      <4>1. Len(rows) \in Nat
            BY <1>5, LenProperties
      <4>2. i \in 1..Len(rows') /\ rows'[i] = n
            BY <3>1, <3>3, <4>1, <1>2, <1>3, <1>5, AppendProperties
      <4> QED
            BY <4>2 DEF Contains
    <3> QED
          BY <3>2, <3>3
  <2>2. ASSUME NEW n, Away(n)
        PROVE  Away(n)'
    <3>1. Contains(shown, n) => Contains(shown, n)'
          BY <1>2 DEF Contains
    <3>2. \A r \in 1..Len(posted) : Contains(posted[r], n) => Contains(posted[r], n)'
          BY <1>2 DEF Contains
    <3> QED
          BY <2>1, <2>2, <3>1, <3>2, <1>2 DEF Away
  <2>3. ASSUME NEW n, n = FirstWaiting, n \notin broken
        PROVE  Away(n)'
    <3>1. rows' = Append(rows, n) /\ n \in Lines
          BY <2>3, <1>2, <1>3, <1>4
    <3>2. /\ Len(rows) \in Nat /\ Len(rows') = Len(rows) + 1
          /\ rows'[Len(rows) + 1] = n
          BY <3>1, <1>5, AppendProperties, LenProperties
    <3>3. Len(rows) + 1 \in 1..Len(rows')
          BY <3>2
    <3>4. Contains(rows, n)'
          BY <3>2, <3>3 DEF Contains
    <3> QED
          BY <3>4 DEF Away
  <2>4. ASSUME NEW n \in 1..emitted, n > emitted - Capacity, n \notin broken, n < FirstWaiting'
        PROVE  Away(n)'
    <3>1. CASE n < FirstWaiting
      <4>1. Away(n)
            BY <3>1, <2>4, <1>1 DEF KeptInv
      <4> QED
            BY <4>1, <2>2
    <3>2. CASE n = FirstWaiting
          BY <3>2, <2>3, <2>4
    <3> QED
          BY <3>1, <3>2, <2>4, <1>3, <1>4
  <2> QED
        BY <2>4, <1>2 DEF KeptInv
<1> QED
      BY <1>7, <1>8, <1>9, <1>10, <1>11, <1>12 DEF FeedInv

\* The rows of a drain become the last record on its way (worker.cpp: run).
LEMMA PostStep ==
    ASSUME FeedInv, Post
    PROVE  FeedInv'
<1>1. TypeOK /\ QueueInv /\ ShownInv /\ RowsInv /\ PostedInv /\ KeptInv
      BY DEF FeedInv
<1>2. /\ emitted' = emitted /\ broken' = broken /\ logs' = logs /\ at' = at /\ shown' = shown
      /\ posted' = Append(posted, rows) /\ rows' = <<>>
      BY DEF Post
<1>3. rows \in Seq(Lines) /\ shown \in Seq(Lines) /\ posted \in Seq(Seq(Lines))
      BY <1>1 DEF TypeOK
<1>4. /\ Len(posted) \in Nat /\ Len(posted') = Len(posted) + 1
      /\ posted' \in Seq(Seq(Lines))
      /\ \A r \in 1..Len(posted) : posted'[r] = posted[r]
      /\ posted'[Len(posted) + 1] = rows
      BY <1>2, <1>3, AppendProperties, LenProperties
<1>5. rows' \in Seq(Lines) /\ Len(rows') = 0
      BY <1>2
<1>6. TypeOK' /\ QueueInv'
      BY <1>1, <1>2, <1>4, <1>5 DEF TypeOK, QueueInv
<1>7. FirstWaiting' = FirstWaiting
      BY <1>2 DEF FirstWaiting
<1>8. ShownInv'
      BY <1>1, <1>2, <1>5, <1>7 DEF ShownInv, Increasing, Before, Older
<1>9. RowsInv'
      BY <1>5 DEF RowsInv, Increasing, Older
<1>10. PostedInv'
  <2>1. ASSUME NEW r \in 1..Len(posted')
        PROVE  /\ Increasing(posted'[r])
               /\ \A i \in 1..Len(posted'[r]) : posted'[r][i] < FirstWaiting
               /\ Before(shown, posted'[r])
               /\ \A q \in 1..Len(posted') : r < q => Before(posted'[r], posted'[q])
    <3>1. CASE r \in 1..Len(posted)
      <4>1. /\ Increasing(posted[r]) /\ Older(posted[r])
            /\ Before(shown, posted[r]) /\ Before(posted[r], rows)
            BY <3>1, <1>1 DEF PostedInv
      <4>2. ASSUME NEW q \in 1..Len(posted'), r < q
            PROVE  Before(posted[r], posted'[q])
        <5>1. CASE q \in 1..Len(posted)
          <6>1. Before(posted[r], posted[q])
                BY <3>1, <4>2, <5>1, <1>1 DEF PostedInv
          <6> QED
                BY <6>1, <5>1, <1>4
        <5>2. CASE q = Len(posted) + 1
              BY <5>2, <4>1, <1>4
        <5> QED
              BY <5>1, <5>2, <1>4
      <4>3. posted'[r] = posted[r]
            BY <3>1, <1>4
      <4> QED
            BY <4>1, <4>2, <4>3 DEF Older
    <3>2. CASE r = Len(posted) + 1
      <4>1. posted'[r] = rows /\ \A q \in 1..Len(posted') : ~(r < q)
            BY <3>2, <1>4
      <4>2. Increasing(rows) /\ Older(rows) /\ Before(shown, rows)
            BY <1>1 DEF RowsInv, ShownInv
      <4> QED
            BY <4>1, <4>2 DEF Older
    <3> QED
          BY <3>1, <3>2, <1>4
  <2>2. ASSUME NEW r \in 1..Len(posted')
        PROVE  /\ Increasing(posted[r])' /\ Older(posted[r])'
               /\ Before(shown, posted[r])' /\ Before(posted[r], rows)'
               /\ \A q \in 1..Len(posted') : r < q => Before(posted[r], posted[q])'
    <3>1. Increasing(posted[r])'
          BY <2>1 DEF Increasing
    <3>2. Older(posted[r])'
          BY <2>1, <1>7 DEF Older
    <3>3. Before(shown, posted[r])'
          BY <2>1, <1>2 DEF Before
    <3>4. Before(posted[r], rows)'
          BY <1>5 DEF Before
    <3>5. \A q \in 1..Len(posted') : r < q => Before(posted[r], posted[q])'
          BY <2>1 DEF Before
    <3> QED
          BY <3>1, <3>2, <3>3, <3>4, <3>5
  <2> QED
        BY <2>2 DEF PostedInv
<1>11. KeptInv'
  <2>1. ASSUME NEW n, Away(n)
        PROVE  Away(n)'
    <3>1. CASE Contains(shown, n)
          BY <3>1, <1>2 DEF Away, Contains
    <3>2. ASSUME NEW r \in 1..Len(posted), Contains(posted[r], n)
          PROVE  Away(n)'
      <4>1. r \in 1..Len(posted') /\ Contains(posted[r], n)'
            BY <3>2, <1>4 DEF Contains
      <4> QED
            BY <4>1 DEF Away
    <3>3. CASE Contains(rows, n)
      <4>1. Len(posted) + 1 \in 1..Len(posted') /\ Contains(posted'[Len(posted) + 1], n)
            BY <3>3, <1>4
      <4>2. \E r \in 1..Len(posted') : Contains(posted'[r], n)
            BY <4>1
      <4> QED
            BY <4>2 DEF Away, Contains
    <3> QED
          BY <2>1, <3>1, <3>2, <3>3 DEF Away
  <2> QED
        BY <2>1, <1>1, <1>2, <1>7 DEF KeptInv
<1> QED
      BY <1>6, <1>8, <1>9, <1>10, <1>11 DEF FeedInv

\* The oldest record joins the view (app.cpp: Frame::result).
LEMMA ShowStep ==
    ASSUME FeedInv, Show
    PROVE  FeedInv'
<1>1. TypeOK /\ QueueInv /\ ShownInv /\ RowsInv /\ PostedInv /\ KeptInv
      BY DEF FeedInv
<1> DEFINE first == posted[1]
<1>2. /\ emitted' = emitted /\ broken' = broken /\ logs' = logs /\ at' = at /\ rows' = rows
      /\ posted # <<>> /\ posted' = Tail(posted) /\ shown' = shown \o first
      BY DEF Show
<1>3. rows \in Seq(Lines) /\ shown \in Seq(Lines) /\ posted \in Seq(Seq(Lines))
      BY <1>1 DEF TypeOK
<1>4. /\ Len(posted) \in Nat \ {0} /\ Len(posted') = Len(posted) - 1
      /\ posted' \in Seq(Seq(Lines))
      /\ \A r \in 1..Len(posted') : posted'[r] = posted[r + 1]
      BY <1>2, <1>3, HeadTailProperties, EmptySeq, LenProperties
<1>5. /\ first \in Seq(Lines) /\ 1 \in 1..Len(posted)
      /\ Increasing(first) /\ Older(first) /\ Before(first, rows) /\ Before(shown, first)
      /\ \A q \in 1..Len(posted) : 1 < q => Before(first, posted[q])
  <2>1. 1 \in 1..Len(posted)
        BY <1>4
  <2> QED
        BY <2>1, <1>1, <1>3 DEF PostedInv
<1>6. Increasing(shown) /\ Older(shown) /\ Before(shown, rows)
      BY <1>1 DEF ShownInv
<1> HIDE DEF first
<1>7. /\ Increasing(shown')
      /\ \A u \in Seq(Lines) : Before(shown, u) /\ Before(first, u) => Before(shown', u)
      /\ \A i \in 1..Len(shown') : shown'[i] < FirstWaiting
      /\ \A n : Contains(shown, n) \/ Contains(first, n) => Contains(shown', n)
      /\ shown' \in Seq(Lines)
  <2>1. (\A i \in 1..Len(shown) : shown[i] < FirstWaiting) /\ \A i \in 1..Len(first) : first[i] < FirstWaiting
        BY <1>5, <1>6 DEF Older
  <2>2. /\ Increasing(shown \o first)
        /\ \A u \in Seq(Lines) : Before(shown, u) /\ Before(first, u) => Before(shown \o first, u)
        /\ \A y : (\A i \in 1..Len(shown) : shown[i] < y) /\ (\A i \in 1..Len(first) : first[i] < y)
                     => \A i \in 1..Len(shown \o first) : (shown \o first)[i] < y
        /\ \A n : Contains(shown, n) \/ Contains(first, n) => Contains(shown \o first, n)
        BY <1>3, <1>5, <1>6, ShowNewer
  <2>3. \A i \in 1..Len(shown \o first) : (shown \o first)[i] < FirstWaiting
        BY <2>1, <2>2
  <2>4. shown \o first \in Seq(Lines)
        BY <1>3, <1>5, ConcatProperties
  <2> QED
        BY <2>2, <2>3, <2>4, <1>2
<1>8. TypeOK' /\ QueueInv'
      BY <1>1, <1>2, <1>4, <1>7 DEF TypeOK, QueueInv
<1>9. FirstWaiting' = FirstWaiting
      BY <1>2 DEF FirstWaiting
<1>10. ShownInv'
  <2>1. Before(shown', rows)
        BY <1>3, <1>5, <1>6, <1>7
  <2> QED
        BY <2>1, <1>2, <1>7, <1>9 DEF ShownInv, Increasing, Before, Older
<1>11. RowsInv'
      BY <1>1, <1>2, <1>9 DEF RowsInv, Increasing, Older
<1>12. PostedInv'
  <2>1. ASSUME NEW r \in 1..Len(posted')
        PROVE  /\ Increasing(posted[r])' /\ Older(posted[r])'
               /\ Before(shown, posted[r])' /\ Before(posted[r], rows)'
               /\ \A q \in 1..Len(posted') : r < q => Before(posted[r], posted[q])'
    <3>1. /\ posted'[r] = posted[r + 1] /\ r + 1 \in 1..Len(posted) /\ 1 < r + 1
          /\ posted[r + 1] \in Seq(Lines)
      <4>1. r + 1 \in 1..Len(posted) /\ 1 < r + 1
            BY <1>4
      <4>2. posted[r + 1] \in Seq(Lines)
            BY <4>1, <1>3
      <4> QED
            BY <4>1, <4>2, <1>4
    <3>2. /\ Increasing(posted[r + 1]) /\ Older(posted[r + 1])
          /\ Before(shown, posted[r + 1]) /\ Before(posted[r + 1], rows)
          /\ \A q \in 1..Len(posted) : r + 1 < q => Before(posted[r + 1], posted[q])
          BY <3>1, <1>1 DEF PostedInv
    <3>3. Before(shown', posted[r + 1])
          BY <3>1, <3>2, <1>5, <1>7
    <3>4. Increasing(posted[r])' /\ Older(posted[r])'
          BY <3>1, <3>2, <1>9 DEF Increasing, Older
    <3>5. Before(shown, posted[r])' /\ Before(posted[r], rows)'
          BY <3>1, <3>2, <3>3, <1>2 DEF Before
    <3>6. ASSUME NEW q \in 1..Len(posted'), r < q
          PROVE  Before(posted[r], posted[q])'
      <4>1. posted'[q] = posted[q + 1]
            BY <1>4
      <4>2. q + 1 \in 1..Len(posted) /\ r + 1 < q + 1
        <5>1. Len(posted) \in Nat /\ Len(posted') = Len(posted) - 1
              BY <1>4
        <5> QED
              BY <5>1, <3>6
      <4>3. Before(posted[r + 1], posted[q + 1])
            BY <4>2, <3>2
      <4> QED
            BY <4>1, <4>3, <3>1 DEF Before
    <3> QED
          BY <3>4, <3>5, <3>6
  <2> QED
        BY <2>1 DEF PostedInv
<1>13. KeptInv'
  <2>1. ASSUME NEW n, Away(n)
        PROVE  Away(n)'
    <3>1. ASSUME Contains(shown, n) \/ Contains(first, n)
          PROVE  Away(n)'
      <4>1. Contains(shown', n)
            BY <3>1, <1>7
      <4> QED
            BY <4>1 DEF Away, Contains
    <3>2. ASSUME NEW r \in 1..Len(posted), Contains(posted[r], n), r # 1
          PROVE  Away(n)'
      <4>1. r - 1 \in 1..Len(posted') /\ posted'[r - 1] = posted[r]
            BY <3>2, <1>4
      <4>2. \E q \in 1..Len(posted') : Contains(posted'[q], n)
            BY <4>1, <3>2
      <4> QED
            BY <4>2 DEF Away, Contains
    <3>3. CASE Contains(rows, n)
          BY <3>3, <1>2 DEF Away, Contains
    <3> QED
          BY <2>1, <3>1, <3>2, <3>3 DEF Away, first
  <2> QED
        BY <2>1, <1>1, <1>2, <1>9 DEF KeptInv
<1> QED
      BY <1>8, <1>10, <1>11, <1>12, <1>13 DEF FeedInv

\* A step that changes nothing keeps the invariant.
LEMMA FeedStutter ==
    ASSUME FeedInv, UNCHANGED vars
    PROVE  FeedInv'
<1>1. /\ emitted' = emitted /\ broken' = broken /\ logs' = logs /\ at' = at
      /\ rows' = rows /\ posted' = posted /\ shown' = shown
      BY DEF vars
<1>2. FirstWaiting' = FirstWaiting
      BY <1>1 DEF FirstWaiting
<1>3. TypeOK' /\ QueueInv' /\ ShownInv' /\ RowsInv'
      BY <1>1, <1>2 DEF FeedInv, TypeOK, QueueInv, ShownInv, RowsInv, Increasing, Before, Older
<1>4. KeptInv'
      BY <1>1, <1>2 DEF FeedInv, KeptInv, Away, Contains
<1>5. PostedInv'
  <2>1. PostedInv
        BY DEF FeedInv
  <2>2. ASSUME NEW r \in 1..Len(posted)
        PROVE  /\ Increasing(posted[r])' /\ Older(posted[r])'
               /\ Before(shown, posted[r])' /\ Before(posted[r], rows)'
    <3>1. Increasing(posted[r])' /\ Older(posted[r])'
          BY <2>1, <1>1, <1>2 DEF PostedInv, Increasing, Older
    <3>2. Before(shown, posted[r])' /\ Before(posted[r], rows)'
          BY <2>1, <1>1 DEF PostedInv, Before
    <3> QED
          BY <3>1, <3>2
  <2>3. ASSUME NEW r \in 1..Len(posted), NEW q \in 1..Len(posted), r < q
        PROVE  Before(posted[r], posted[q])'
        BY <2>1, <2>3, <1>1 DEF PostedInv, Before
  <2> QED
        BY <2>2, <2>3, <1>1 DEF PostedInv
<1> QED
      BY <1>3, <1>4, <1>5 DEF FeedInv

---------------------------------------------------------------------------

\* The invariant holds in every reachable state (logs.cpp, worker.cpp, app.cpp).
THEOREM FeedInvariant == Spec => []FeedInv
<1>1. FeedInv /\ [Next]_vars => FeedInv'
      BY LogStep, DrainStep, ParseStep, PostStep, ShowStep, FeedStutter DEF Next
<1> QED
      BY <1>1, FeedInvInit, PTL DEF Spec

\* The queue never holds more than its capacity (logs.cpp: log, 256 lines).
THEOREM TypeCorrect == Spec => []TypeOK
<1>1. FeedInv => TypeOK
      BY DEF FeedInv
<1> QED
      BY <1>1, FeedInvariant, PTL

\* What is between the view and the queue, part by part.
LEMMA PartsAre ==
    ASSUME TypeOK
    PROVE  /\ Len(posted) \in Nat /\ Len(Parts) = Len(posted) + 3
           /\ Parts[1] = shown
           /\ \A r \in 1..Len(posted) : Parts[r + 1] = posted[r]
           /\ Parts[Len(posted) + 2] = rows
           /\ Parts[Len(posted) + 3] = Waiting
<1> DEFINE back == <<rows, Waiting>>
           front == <<shown>> \o posted
           T == {shown, rows, Waiting} \cup Seq(Lines)
<1>1. <<shown>> \in Seq(T) /\ posted \in Seq(T) /\ back \in Seq(T)
  <2>1. posted \in Seq(Seq(Lines)) /\ Seq(Lines) \subseteq T
        BY DEF TypeOK
  <2>2. posted \in Seq(T)
        BY <2>1
  <2> QED
        BY <2>2
<1>2. Len(posted) \in Nat /\ Len(<<shown>>) = 1 /\ Len(back) = 2 /\ back[1] = rows /\ back[2] = Waiting
      BY <1>1, LenProperties
<1>3. /\ front \in Seq(T) /\ Len(front) = Len(posted) + 1
      /\ \A i \in 1..(Len(posted) + 1) : front[i] = IF i <= 1 THEN shown ELSE posted[i - 1]
  <2> HIDE DEF T
  <2> QED
      BY <1>1, <1>2, ConcatProperties
<1>4. Parts = front \o back
      BY DEF Parts
<1> HIDE DEF front, back, T
<1>5. /\ Len(Parts) = Len(posted) + 3
      /\ \A i \in 1..(Len(posted) + 3) :
            Parts[i] = IF i <= Len(posted) + 1 THEN front[i] ELSE back[i - (Len(posted) + 1)]
  <2>1. /\ Len(front \o back) = Len(front) + Len(back)
        /\ \A i \in 1..(Len(front) + Len(back)) :
              (front \o back)[i] = IF i <= Len(front) THEN front[i] ELSE back[i - Len(front)]
        BY <1>1, <1>3, ConcatProperties
  <2>2. Len(front) + Len(back) = Len(posted) + 3
        BY <1>2, <1>3
  <2> QED
        BY <2>1, <2>2, <1>3, <1>4
<1>6. Parts[1] = shown
      BY <1>2, <1>3, <1>5
<1>7. ASSUME NEW r \in 1..Len(posted)
      PROVE  Parts[r + 1] = posted[r]
  <2>1. r + 1 \in 1..(Len(posted) + 1) /\ r + 1 \in 1..(Len(posted) + 3) /\ (r + 1) - 1 = r /\ ~(r + 1 <= 1)
        BY <1>2
  <2> QED
        BY <2>1, <1>3, <1>5, <1>2
<1>8. Parts[Len(posted) + 2] = rows /\ Parts[Len(posted) + 3] = Waiting
  <2>1. /\ Len(posted) + 2 \in 1..(Len(posted) + 3) /\ ~(Len(posted) + 2 <= Len(posted) + 1)
        /\ Len(posted) + 3 \in 1..(Len(posted) + 3) /\ ~(Len(posted) + 3 <= Len(posted) + 1)
        /\ (Len(posted) + 2) - (Len(posted) + 1) = 1 /\ (Len(posted) + 3) - (Len(posted) + 1) = 2
        BY <1>2
  <2> QED
        BY <2>1, <1>2, <1>5
<1> QED
      BY <1>2, <1>5, <1>6, <1>7, <1>8

\* What waits is the tail of the queue: consecutive lines from FirstWaiting on.
LEMMA WaitingIs ==
    ASSUME TypeOK, QueueInv
    PROVE  /\ Len(Waiting) \in Nat /\ FirstWaiting \in Int
           /\ Len(Waiting) = emitted + 1 - FirstWaiting
           /\ \A i \in 1..Len(Waiting) : Waiting[i] = FirstWaiting + i - 1
<1>1. /\ emitted \in Nat /\ Len(logs) \in Nat /\ at \in Nat /\ at <= Len(logs) + 1
      /\ FirstWaiting \in Int /\ logs \in Seq(Lines)
      BY FeedTypes DEF TypeOK
<1>2. CASE at = 0
  <2>1. Waiting = logs /\ FirstWaiting = emitted - Len(logs) + 1
        BY <1>2 DEF Waiting, FirstWaiting
  <2>2. ASSUME NEW i \in 1..Len(logs)
        PROVE  logs[i] = FirstWaiting + i - 1
    <3>1. logs[i] = emitted - Len(logs) + i
          BY DEF QueueInv
    <3> QED
          BY <3>1, <2>1, <1>1
  <2> QED
        BY <2>1, <2>2, <1>1
<1>3. CASE at # 0
  <2>1. Waiting = SubSeq(logs, at, Len(logs)) /\ FirstWaiting = emitted - Len(logs) + at
        BY <1>3 DEF Waiting, FirstWaiting
  <2>2. at \in 1..(Len(logs) + 1) /\ Len(logs) \in (at - 1)..Len(logs)
        BY <1>1, <1>3
  <2>3. /\ Len(Waiting) = Len(logs) - at + 1
        /\ \A i \in 1..(Len(logs) - at + 1) : Waiting[i] = logs[at + i - 1]
        BY <2>1, <2>2, <1>1, SubSeqProperties
  <2>4. ASSUME NEW i \in 1..(Len(logs) - at + 1)
        PROVE  Waiting[i] = FirstWaiting + i - 1
    <3>1. at + i - 1 \in 1..Len(logs)
          BY <1>1, <2>2
    <3>2. logs[at + i - 1] = emitted - Len(logs) + (at + i - 1)
          BY <3>1 DEF QueueInv
    <3>3. Waiting[i] = logs[at + i - 1]
          BY <2>3
    <3> QED
          BY <3>2, <3>3, <2>1, <1>1
  <2>5. Len(logs) - at + 1 = emitted + 1 - FirstWaiting /\ Len(logs) - at + 1 \in Nat
        BY <2>1, <2>2, <1>1
  <2>6. \A i \in 1..Len(Waiting) : Waiting[i] = FirstWaiting + i - 1
        BY <2>3, <2>4
  <2>7. Len(Waiting) = emitted + 1 - FirstWaiting /\ Len(Waiting) \in Nat
        BY <2>3, <2>5
  <2> QED
        BY <2>6, <2>7, <1>1
<1> QED
      BY <1>2, <1>3

\* Lines reach the view in the order the SDK logged them and none twice, however
\* logging, draining, posting and showing interleave (logs.cpp, worker.cpp: run).
THEOREM OrderIsKept == Spec => []ShownInOrder
<1>1. ASSUME FeedInv
      PROVE  ShownInOrder
  <2>1. TypeOK /\ QueueInv /\ ShownInv /\ RowsInv /\ PostedInv
        BY <1>1 DEF FeedInv
  <2>2. /\ Len(posted) \in Nat /\ Len(Parts) = Len(posted) + 3
        /\ Parts[1] = shown
        /\ \A r \in 1..Len(posted) : Parts[r + 1] = posted[r]
        /\ Parts[Len(posted) + 2] = rows
        /\ Parts[Len(posted) + 3] = Waiting
        BY <2>1, PartsAre
  <2>3. /\ Len(Waiting) \in Nat /\ FirstWaiting \in Int /\ Lines \subseteq Int
        /\ \A i \in 1..Len(Waiting) : Waiting[i] = FirstWaiting + i - 1
        BY <2>1, WaitingIs, FeedTypes
  <2>4. Increasing(Waiting)
        BY <2>3 DEF Increasing
  <2>5. ASSUME NEW s \in Seq(Lines), Older(s)
        PROVE  Before(s, Waiting)
    <3>1. \A i \in 1..Len(s) : s[i] \in Lines
          OBVIOUS
    <3>2. \A i \in 1..Len(s) : s[i] \in Int /\ s[i] < FirstWaiting
          BY <3>1, <2>3, <2>5 DEF Older
    <3> QED
          BY <3>2, <2>3 DEF Before
  <2>6. Before(shown, Waiting) /\ Before(rows, Waiting)
        BY <2>1, <2>5 DEF TypeOK, ShownInv, RowsInv
  <2>7. ASSUME NEW r \in 1..Len(posted)
        PROVE  Before(posted[r], Waiting)
    <3>1. posted[r] \in Seq(Lines) /\ Older(posted[r])
          BY <2>1 DEF TypeOK, PostedInv
    <3> QED
          BY <3>1, <2>5
  <2>8. ASSUME NEW p \in 1..Len(Parts)
        PROVE  \/ p = 1
               \/ p - 1 \in 1..Len(posted) /\ Parts[p] = posted[p - 1]
               \/ p = Len(posted) + 2
               \/ p = Len(posted) + 3
    <3>1. \/ p = 1
          \/ p - 1 \in 1..Len(posted) /\ (p - 1) + 1 = p
          \/ p = Len(posted) + 2
          \/ p = Len(posted) + 3
          BY <2>2
    <3> QED
          BY <3>1, <2>2
  <2>9. ASSUME NEW p \in 1..Len(Parts)
        PROVE  Increasing(Parts[p])
    <3>1. CASE p - 1 \in 1..Len(posted) /\ Parts[p] = posted[p - 1]
          BY <3>1, <2>1 DEF PostedInv
    <3> QED
          BY <3>1, <2>1, <2>2, <2>4, <2>8 DEF ShownInv, RowsInv
  <2>10. ASSUME NEW p \in 1..Len(Parts), NEW q \in 1..Len(Parts), p < q
         PROVE  Before(Parts[p], Parts[q])
    <3>1. CASE p = 1
      <4>1. CASE q - 1 \in 1..Len(posted) /\ Parts[q] = posted[q - 1]
            BY <3>1, <4>1, <2>1, <2>2 DEF PostedInv
      <4> QED
            BY <3>1, <4>1, <2>1, <2>2, <2>6, <2>8, <2>10 DEF ShownInv
    <3>2. CASE p - 1 \in 1..Len(posted) /\ Parts[p] = posted[p - 1]
      <4>1. CASE q - 1 \in 1..Len(posted) /\ Parts[q] = posted[q - 1]
        <5>1. p - 1 < q - 1
              BY <2>10, <2>2
        <5>2. Before(posted[p - 1], posted[q - 1])
              BY <3>2, <4>1, <5>1, <2>1 DEF PostedInv
        <5> QED
              BY <5>2, <3>2, <4>1
      <4>2. CASE q = Len(posted) + 2
            BY <3>2, <4>2, <2>1, <2>2 DEF PostedInv
      <4>3. CASE q = Len(posted) + 3
            BY <3>2, <4>3, <2>2, <2>7
      <4>4. q # 1
            BY <2>2, <2>10
      <4> QED
            BY <4>1, <4>2, <4>3, <4>4, <2>8
    <3>3. CASE p = Len(posted) + 2
      <4>1. q = Len(posted) + 3
            BY <3>3, <2>2, <2>10
      <4> QED
            BY <4>1, <3>3, <2>2, <2>6
    <3>4. p # Len(posted) + 3
          BY <2>2, <2>10
    <3> QED
          BY <3>1, <3>2, <3>3, <3>4, <2>8
  <2> QED
        BY <2>9, <2>10 DEF ShownInOrder
<1> QED
      BY <1>1, FeedInvariant, PTL

\* The last Capacity lines that parse are in the queue, on their way or in the
\* view: only old lines are lost (logs.cpp: log).
THEOREM NewestAreKept == Spec => []NewestKept
<1>1. ASSUME FeedInv
      PROVE  NewestKept
  <2>1. TypeOK /\ QueueInv /\ KeptInv
        BY <1>1 DEF FeedInv
  <2>2. /\ Len(posted) \in Nat /\ Len(Parts) = Len(posted) + 3
        /\ Parts[1] = shown
        /\ \A r \in 1..Len(posted) : Parts[r + 1] = posted[r]
        /\ Parts[Len(posted) + 2] = rows
        /\ Parts[Len(posted) + 3] = Waiting
        BY <2>1, PartsAre
  <2>3. /\ Len(Waiting) \in Nat /\ FirstWaiting \in Int /\ emitted \in Nat
        /\ Len(Waiting) = emitted + 1 - FirstWaiting
        /\ \A i \in 1..Len(Waiting) : Waiting[i] = FirstWaiting + i - 1
        BY <2>1, WaitingIs, FeedTypes
  <2>4. ASSUME NEW n \in 1..emitted, n > emitted - Capacity, n \notin broken
        PROVE  \E p \in 1..Len(Parts) : Contains(Parts[p], n)
    <3>1. CASE n < FirstWaiting
      <4>1. Away(n)
            BY <3>1, <2>1, <2>4 DEF KeptInv
      <4>2. 1 \in 1..Len(Parts) /\ Len(posted) + 2 \in 1..Len(Parts)
            BY <2>2
      <4>3. ASSUME NEW r \in 1..Len(posted), Contains(posted[r], n)
            PROVE  \E p \in 1..Len(Parts) : Contains(Parts[p], n)
        <5>1. r + 1 \in 1..Len(Parts) /\ Parts[r + 1] = posted[r]
              BY <2>2
        <5> QED
              BY <5>1, <4>3
      <4>4. CASE Contains(shown, n)
            BY <4>2, <4>4, <2>2
      <4>5. CASE Contains(rows, n)
            BY <4>2, <4>5, <2>2
      <4> QED
            BY <4>1, <4>3, <4>4, <4>5 DEF Away
    <3>2. CASE ~(n < FirstWaiting)
      <4>1. n - FirstWaiting + 1 \in 1..Len(Waiting)
            BY <3>2, <2>3
      <4>2. Waiting[n - FirstWaiting + 1] = n
            BY <4>1, <2>3
      <4>3. Contains(Waiting, n)
            BY <4>1, <4>2 DEF Contains
      <4>4. Len(posted) + 3 \in 1..Len(Parts)
            BY <2>2
      <4> QED
            BY <4>3, <4>4, <2>2
    <3> QED
          BY <3>1, <3>2
  <2> QED
        BY <2>4 DEF NewestKept
<1> QED
      BY <1>1, FeedInvariant, PTL
=============================================================================
