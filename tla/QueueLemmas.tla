----------------------------- MODULE QueueLemmas -----------------------------
(***************************************************************************)
(* Facts about sequences used as queues that the refinement proofs of      *)
(* Console and Workbench need: what is outstanding is spread over several  *)
(* queues, and moves from one to the next.                                 *)
(***************************************************************************)
EXTENDS SequenceTheorems, TLAPS

\* A queue behind what was taken from it: the two are as the queue before, and
\* grow at the end and shrink at the front like it.
LEMMA BeforeQueue ==
    ASSUME NEW S, NEW x \in S, NEW s \in Seq(S), NEW y \in S
    PROVE  /\ <<x>> \o s \in Seq(S) /\ <<x>> \o s # <<>>
           /\ Head(<<x>> \o s) = x /\ Tail(<<x>> \o s) = s
           /\ Append(<<x>> \o s, y) = <<x>> \o Append(s, y)
           /\ <<>> \o s = s
<1>1. <<x>> \in Seq(S)
      OBVIOUS
<1>2. /\ <<x>> \o s \in Seq(S)
      /\ Len(<<x>> \o s) = 1 + Len(s)
      /\ \A i \in 1..(1 + Len(s)) : (<<x>> \o s)[i] = IF i <= 1 THEN x ELSE s[i - 1]
      BY <1>1, ConcatProperties
<1>3. <<x>> \o s # <<>>
      BY <1>2
<1>4. Head(<<x>> \o s) = x
      BY <1>2
<1>5. Tail(<<x>> \o s) = s
  <2>1. /\ Tail(<<x>> \o s) \in Seq(S)
        /\ Len(Tail(<<x>> \o s)) = Len(s)
        /\ \A i \in 1..Len(s) : Tail(<<x>> \o s)[i] = (<<x>> \o s)[i + 1]
        BY <1>2, <1>3, HeadTailProperties
  <2>2. \A i \in 1..Len(s) : Tail(<<x>> \o s)[i] = s[i]
        BY <1>2, <2>1
  <2> QED
        BY <2>1, <2>2, SeqEqual
<1>6. Append(<<x>> \o s, y) = <<x>> \o Append(s, y)
      BY <1>1, <1>2, AppendIsConcat, ConcatAssociative, AppendProperties
<1>7. <<>> \o s = s
      BY ConcatEmptySeq
<1> QED
      BY <1>2, <1>3, <1>4, <1>5, <1>6, <1>7

\* What leaves two queues one after the other leaves the first, unless it is empty.
LEMMA FirstQueue ==
    ASSUME NEW S, NEW a \in Seq(S), NEW b \in Seq(S), a # <<>>
    PROVE  /\ a \o b # <<>>
           /\ Head(a \o b) = Head(a)
           /\ Tail(a \o b) = Tail(a) \o b
<1>1. /\ a \o b \in Seq(S)
      /\ Len(a \o b) = Len(a) + Len(b)
      /\ \A i \in 1..(Len(a) + Len(b)) : (a \o b)[i] = IF i <= Len(a) THEN a[i] ELSE b[i - Len(a)]
      BY ConcatProperties
<1>2. Len(a) \in Nat \ {0} /\ Len(b) \in Nat
      BY EmptySeq, LenProperties
<1>3. a \o b # <<>>
      BY <1>1, <1>2
<1>4. Head(a \o b) = Head(a)
      BY <1>1, <1>2
<1>5. Tail(a \o b) = Tail(a) \o b
  <2>1. /\ Tail(a \o b) \in Seq(S)
        /\ Len(Tail(a \o b)) = Len(a \o b) - 1
        /\ \A i \in 1..Len(Tail(a \o b)) : Tail(a \o b)[i] = (a \o b)[i + 1]
        BY <1>1, <1>3, HeadTailProperties
  <2>2. /\ Tail(a) \in Seq(S)
        /\ Len(Tail(a)) = Len(a) - 1
        /\ \A i \in 1..Len(Tail(a)) : Tail(a)[i] = a[i + 1]
        BY HeadTailProperties
  <2>3. /\ Tail(a) \o b \in Seq(S)
        /\ Len(Tail(a) \o b) = Len(Tail(a)) + Len(b)
        /\ \A i \in 1..(Len(Tail(a)) + Len(b)) :
              (Tail(a) \o b)[i] = IF i <= Len(Tail(a)) THEN Tail(a)[i] ELSE b[i - Len(Tail(a))]
        BY <2>2, ConcatProperties
  <2>4. Len(Tail(a \o b)) = Len(Tail(a) \o b)
        BY <1>1, <1>2, <2>1, <2>2, <2>3
  <2>5. ASSUME NEW i \in 1..Len(Tail(a \o b))
        PROVE  Tail(a \o b)[i] = (Tail(a) \o b)[i]
    <3>1. i \in 1..(Len(Tail(a)) + Len(b)) /\ i + 1 \in 1..(Len(a) + Len(b))
          BY <1>1, <1>2, <2>1, <2>2
    <3>2. CASE i <= Len(Tail(a))
      <4>1. (Tail(a) \o b)[i] = Tail(a)[i] /\ Tail(a)[i] = a[i + 1]
            BY <3>1, <3>2, <1>2, <2>2, <2>3
      <4>2. (a \o b)[i + 1] = a[i + 1]
            BY <3>1, <3>2, <1>1, <1>2, <2>2
      <4> QED
            BY <4>1, <4>2, <2>1
    <3>3. CASE ~(i <= Len(Tail(a)))
      <4>1. (Tail(a) \o b)[i] = b[i - Len(Tail(a))]
            BY <3>1, <3>3, <2>3
      <4>2. (a \o b)[i + 1] = b[(i + 1) - Len(a)]
            BY <3>1, <3>3, <1>1, <1>2, <2>2
      <4>3. (i + 1) - Len(a) = i - Len(Tail(a))
            BY <3>1, <1>2, <2>2
      <4> QED
            BY <4>1, <4>2, <4>3, <2>1
    <3> QED
          BY <3>2, <3>3
  <2> QED
        BY <2>1, <2>3, <2>4, <2>5, SeqEqual
<1> QED
      BY <1>3, <1>4, <1>5

\* Taking the oldest element only moves it.
LEMMA TakeOldest ==
    ASSUME NEW S, NEW s \in Seq(S), s # <<>>
    PROVE  Head(s) \in S /\ Tail(s) \in Seq(S) /\ Len(Tail(s)) = Len(s) - 1 /\ s = <<Head(s)>> \o Tail(s)
<1>1. Head(s) \in S /\ Tail(s) \in Seq(S) /\ Len(Tail(s)) = Len(s) - 1
      BY HeadTailProperties
<1>2. s = <<Head(s)>> \o Tail(s)
  <2>1. /\ <<Head(s)>> \o Tail(s) \in Seq(S)
        /\ Len(<<Head(s)>> \o Tail(s)) = Len(s)
        /\ \A i \in 1..Len(s) : (<<Head(s)>> \o Tail(s))[i]
                                    = IF i <= 1 THEN Head(s) ELSE Tail(s)[i - 1]
        BY <1>1, ConcatProperties
  <2>2. \A i \in 1..Len(Tail(s)) : Tail(s)[i] = s[i + 1]
        BY HeadTailProperties
  <2>3. Len(s) \in Nat /\ Head(s) = s[1]
        OBVIOUS
  <2>4. ASSUME NEW i \in 1..Len(s)
        PROVE  (<<Head(s)>> \o Tail(s))[i] = s[i]
    <3>1. CASE i = 1
          BY <3>1, <2>1, <2>3
    <3>2. CASE i # 1
      <4>1. i - 1 \in 1..Len(Tail(s))
            BY <3>2, <2>3, <1>1
      <4> QED
            BY <3>2, <4>1, <2>1, <2>2, <2>3
    <3> QED
          BY <3>1, <3>2
  <2> QED
        BY <2>1, <2>4, SeqEqual
<1> QED
      BY <1>1, <1>2
=============================================================================
