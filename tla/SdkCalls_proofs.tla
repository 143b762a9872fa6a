---------------------------- MODULE SdkCalls_proofs ----------------------------
(***************************************************************************)
(* No event is lost silently and every buffer is freed, for every limit of *)
(* a round and every number of events under way: the inductive invariant   *)
(* says which part of the line of events each step lengthens and shortens. *)
(***************************************************************************)
EXTENDS SdkCalls, SequenceTheorems, TLAPS

\* What each state of the thread holds and has read.
ThreadInv ==
    /\ pc \in {"wait", "run", "ended"} => held = {}
    /\ pc = "round" /\ held # {} => events # <<>>
    /\ pc # "round" => rows = <<>>

\* A record on its way has an event.
RecordsInv == \A r \in 1..Len(posted) : posted[r] # <<>>

CallsInv == TypeOK /\ ThreadInv /\ RecordsInv /\ NoSilentLoss

---------------------------------------------------------------------------
(* Facts about stretches of numbered events. *)

\* Every number has a successor in the ring.
LEMMA SuccIsNumber ==
    ASSUME NEW n \in Numbers
    PROVE  Succ(n) \in Numbers
  BY CallsAssumption DEF Succ, Numbers

\* The event after the last lengthens a stretch by one.
LEMMA RunsAppend ==
    ASSUME NEW s \in Seq(Numbers), NEW a, NEW b \in Numbers, Runs(s, a, b)
    PROVE  /\ Append(s, b) \in Seq(Numbers) /\ Append(s, b) # <<>>
           /\ Last(Append(s, b)) = b
           /\ Runs(Append(s, b), a, Succ(b))
<1> DEFINE t == Append(s, b)
<1>1. /\ t \in Seq(Numbers) /\ Len(t) = Len(s) + 1 /\ Len(s) \in Nat
      /\ \A i \in 1..Len(s) : t[i] = s[i]
      /\ t[Len(s) + 1] = b
      BY AppendProperties, LenProperties
<1>2. t # <<>>
      BY AppendProperties
<1> HIDE DEF t
<1>3. Last(t) = b /\ Succ(t[Len(t)]) = Succ(b)
      BY <1>1 DEF Last
<1>4. t[1] = a
  <2>1. CASE s = <<>>
    <3>1. a = b /\ Len(s) = 0
          BY <2>1 DEF Runs
    <3> QED
          BY <3>1, <1>1
  <2>2. CASE s # <<>>
    <3>1. s[1] = a /\ 1 \in 1..Len(s)
          BY <2>2, <1>1, EmptySeq DEF Runs
    <3> QED
          BY <3>1, <1>1
  <2> QED
        BY <2>1, <2>2
<1>5. ASSUME NEW i \in 1..(Len(t) - 1)
      PROVE  t[i + 1] = Succ(t[i])
  <2>1. i \in 1..Len(s) /\ t[i] = s[i] /\ s # <<>>
        BY <1>1
  <2>2. Succ(s[Len(s)]) = b /\ \A j \in 1..(Len(s) - 1) : s[j + 1] = Succ(s[j])
        BY <2>1 DEF Runs
  <2>3. CASE i = Len(s)
        BY <2>1, <2>2, <2>3, <1>1
  <2>4. CASE i # Len(s)
    <3>1. i \in 1..(Len(s) - 1) /\ i + 1 \in 1..Len(s)
          BY <2>1, <2>4, <1>1
    <3> QED
          BY <3>1, <2>1, <2>2, <1>1
  <2> QED
        BY <2>3, <2>4
<1>6. Runs(t, a, Succ(b))
      BY <1>2, <1>3, <1>4, <1>5 DEF Runs
<1> QED
      BY <1>1, <1>2, <1>3, <1>6 DEF t

\* Without its first event a stretch begins with the next.
LEMMA RunsTail ==
    ASSUME NEW s \in Seq(Numbers), NEW a, NEW b, Runs(s, a, b), s # <<>>
    PROVE  /\ Head(s) = a /\ a \in Numbers
           /\ Tail(s) \in Seq(Numbers)
           /\ Runs(Tail(s), Succ(a), b)
<1> DEFINE t == Tail(s)
<1>1. /\ t \in Seq(Numbers) /\ Len(t) = Len(s) - 1 /\ Len(s) \in Nat \ {0}
      /\ \A i \in 1..Len(t) : t[i] = s[i + 1]
      BY HeadTailProperties, EmptySeq, LenProperties
<1>2. /\ s[1] = a /\ Succ(s[Len(s)]) = b /\ Head(s) = a /\ 1 \in 1..Len(s)
      /\ \A i \in 1..(Len(s) - 1) : s[i + 1] = Succ(s[i])
      BY <1>1 DEF Runs
<1>3. a \in Numbers
      BY <1>2
<1> HIDE DEF t
<1>4. CASE t = <<>>
  <2>1. Len(s) = 1
        BY <1>1, <1>4
  <2>2. Succ(a) = b
        BY <2>1, <1>2
  <2>3. Runs(t, Succ(a), b)
        BY <2>2, <1>4 DEF Runs
  <2> QED
        BY <2>3, <1>1, <1>2, <1>3 DEF t
<1>5. CASE t # <<>>
  <2>1. Len(t) \in Nat \ {0}
        BY <1>1, <1>5, EmptySeq
  <2>2. t[1] = Succ(a) /\ Succ(t[Len(t)]) = b
    <3>1. t[1] = s[1 + 1] /\ 1 \in 1..(Len(s) - 1)
          BY <2>1, <1>1
    <3>2. s[1 + 1] = Succ(s[1])
          BY <3>1, <1>2
    <3>3. t[Len(t)] = s[Len(t) + 1] /\ Len(t) + 1 = Len(s)
          BY <2>1, <1>1
    <3> QED
          BY <3>1, <3>2, <3>3, <1>2
  <2>3. ASSUME NEW i \in 1..(Len(t) - 1)
        PROVE  t[i + 1] = Succ(t[i])
    <3>1. i \in 1..Len(t) /\ i + 1 \in 1..Len(t) /\ i + 1 \in 1..(Len(s) - 1)
          BY <2>1, <1>1
    <3>2. t[i] = s[i + 1] /\ t[i + 1] = s[(i + 1) + 1]
          BY <3>1, <1>1
    <3> QED
          BY <3>1, <3>2, <1>2
  <2>4. Runs(t, Succ(a), b)
        BY <2>2, <2>3, <1>5 DEF Runs
  <2> QED
        BY <2>4, <1>1, <1>2, <1>3 DEF t
<1> QED
      BY <1>4, <1>5

---------------------------------------------------------------------------
(* The line of events, step by step. *)

\* What follows the records, and what the SDK hands out next, is a number.
LEMMA LineTypes ==
    ASSUME TypeOK, RecordsInv
    PROVE  /\ Len(posted) \in Nat
           /\ \A r \in 1..Len(posted) : posted[r] \in Seq(Numbers) /\ posted[r] # <<>> /\ Last(posted[r]) \in Numbers
           /\ \A r \in 0..Len(posted) : After(r) \in Numbers
           /\ Polled \in Numbers
<1>1. Len(posted) \in Nat
      BY LenProperties DEF TypeOK
<1>2. ASSUME NEW s \in Seq(Numbers), s # <<>>
      PROVE  Last(s) \in Numbers
  <2>1. Len(s) \in 1..Len(s)
        BY <1>2, EmptySeq, LenProperties
  <2> QED
        BY <2>1 DEF Last
<1>3. \A r \in 1..Len(posted) : posted[r] \in Seq(Numbers) /\ posted[r] # <<>>
      BY DEF TypeOK, RecordsInv
<1>4. \A r \in 1..Len(posted) : Last(posted[r]) \in Numbers
      BY <1>2, <1>3
<1>5. ASSUME NEW r \in 0..Len(posted)
      PROVE  After(r) \in Numbers
  <2>1. CASE r = 0
        BY <2>1 DEF After, TypeOK
  <2>2. CASE r # 0
    <3>1. r \in 1..Len(posted)
          BY <2>2, <1>1
    <3> QED
          BY <3>1, <2>2, <1>4, SuccIsNumber DEF After
  <2> QED
        BY <2>1, <2>2
<1>6. Polled \in Numbers
  <2>1. CASE rows = <<>>
    <3>1. Len(posted) \in 0..Len(posted)
          BY <1>1
    <3> QED
          BY <2>1, <3>1, <1>5 DEF Polled
  <2>2. CASE rows # <<>>
    <3>1. Last(rows) \in Numbers
          BY <2>2, <1>2 DEF TypeOK
    <3> QED
          BY <3>1, <2>2, SuccIsNumber DEF Polled
  <2> QED
        BY <2>1, <2>2
<1> QED
      BY <1>1, <1>3, <1>4, <1>5, <1>6

\* A record joins the line behind the others and leaves no rows behind.
LEMMA PostedLine ==
    ASSUME TypeOK, RecordsInv, NoSilentLoss,
           NEW record \in Seq(Numbers), NEW b \in Numbers, record # <<>>,
           Runs(record, After(Len(posted)), b), Runs(events', b, emitted),
           posted' = Append(posted, record), rows' = <<>>, next' = next, emitted' = emitted
    PROVE  RecordsInv' /\ NoSilentLoss' /\ posted' \in Seq(Seq(Numbers))
<1>1. /\ Len(posted) \in Nat /\ Len(posted') = Len(posted) + 1
      /\ \A r \in 1..Len(posted) : posted'[r] = posted[r]
      /\ posted'[Len(posted) + 1] = record
      /\ posted' \in Seq(Seq(Numbers))
      BY AppendProperties, LenProperties DEF TypeOK
<1>2. RecordsInv'
  <2>1. ASSUME NEW r \in 1..(Len(posted) + 1)
        PROVE  posted'[r] # <<>>
    <3>1. CASE r = Len(posted) + 1
          BY <3>1, <1>1
    <3>2. CASE r \in 1..Len(posted)
          BY <3>2, <1>1 DEF RecordsInv
    <3> QED
          BY <3>1, <3>2, <1>1
  <2> QED
        BY <2>1, <1>1 DEF RecordsInv
<1>3. ASSUME NEW r \in 0..Len(posted)
      PROVE  After(r)' = After(r)
  <2>1. CASE r = 0
        BY <2>1 DEF After
  <2>2. CASE r # 0
    <3>1. r \in 1..Len(posted)
          BY <2>2, <1>1
    <3> QED
          BY <3>1, <2>2, <1>1 DEF After
  <2> QED
        BY <2>1, <2>2
<1>4. b = Succ(Last(record))
      BY DEF Runs, Last
<1>5. After(Len(posted))' = b
  <2>1. Len(posted') # 0 /\ posted'[Len(posted')] = record
        BY <1>1
  <2> QED
        BY <2>1, <1>4 DEF After
<1>6. Polled' = b
      BY <1>5 DEF Polled
<1>7. ASSUME NEW r \in 1..Len(posted')
      PROVE  Runs(posted[r], After(r - 1), After(r))'
  <2>1. CASE r \in 1..Len(posted)
    <3>1. r \in 0..Len(posted) /\ r - 1 \in 0..Len(posted)
          BY <2>1, <1>1
    <3>2. After(r)' = After(r) /\ After(r - 1)' = After(r - 1) /\ posted'[r] = posted[r]
          BY <3>1, <2>1, <1>1, <1>3
    <3>3. Runs(posted[r], After(r - 1), After(r))
          BY <2>1 DEF NoSilentLoss
    <3> QED
          BY <3>2, <3>3 DEF Runs
  <2>2. CASE r = Len(posted) + 1
    <3>1. r - 1 = Len(posted) /\ Len(posted) \in 0..Len(posted) /\ r = Len(posted')
          BY <2>2, <1>1
    <3>2. After(r - 1)' = After(Len(posted)) /\ After(r)' = b /\ posted'[r] = record
          BY <3>1, <2>2, <1>1, <1>3, <1>5
    <3> QED
          BY <3>2 DEF Runs
  <2> QED
        BY <2>1, <2>2, <1>1
<1>8. Runs(rows, After(Len(posted)), Polled)'
      BY <1>5, <1>6 DEF Runs
<1>9. Runs(events, Polled, emitted)'
      BY <1>6 DEF Runs
<1> QED
      BY <1>1, <1>2, <1>7, <1>8, <1>9 DEF NoSilentLoss

\* Steps that leave the records and the view alone: what is behind the records
\* decides whether the line still has no gap.
LEMMA SameRecords ==
    ASSUME RecordsInv, NoSilentLoss, posted' = posted, next' = next,
           Runs(rows', After(Len(posted)), Polled'), Runs(events', Polled', emitted')
    PROVE  RecordsInv' /\ NoSilentLoss'
<1>1. ASSUME NEW r PROVE After(r)' = After(r)
      BY DEF After
<1>2. RecordsInv'
      BY DEF RecordsInv
<1>3. ASSUME NEW r \in 1..Len(posted)
      PROVE  Runs(posted[r], After(r - 1), After(r))'
  <2>1. Runs(posted[r], After(r - 1), After(r))
        BY DEF NoSilentLoss
  <2>2. After(r - 1)' = After(r - 1) /\ After(r)' = After(r)
        BY <1>1
  <2> QED
        BY <2>1, <2>2 DEF Runs
<1>4. Runs(rows, After(Len(posted)), Polled)'
      BY <1>1 DEF Runs
<1>5. Runs(events, Polled, emitted)'
      BY DEF Runs
<1> QED
      BY <1>2, <1>3, <1>4, <1>5 DEF NoSilentLoss

\* A step that leaves the feed alone leaves the line alone.
LEMMA SameFeed ==
    ASSUME RecordsInv, NoSilentLoss, UNCHANGED feedVars
    PROVE  RecordsInv' /\ NoSilentLoss' /\ Polled' = Polled
<1>1. rows' = rows /\ events' = events /\ posted' = posted /\ next' = next /\ emitted' = emitted
      BY DEF feedVars
<1>2. Polled' = Polled
      BY <1>1 DEF Polled, After
<1>3. Runs(rows, After(Len(posted)), Polled) /\ Runs(events, Polled, emitted)
      BY DEF NoSilentLoss
<1> QED
      BY <1>1, <1>2, <1>3, SameRecords

\* Init satisfies the invariant: nothing is queued, held or under way.
LEMMA CallsInvInit == Init => CallsInv
<1> SUFFICES ASSUME Init PROVE CallsInv
      OBVIOUS
<1>1. /\ queued = 0 /\ quit = FALSE /\ pc = "wait" /\ session = "unloaded" /\ held = {}
      /\ rows = <<>> /\ events = <<>> /\ posted = <<>> /\ next = 0 /\ emitted = 0
      BY DEF Init, Session!Init
<1>2. Len(rows) = 0 /\ Len(posted) = 0
      BY <1>1
<1>3. TypeOK
  <2>1. session \in Session!States
        BY <1>1 DEF Session!States, Session!Idle
  <2>2. 0 \in Numbers /\ 0 \in 0..MaxJobs /\ 0 < Limit
        BY CallsAssumption DEF Numbers
  <2>3. rows \in Seq(Numbers) /\ events \in Seq(Numbers)
        BY <1>1
  <2>4. posted \in Seq(Seq(Numbers))
        BY <1>1
  <2>5. Len(rows) < Limit
        BY <1>2, <2>2
  <2>6. queued \in 0..MaxJobs /\ next \in Numbers /\ emitted \in Numbers
        BY <1>1, <2>2
  <2>7. quit \in BOOLEAN /\ held \subseteq {"output", "encrypted", "decoded", "inner"}
        BY <1>1
  <2>8. pc \in {"wait", "run", "call", "selftest", "respond", "round", "ended"}
        BY <1>1
  <2> QED
        BY <2>1, <2>3, <2>4, <2>5, <2>6, <2>7, <2>8 DEF TypeOK
<1>4. ThreadInv /\ RecordsInv
      BY <1>1, <1>2 DEF ThreadInv, RecordsInv
<1>5. NoSilentLoss
      BY <1>1, <1>2 DEF NoSilentLoss, Runs, After, Polled
<1> QED
      BY <1>3, <1>4, <1>5 DEF CallsInv

\* The user's steps and those of the worker that read no event leave the feed
\* alone, and every path of a job that ends frees its buffers (worker.cpp,
\* operations*.cpp).
LEMMA JobStep ==
    ASSUME CallsInv,
           \/ Submit \/ Quit \/ TakeJob \/ LeaveLoop
           \/ RefuseJob \/ LoadJob \/ BeginCall \/ (\E call \in Calls : CallSdk(call))
           \/ Protect \/ Unprotect \/ Respond \/ TakeBuffer \/ LeaveInner \/ LeaveOuter
    PROVE  CallsInv'
<1>1. TypeOK /\ ThreadInv /\ RecordsInv /\ NoSilentLoss
      BY DEF CallsInv
<1>2. /\ UNCHANGED feedVars
      /\ pc # "round" \/ (pc' = pc /\ held' = held)
      BY DEF Submit, Quit, TakeJob, LeaveLoop, RefuseJob, LoadJob, BeginCall, CallSdk,
             Protect, Unprotect, Respond, TakeBuffer, LeaveInner, LeaveOuter
<1>3. rows' = rows /\ events' = events /\ posted' = posted /\ next' = next /\ emitted' = emitted
      BY <1>2 DEF feedVars
<1>4. RecordsInv' /\ NoSilentLoss'
      BY <1>1, <1>2, SameFeed
<1>5. ASSUME /\ queued' \in 0..MaxJobs /\ quit' \in BOOLEAN /\ session' \in Session!States
             /\ pc' \in {"wait", "run", "call", "selftest", "respond", "ended"} \/ pc' = pc
             /\ held' \subseteq {"output", "encrypted", "decoded", "inner"}
             /\ held' = {} \/ pc' \in {"selftest", "respond", "call"} \/ (pc' = pc /\ held' = held)
      PROVE  CallsInv'
  <2>1. TypeOK'
        BY <1>1, <1>3, <1>5 DEF TypeOK
  <2>2. ThreadInv'
        BY <1>1, <1>2, <1>3, <1>5 DEF ThreadInv
  <2> QED
        BY <2>1, <2>2, <1>4 DEF CallsInv
<1>6. /\ queued \in 0..MaxJobs /\ quit \in BOOLEAN /\ session \in Session!States
      /\ held \subseteq {"output", "encrypted", "decoded", "inner"} /\ MaxJobs \in Nat
      BY <1>1, CallsAssumption DEF TypeOK
<1>7. pc \in {"wait", "run", "ended"} => held = {}
      BY <1>1 DEF ThreadInv
<1>8. CASE Submit
  <2>1. queued' \in 0..MaxJobs
        BY <1>6, <1>8 DEF Submit
  <2> QED
        BY <2>1, <1>5, <1>6, <1>8 DEF Submit
<1>9. CASE Quit
      BY <1>5, <1>6, <1>9 DEF Quit
<1>10. CASE TakeJob
  <2>1. queued' \in 0..MaxJobs
        BY <1>6, <1>10 DEF TakeJob
  <2> QED
        BY <2>1, <1>5, <1>6, <1>7, <1>10 DEF TakeJob
<1>11. CASE LeaveLoop
  <2>1. session' \in Session!States
        BY <1>11 DEF LeaveLoop, Session!Destroy, Session!Release, Session!States, Session!Calls
  <2>2. pc' = "ended" \/ pc' = pc
        BY <1>11 DEF LeaveLoop
  <2> QED
        BY <2>1, <2>2, <1>5, <1>6, <1>7, <1>11 DEF LeaveLoop
<1>12. CASE RefuseJob
      BY <1>5, <1>6, <1>7, <1>12 DEF RefuseJob
<1>13. CASE LoadJob
  <2>1. session' \in Session!States
        BY <1>13 DEF LoadJob, Session!Load, Session!States, Session!Idle
  <2>2. held' \in {{}, {"output"}}
        BY <1>13 DEF LoadJob
  <2> QED
        BY <2>1, <2>2, <1>5, <1>6, <1>13 DEF LoadJob
<1>14. CASE BeginCall
  <2>1. session' \in Session!States
        BY <1>14 DEF BeginCall, Session!Start, Session!Stop, Session!States, Session!Calls
  <2> QED
        BY <2>1, <1>5, <1>6, <1>7, <1>14 DEF BeginCall
<1>15. ASSUME NEW call \in Calls, CallSdk(call)
       PROVE  CallsInv'
  <2>1. held' \in {{}, {"output"}}
        BY <1>15 DEF CallSdk
  <2> QED
        BY <2>1, <1>5, <1>6, <1>15 DEF CallSdk
<1>16. CASE Protect
  <2>1. held' \subseteq {"output", "encrypted", "decoded", "inner"} /\ pc' \in {"selftest", "respond"}
        BY <1>16 DEF Protect
  <2> QED
        BY <2>1, <1>5, <1>6, <1>16 DEF Protect
<1>17. CASE Unprotect
  <2>1. held' \subseteq {"output", "encrypted", "decoded", "inner"}
        BY <1>6, <1>17 DEF Unprotect
  <2> QED
        BY <2>1, <1>5, <1>6, <1>17 DEF Unprotect
<1>18. CASE Respond
      BY <1>5, <1>6, <1>18 DEF Respond
<1>19. CASE TakeBuffer
  <2>1. held' \in {{"output"}, {"output", "inner"}}
        BY <1>19 DEF TakeBuffer
  <2> QED
        BY <2>1, <1>5, <1>6, <1>19 DEF TakeBuffer
<1>20. CASE LeaveInner
  <2>1. held' \subseteq {"output", "encrypted", "decoded", "inner"}
        BY <1>6, <1>20 DEF LeaveInner
  <2> QED
        BY <2>1, <1>5, <1>6, <1>20 DEF LeaveInner
<1>21. CASE LeaveOuter
      BY <1>5, <1>6, <1>21 DEF LeaveOuter
<1> QED
      BY <1>8, <1>9, <1>10, <1>11, <1>12, <1>13, <1>14, <1>15, <1>16, <1>17, <1>18,
         <1>19, <1>20, <1>21

\* The SDK queues an event: it comes behind all others.
LEMMA EmitStep ==
    ASSUME CallsInv, Emit
    PROVE  CallsInv'
<1>1. TypeOK /\ ThreadInv /\ RecordsInv /\ NoSilentLoss
      BY DEF CallsInv
<1>2. /\ events' = Append(events, emitted) /\ emitted' = Succ(emitted)
      /\ rows' = rows /\ posted' = posted /\ next' = next /\ UNCHANGED workerVars
      BY DEF Emit
<1>3. events \in Seq(Numbers) /\ emitted \in Numbers
      BY <1>1 DEF TypeOK
<1>4. Polled' = Polled
      BY <1>2 DEF Polled, After
<1>5. Runs(rows, After(Len(posted)), Polled) /\ Runs(events, Polled, emitted)
      BY <1>1 DEF NoSilentLoss
<1>6. events' \in Seq(Numbers) /\ events' # <<>> /\ Runs(events', Polled', emitted')
      BY <1>2, <1>3, <1>4, <1>5, RunsAppend
<1>7. RecordsInv' /\ NoSilentLoss'
      BY <1>1, <1>2, <1>4, <1>5, <1>6, SameRecords
<1>8. TypeOK'
      BY <1>1, <1>2, <1>3, <1>6, SuccIsNumber DEF TypeOK, workerVars
<1>9. ThreadInv'
      BY <1>1, <1>2, <1>6 DEF ThreadInv, workerVars
<1> QED
      BY <1>7, <1>8, <1>9 DEF CallsInv

\* A start or a stop returns; an SDK that stops may drop what it had queued,
\* which the worker had not seen (lifecycle.cpp: start, stop).
LEMMA EndCallStep ==
    ASSUME CallsInv, EndCall
    PROVE  CallsInv'
<1>1. TypeOK /\ ThreadInv /\ RecordsInv /\ NoSilentLoss
      BY DEF CallsInv
<1>2. /\ pc = "call" /\ pc' = "wait" /\ queued' = queued /\ quit' = quit
      /\ held = {} /\ held' = held
      /\ rows' = rows /\ posted' = posted /\ next' = next
      BY DEF EndCall
<1>3. held = {} /\ rows = <<>>
      BY <1>1, <1>2 DEF ThreadInv
<1>4. session' \in Session!States
      BY DEF EndCall, Session!StartReturns, Session!StopReturns, Session!States, Session!Idle
<1>5. Runs(rows, After(Len(posted)), Polled) /\ Runs(events, Polled, emitted)
      BY <1>1 DEF NoSilentLoss
<1>6. Polled' = Polled
      BY <1>2 DEF Polled, After
<1>7. /\ events' \in Seq(Numbers) /\ emitted' \in Numbers
      /\ Runs(events', Polled', emitted')
  <2>1. CASE DropEvents
    <3>1. events # <<>> /\ events' = <<>> /\ emitted' = Head(events) /\ events \in Seq(Numbers)
          BY <2>1, <1>1 DEF DropEvents, TypeOK
    <3>2. Head(events) = Polled /\ Polled \in Numbers
          BY <3>1, <1>5, RunsTail
    <3> QED
          BY <3>1, <3>2, <1>6 DEF Runs
  <2>2. CASE UNCHANGED <<events, emitted>>
        BY <2>2, <1>1, <1>5, <1>6 DEF TypeOK
  <2> QED
        BY <2>1, <2>2 DEF EndCall
<1>8. RecordsInv' /\ NoSilentLoss'
      BY <1>1, <1>2, <1>5, <1>6, <1>7, SameRecords
<1>9. TypeOK'
      BY <1>1, <1>2, <1>4, <1>7 DEF TypeOK
<1>10. ThreadInv'
      BY <1>2, <1>3 DEF ThreadInv
<1> QED
      BY <1>8, <1>9, <1>10 DEF CallsInv

\* Beginning a round and polling an event move nothing (worker.cpp: TakeJob;
\* operations.cpp: events).
LEMMA PollStep ==
    ASSUME CallsInv, BeginRound \/ PollEvent
    PROVE  CallsInv'
<1>1. TypeOK /\ ThreadInv /\ RecordsInv /\ NoSilentLoss
      BY DEF CallsInv
<1>2. rows' = rows
      BY <1>1 DEF BeginRound, PollEvent, ThreadInv, feedVars
<1>3. UNCHANGED feedVars
      BY <1>2 DEF BeginRound, PollEvent, feedVars
<1>4. RecordsInv' /\ NoSilentLoss'
      BY <1>1, <1>3, SameFeed
<1>5. /\ queued' = queued /\ quit' = quit /\ session' = session /\ pc' = "round"
      /\ events' = events
      /\ held' = {} \/ (held' = {"output"} /\ events # <<>>)
      BY <1>1 DEF BeginRound, PollEvent, ThreadInv, feedVars
<1>6. TypeOK'
      BY <1>1, <1>3, <1>5 DEF TypeOK, feedVars
<1>7. ThreadInv'
      BY <1>5 DEF ThreadInv
<1> QED
      BY <1>4, <1>6, <1>7 DEF CallsInv

\* What the event read next does to the rows and to what is behind them.
LEMMA ReadNext ==
    ASSUME TypeOK, RecordsInv, NoSilentLoss, events # <<>>
    PROVE  /\ Head(events) = Polled /\ Polled \in Numbers /\ Succ(Polled) \in Numbers
           /\ Tail(events) \in Seq(Numbers) /\ Runs(Tail(events), Succ(Polled), emitted)
           /\ Append(rows, Head(events)) \in Seq(Numbers) /\ Append(rows, Head(events)) # <<>>
           /\ Len(Append(rows, Head(events))) = Len(rows) + 1 /\ Len(rows) \in Nat
           /\ Last(Append(rows, Head(events))) = Polled
           /\ Runs(Append(rows, Head(events)), After(Len(posted)), Succ(Polled))
<1>1. rows \in Seq(Numbers) /\ events \in Seq(Numbers)
      BY DEF TypeOK
<1>2. Runs(rows, After(Len(posted)), Polled) /\ Runs(events, Polled, emitted)
      BY DEF NoSilentLoss
<1>3. /\ Head(events) = Polled /\ Polled \in Numbers
      /\ Tail(events) \in Seq(Numbers) /\ Runs(Tail(events), Succ(Polled), emitted)
      BY <1>1, <1>2, RunsTail
<1>4. Succ(Polled) \in Numbers
      BY <1>3, SuccIsNumber
<1>5. /\ Append(rows, Polled) \in Seq(Numbers) /\ Append(rows, Polled) # <<>>
      /\ Last(Append(rows, Polled)) = Polled
      /\ Runs(Append(rows, Polled), After(Len(posted)), Succ(Polled))
      BY <1>1, <1>2, <1>3, RunsAppend
<1>6. Len(Append(rows, Polled)) = Len(rows) + 1 /\ Len(rows) \in Nat
      BY <1>1, <1>3, AppendProperties, LenProperties
<1> QED
      BY <1>3, <1>4, <1>5, <1>6

\* The worker reads an event: it goes to the end of the rows, with the record of
\* a full round or of one that throws to the end of the records, and its buffer
\* is freed (operations.cpp: events; sdk.cpp: MakeResponse).
LEMMA ReadStep ==
    ASSUME CallsInv, ReadEvent \/ BadEvent
    PROVE  CallsInv'
<1>1. TypeOK /\ ThreadInv /\ RecordsInv /\ NoSilentLoss
      BY DEF CallsInv
<1> DEFINE record == Append(rows, Head(events))
<1>2. /\ pc = "round" /\ held' = {} /\ events' = Tail(events)
      /\ queued' = queued /\ quit' = quit /\ session' = session
      /\ next' = next /\ emitted' = emitted /\ events # <<>>
      BY <1>1 DEF ReadEvent, BadEvent, ThreadInv
<1>3. /\ Head(events) = Polled /\ Polled \in Numbers /\ Succ(Polled) \in Numbers
      /\ events' \in Seq(Numbers) /\ Runs(events', Succ(Polled), emitted)
      /\ record \in Seq(Numbers) /\ record # <<>>
      /\ Len(record) = Len(rows) + 1 /\ Len(rows) \in Nat
      /\ Last(record) = Polled
      /\ Runs(record, After(Len(posted)), Succ(Polled))
      BY <1>1, <1>2, ReadNext
<1>4. ASSUME posted' = Append(posted, record), rows' = <<>>, pc' = "wait"
      PROVE  CallsInv'
  <2>1. RecordsInv' /\ NoSilentLoss' /\ posted' \in Seq(Seq(Numbers))
    <3> HIDE DEF record
    <3> QED
        BY <1>1, <1>2, <1>3, <1>4, PostedLine
  <2>2. rows' \in Seq(Numbers) /\ Len(rows') < Limit
        BY <1>4, CallsAssumption
  <2>3. TypeOK'
        BY <1>1, <1>2, <1>3, <1>4, <2>1, <2>2 DEF TypeOK
  <2>4. ThreadInv'
        BY <1>2, <1>4 DEF ThreadInv
  <2> QED
        BY <2>1, <2>3, <2>4 DEF CallsInv
<1>5. ASSUME posted' = posted, rows' = record, pc' = pc, ~LastPoll
      PROVE  CallsInv'
  <2> HIDE DEF record
  <2>1. Polled' = Succ(Polled)
        BY <1>3, <1>5 DEF Polled
  <2>2. Runs(rows', After(Len(posted)), Polled') /\ Runs(events', Polled', emitted')
        BY <1>2, <1>3, <1>5, <2>1
  <2>3. RecordsInv' /\ NoSilentLoss'
        BY <1>1, <1>2, <1>5, <2>2, SameRecords
  <2>4. Len(rows') < Limit
    <3>1. Len(rows) < Limit /\ Len(rows) + 1 # Limit /\ Limit \in Nat
          BY <1>1, <1>5, CallsAssumption DEF LastPoll, TypeOK
    <3> QED
          BY <3>1, <1>3, <1>5
  <2>5. TypeOK'
        BY <1>1, <1>2, <1>3, <1>5, <2>4 DEF TypeOK
  <2>6. ThreadInv'
        BY <1>2, <1>5 DEF ThreadInv
  <2> QED
        BY <2>3, <2>5, <2>6 DEF CallsInv
<1>6. CASE BadEvent
      BY <1>4, <1>6 DEF BadEvent, PostRound, EndRound
<1>7. CASE ReadEvent /\ LastPoll
      BY <1>4, <1>7 DEF ReadEvent, FullRound, PostRound, EndRound
<1>8. CASE ReadEvent /\ ~LastPoll
      BY <1>5, <1>8 DEF ReadEvent
<1> QED
      BY <1>6, <1>7, <1>8

\* A round ends because no event is left or a poll fails: its rows, if any, are
\* posted (operations.cpp: events).
LEMMA RoundEndStep ==
    ASSUME CallsInv, NoEvent \/ PollFails
    PROVE  CallsInv'
<1>1. TypeOK /\ ThreadInv /\ RecordsInv /\ NoSilentLoss
      BY DEF CallsInv
<1>2. /\ pc = "round" /\ pc' = "wait" /\ rows' = <<>> /\ held = {} /\ held' = held
      /\ queued' = queued /\ quit' = quit /\ session' = session
      /\ events' = events /\ next' = next /\ emitted' = emitted
      /\ IF rows = <<>> THEN posted' = posted ELSE posted' = Append(posted, rows)
      BY DEF NoEvent, PollFails, EndRound, PostRound
<1>3. Runs(rows, After(Len(posted)), Polled) /\ Runs(events', Polled, emitted)
      BY <1>1, <1>2 DEF NoSilentLoss
<1>4. RecordsInv' /\ NoSilentLoss' /\ posted' \in Seq(Seq(Numbers))
  <2>1. CASE rows = <<>>
    <3>1. UNCHANGED feedVars
          BY <2>1, <1>2 DEF feedVars
    <3>2. posted' \in Seq(Seq(Numbers))
          BY <2>1, <1>1, <1>2 DEF TypeOK
    <3> QED
          BY <3>1, <3>2, <1>1, SameFeed
  <2>2. CASE rows # <<>>
    <3>1. rows \in Seq(Numbers) /\ Polled \in Numbers
          BY <1>1, LineTypes DEF TypeOK
    <3> QED
          BY <3>1, <2>2, <1>1, <1>2, <1>3, PostedLine
  <2> QED
        BY <2>1, <2>2
<1>5. rows' \in Seq(Numbers) /\ Len(rows') < Limit
      BY <1>2, CallsAssumption
<1>6. TypeOK'
      BY <1>1, <1>2, <1>4, <1>5 DEF TypeOK
<1>7. ThreadInv'
      BY <1>2 DEF ThreadInv
<1> QED
      BY <1>4, <1>6, <1>7 DEF CallsInv

\* The view appends the oldest record and knows of its events (app.cpp: result).
LEMMA ShowStep ==
    ASSUME CallsInv, Show
    PROVE  CallsInv'
<1>1. TypeOK /\ ThreadInv /\ RecordsInv /\ NoSilentLoss
      BY DEF CallsInv
<1>2. /\ posted # <<>> /\ posted' = Tail(posted) /\ next' = Succ(Last(posted[1]))
      /\ rows' = rows /\ events' = events /\ emitted' = emitted /\ UNCHANGED workerVars
      BY DEF Show
<1>3. /\ Len(posted) \in Nat \ {0} /\ Len(posted') = Len(posted) - 1
      /\ posted' \in Seq(Seq(Numbers))
      /\ \A r \in 1..Len(posted') : posted'[r] = posted[r + 1]
      BY <1>1, <1>2, HeadTailProperties, EmptySeq, LenProperties DEF TypeOK
<1>4. next' = After(1)
      BY <1>2 DEF After
<1>5. ASSUME NEW r \in 0..Len(posted')
      PROVE  After(r)' = After(r + 1)
  <2>1. CASE r = 0
        BY <2>1, <1>4 DEF After
  <2>2. CASE r # 0
    <3>1. r \in 1..Len(posted') /\ r + 1 # 0
          BY <2>2, <1>3
    <3> QED
          BY <3>1, <2>2, <1>3 DEF After
  <2> QED
        BY <2>1, <2>2
<1>6. After(Len(posted))' = After(Len(posted)) /\ Polled' = Polled
  <2>1. Len(posted') \in 0..Len(posted') /\ Len(posted') + 1 = Len(posted)
        BY <1>3
  <2>2. ASSUME NEW r, r = Len(posted')
        PROVE  After(r)' = After(Len(posted))
        BY <2>1, <2>2, <1>5
  <2>3. After(Len(posted))' = After(Len(posted))
        BY <2>2 DEF After
  <2> QED
        BY <2>3, <1>2 DEF Polled
<1>7. RecordsInv'
  <2>1. ASSUME NEW r \in 1..Len(posted')
        PROVE  posted'[r] # <<>>
    <3>1. r + 1 \in 1..Len(posted) /\ posted'[r] = posted[r + 1]
          BY <1>3
    <3> QED
          BY <3>1, <1>1 DEF RecordsInv
  <2> QED
        BY <2>1 DEF RecordsInv
<1>8. NoSilentLoss'
  <2>1. ASSUME NEW r \in 1..Len(posted')
        PROVE  Runs(posted[r], After(r - 1), After(r))'
    <3>1. /\ r + 1 \in 1..Len(posted) /\ posted'[r] = posted[r + 1]
          /\ r \in 0..Len(posted') /\ r - 1 \in 0..Len(posted')
          /\ (r - 1) + 1 = r /\ (r + 1) - 1 = r
          BY <1>3
    <3>2. After(r)' = After(r + 1) /\ After(r - 1)' = After(r)
          BY <3>1, <1>5
    <3>3. Runs(posted[r + 1], After((r + 1) - 1), After(r + 1))
          BY <3>1, <1>1 DEF NoSilentLoss
    <3> QED
          BY <3>1, <3>2, <3>3 DEF Runs
  <2>2. Runs(rows, After(Len(posted)), Polled) /\ Runs(events, Polled, emitted)
        BY <1>1 DEF NoSilentLoss
  <2>3. Runs(rows, After(Len(posted)), Polled)' /\ Runs(events, Polled, emitted)'
        BY <2>2, <1>2, <1>6 DEF Runs
  <2> QED
        BY <2>1, <2>3 DEF NoSilentLoss
<1>9. next' \in Numbers
  <2>1. 1 \in 0..Len(posted)
        BY <1>3
  <2> QED
        BY <2>1, <1>1, <1>4, LineTypes
<1>10. TypeOK'
      BY <1>1, <1>2, <1>3, <1>9 DEF TypeOK, workerVars
<1>11. ThreadInv'
      BY <1>1, <1>2 DEF ThreadInv, workerVars
<1> QED
      BY <1>7, <1>8, <1>10, <1>11 DEF CallsInv

---------------------------------------------------------------------------

\* The invariant holds in every reachable state of the worker, the SDK's queue
\* and the event view (worker.cpp, operations.cpp, app.cpp: result).
THEOREM CallsInvariant == Spec => []CallsInv
<1>1. ASSUME CallsInv, UNCHANGED vars
      PROVE  CallsInv'
  <2>1. TypeOK /\ ThreadInv /\ RecordsInv /\ NoSilentLoss
        BY <1>1 DEF CallsInv
  <2>2. UNCHANGED feedVars /\ UNCHANGED workerVars
        BY <1>1 DEF vars
  <2>3. RecordsInv' /\ NoSilentLoss'
        BY <2>1, <2>2, SameFeed
  <2>4. TypeOK' /\ ThreadInv'
        BY <2>1, <2>2 DEF TypeOK, ThreadInv, feedVars, workerVars
  <2> QED
        BY <2>3, <2>4 DEF CallsInv
<1>2. CallsInv /\ [Next]_vars => CallsInv'
      BY <1>1, JobStep, EmitStep, EndCallStep, PollStep, ReadStep, RoundEndStep, ShowStep
      DEF Next, Thread, Job, Round
<1> QED
      BY <1>2, CallsInvInit, PTL DEF Spec

\* The queue of jobs and the rows of a round keep their limits (worker.cpp:
\* submit; operations.cpp: events, 64 polls a round).
THEOREM TypeCorrect == Spec => []TypeOK
<1>1. CallsInv => TypeOK
      BY DEF CallsInv
<1> QED
      BY <1>1, CallsInvariant, PTL

\* Events reach the view once, in order, and none is lost without a record that
\* says so, whatever number of them is under way (operations.cpp: events;
\* worker.cpp: run; app.cpp: result).
THEOREM EventsAreAccountedFor == Spec => []NoSilentLoss
<1>1. CallsInv => NoSilentLoss
      BY DEF CallsInv
<1> QED
      BY <1>1, CallsInvariant, PTL

\* Every buffer the SDK handed out is freed before the thread waits again, on
\* every path out of an operation, a start or a round (buffer.hpp,
\* operations*.cpp, lifecycle.cpp).
THEOREM BuffersAreReturned == Spec => []BuffersReturned
<1>1. CallsInv => BuffersReturned
      BY DEF CallsInv, ThreadInv, BuffersReturned
<1> QED
      BY <1>1, CallsInvariant, PTL
=============================================================================
