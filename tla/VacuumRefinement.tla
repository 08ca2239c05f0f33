-------------------------- MODULE VacuumRefinement --------------------------
(***************************************************************************)
(* Vacuum implements its two abstract specifications, for every value of   *)
(* the constants: WorkerLife, which forgets the frames, and OrderedFeed,   *)
(* which forgets where they are.                                           *)
(***************************************************************************)
EXTENDS VacuumProofs

(***************************************************************************)
(* WorkerLife.  The consumer is the one main.rs starts: it ends only when  *)
(* recv() fails.                                                           *)
(***************************************************************************)

\* Nothing has been sent, received or stopped.
LEMMA LifeInitially == Init => Life!LifeInit
BY EmptySeqFacts
   DEF Init, WorkerInit, ChannelInit, Life!LifeInit, WorkerPhase

\* Every step is one of WorkerLife, or touches only what it forgets.
LEMMA LifeStep ==
    ASSUME ~ArenaMayExit, IInv, [Next]_vars
    PROVE  [Life!LifeNext]_(Life!lifeVars)
<1> USE DEF Life!LifeNext, Life!lifeVars, WorkerPhase
<1>0. /\ channel \in Seq(Frames) /\ Len(channel) \in Nat
      /\ batch \in Seq(Frames) /\ worker_pc \in WorkerPcs
  BY LenProperties DEF IInv, TypeOK
<1>1. CASE UNCHANGED <<worker_pc, rx, channel, shutdown>>
  BY <1>1
<1>2. CASE Pin
  BY <1>2 DEF Pin, channelVars, Life!Pin
<1>3. CASE PinFails
  BY <1>3 DEF PinFails, channelVars, Life!PinFails
<1>4. CASE ExitPollLoop
  BY <1>4 DEF ExitPollLoop, MayExit, Life!Stop
<1>5. CASE StartBatch \/ EndDrain \/ RecordOk \/ Yield
  BY <1>5 DEF StartBatch, EndDrain, RecordOk, Yield, channelVars
<1>6. CASE DropBadSize \/ DropRegressed \/ KeepFrame
  BY <1>1, <1>6 DEF DropBadSize, DropRegressed, KeepFrame, TakeRecord,
                    channelVars
<1>7. CASE DispatchFull \/ DispatchDisconnected
  BY <1>1, <1>7 DEF DispatchFull, DispatchDisconnected, NextOfBatch
<1>8. CASE DispatchSent
  <2>1. Len(channel') = Len(channel) + 1
    BY <1>0, <1>8, TailFacts, AppendFacts DEF DispatchSent, NextOfBatch
  <2> QED
    BY <1>8, <2>1 DEF DispatchSent, NextOfBatch, Life!Send, Life!HasRoom
<1>9. CASE Receive
  <2>1. Len(channel') = Len(channel) - 1 /\ Len(channel) > 0
    BY <1>0, <1>9, TailFacts DEF Receive
  <2>2. WorkerPhase # "panicked"
    BY <1>0, <1>9 DEF Receive, Alive, WorkerPcs
  <2> QED
    BY <1>9, <2>1, <2>2 DEF Receive, workerVars, Life!Receive
<1>10. CASE HangUp
  <2>1. worker_pc = "exited"
    BY <1>10 DEF HangUp, SenderGone, Alive, IInv, ControlInv
  <2> QED
    BY <1>10, <2>1, EmptySeqFacts
       DEF HangUp, workerVars, Life!HangUp, Life!SenderGone
<1>11. CASE ArenaExits
  BY <1>11 DEF ArenaExits
<1>12. ASSUME NEW r \in Records, Commit(r)
       PROVE  [Life!LifeNext]_(Life!lifeVars)
  BY <1>1, <1>12 DEF Commit, workerVars, channelVars
<1>13. CASE RequestShutdown
  <2>1. WorkerPhase # "panicked"
    BY <1>0, <1>13 DEF RequestShutdown, Alive, WorkerPcs
  <2> QED
    BY <1>13, <2>1 DEF RequestShutdown, workerVars, channelVars,
                       Life!RequestShutdown
<1>14. CASE UNCHANGED vars
  BY <1>1, <1>14 DEF vars, workerVars, channelVars
<1>15. CASE ProcessEnds
  BY <1>15 DEF ProcessEnds, channelVars
<1> QED
  BY <1>2, <1>3, <1>4, <1>5, <1>6, <1>7, <1>8, <1>9, <1>10, <1>11, <1>12,
     <1>13, <1>14, <1>15 DEF Next, WorkerStep, ArenaStep

\* With the consumer of main.rs, the worker and the consumer live the life
\* from which Capture composes the process.
THEOREM LifeImplemented ==
    ASSUME ~ArenaMayExit
    PROVE  Spec => ImplementsLife
<1>1. IInv /\ [Next]_vars => [Life!LifeNext]_(Life!lifeVars)
  BY LifeStep
<1> QED
  BY <1>1, LifeInitially, IInvAlways, PTL
     DEF Spec, ImplementsLife, Life!LifeSpec
(***************************************************************************)
(* OrderedFeed.  Facts about the queue it sees: channel, batch and ring,   *)
(* one behind the other.                                                   *)
(***************************************************************************)

\* A sequence of one element.
LEMMA SingletonFacts ==
    ASSUME NEW S, NEW e \in S
    PROVE  <<e>> \in Seq(S) /\ Len(<<e>>) = 1 /\ <<e>>[1] = e
OBVIOUS

\* Adding an element at the front of a sequence.
LEMMA ConsFacts ==
    ASSUME NEW S, NEW e \in S, NEW t \in Seq(S)
    PROVE  /\ <<e>> \o t \in Seq(S)
           /\ Len(t) \in Nat
           /\ Len(<<e>> \o t) = Len(t) + 1
           /\ (<<e>> \o t)[1] = e
           /\ \A i \in 1..Len(t) : (<<e>> \o t)[i + 1] = t[i]
<1> DEFINE h == <<e>>
<1>1. h \in Seq(S) /\ Len(h) = 1 /\ h[1] = e
  BY SingletonFacts, Zenon
<1>2. Len(t) \in Nat
  BY LenProperties
<1> HIDE DEF h
<1>3. /\ h \o t \in Seq(S) /\ Len(h \o t) = 1 + Len(t)
      /\ \A i \in 1..(1 + Len(t)) :
             (h \o t)[i] = IF i <= 1 THEN h[i] ELSE t[i - 1]
  <2>1. /\ h \o t \in Seq(S) /\ Len(h \o t) = Len(h) + Len(t)
        /\ \A i \in 1..(Len(h) + Len(t)) :
               (h \o t)[i] = IF i <= Len(h) THEN h[i] ELSE t[i - Len(h)]
    BY <1>1, ConcatProperties
  <2> QED
    BY <1>1, <1>2, <2>1
<1>4. (h \o t)[1] = e
  BY <1>1, <1>2, <1>3
<1>5. ASSUME NEW i \in 1..Len(t) PROVE (h \o t)[i + 1] = t[i]
  <2>1. i + 1 \in 1..(1 + Len(t)) /\ ~(i + 1 <= 1) /\ (i + 1) - 1 = i
    BY <1>2
  <2> QED
    BY <1>3, <2>1
<1> QED
  BY <1>2, <1>3, <1>4, <1>5 DEF h

\* A sequence is known by its first element and by those behind it.
LEMMA EqualByHead ==
    ASSUME NEW S, NEW s \in Seq(S), NEW e \in S, NEW t \in Seq(S),
           Len(s) = Len(t) + 1, s[1] = e,
           \A i \in 1..Len(t) : s[i + 1] = t[i]
    PROVE  s = <<e>> \o t
<1> DEFINE u == <<e>> \o t
<1>1. /\ u \in Seq(S) /\ Len(t) \in Nat /\ Len(u) = Len(t) + 1 /\ u[1] = e
      /\ \A i \in 1..Len(t) : u[i + 1] = t[i]
  BY ConsFacts
<1> HIDE DEF u
<1>2. ASSUME NEW j \in 1..Len(s) PROVE s[j] = u[j]
  <2>1. CASE j = 1
    BY <1>1, <2>1
  <2>2. CASE j # 1
    <3>1. j - 1 \in 1..Len(t) /\ (j - 1) + 1 = j
      BY <1>1, <2>2
    <3> QED
      BY <1>1, <3>1
  <2> QED
    BY <2>1, <2>2
<1>3. s = u
  BY <1>1, <1>2, SeqEqual
<1> QED
  BY <1>3 DEF u

Strip(s) == [i \in 1..Len(s) |-> s[i].frame]

\* The frames of a sequence of records, one by one.
LEMMA StripFacts ==
    ASSUME NEW s \in Seq(Records)
    PROVE  /\ Strip(s) \in Seq(Frames)
           /\ Len(Strip(s)) = Len(s)
           /\ \A i \in 1..Len(s) : Strip(s)[i] = s[i].frame
<1>1. Len(s) \in Nat /\ \A i \in 1..Len(s) : s[i].frame \in Frames
  BY LenProperties, ElementOfSeq, FrameFacts
<1>2. Strip(s) \in [1..Len(s) -> Frames]
  BY <1>1 DEF Strip
<1>3. Strip(s) \in Seq(Frames)
  BY <1>1, <1>2, SeqDef
<1>4. DOMAIN Strip(s) = 1..Len(s)
  BY DEF Strip
<1>5. Len(Strip(s)) \in Nat /\ 1..Len(Strip(s)) = 1..Len(s)
  BY <1>3, <1>4, LenProperties
<1>6. Len(Strip(s)) = Len(s)
  BY <1>1, <1>5
<1> QED
  BY <1>3, <1>6 DEF Strip

\* Committing a record appends its frame.
LEMMA StripAppend ==
    ASSUME NEW s \in Seq(Records), NEW r \in Records
    PROVE  Strip(Append(s, r)) = Append(Strip(s), r.frame)
<1>1. /\ Append(s, r) \in Seq(Records) /\ Len(s) \in Nat
      /\ Len(Append(s, r)) = Len(s) + 1
      /\ \A i \in 1..Len(s) : Append(s, r)[i] = s[i]
      /\ Append(s, r)[Len(s) + 1] = r
  BY AppendFacts
<1>2. r.frame \in Frames
  BY FrameFacts
<1>3. /\ Strip(s) \in Seq(Frames) /\ Len(Strip(s)) = Len(s)
      /\ \A i \in 1..Len(s) : Strip(s)[i] = s[i].frame
  BY StripFacts
<1>4. /\ Append(Strip(s), r.frame) \in Seq(Frames)
      /\ Len(Append(Strip(s), r.frame)) = Len(s) + 1
      /\ \A i \in 1..Len(s) : Append(Strip(s), r.frame)[i] = Strip(s)[i]
      /\ Append(Strip(s), r.frame)[Len(s) + 1] = r.frame
  BY <1>2, <1>3, AppendFacts
<1>5. /\ Strip(Append(s, r)) \in Seq(Frames)
      /\ Len(Strip(Append(s, r))) = Len(s) + 1
      /\ \A i \in 1..(Len(s) + 1) :
             Strip(Append(s, r))[i] = Append(s, r)[i].frame
  BY <1>1, StripFacts
<1>6. ASSUME NEW i \in 1..(Len(s) + 1)
      PROVE  Strip(Append(s, r))[i] = Append(Strip(s), r.frame)[i]
  <2>1. i \in 1..Len(s) \/ i = Len(s) + 1
    BY <1>1
  <2> QED
    BY <1>1, <1>3, <1>4, <1>5, <2>1
<1> QED
  BY <1>4, <1>5, <1>6, SeqEqual

\* Taking a record takes its frame.
LEMMA StripTail ==
    ASSUME NEW s \in Seq(Records), s # <<>>
    PROVE  Strip(s) = <<Head(s).frame>> \o Strip(Tail(s))
<1>1. /\ Head(s) \in Records /\ Head(s) = s[1] /\ Tail(s) \in Seq(Records)
      /\ Len(s) \in Nat \ {0} /\ Len(Tail(s)) = Len(s) - 1
      /\ \A i \in 1..Len(Tail(s)) : Tail(s)[i] = s[i + 1]
  BY TailFacts
<1>2. /\ Strip(Tail(s)) \in Seq(Frames)
      /\ Len(Strip(Tail(s))) = Len(Tail(s))
      /\ \A i \in 1..Len(Tail(s)) : Strip(Tail(s))[i] = Tail(s)[i].frame
  BY <1>1, StripFacts
<1>3. /\ Strip(s) \in Seq(Frames) /\ Len(Strip(s)) = Len(s)
      /\ \A i \in 1..Len(s) : Strip(s)[i] = s[i].frame
  BY StripFacts
<1>4. Head(s).frame \in Frames /\ Strip(s)[1] = Head(s).frame
  BY <1>1, <1>3, FrameFacts
<1>5. ASSUME NEW i \in 1..Len(Strip(Tail(s)))
      PROVE  Strip(s)[i + 1] = Strip(Tail(s))[i]
  <2>1. i \in 1..Len(Tail(s)) /\ i + 1 \in 1..Len(s)
    BY <1>1, <1>2
  <2> QED
    BY <1>1, <1>2, <1>3, <2>1
<1>6. Len(Strip(s)) = Len(Strip(Tail(s))) + 1
  <2>1. /\ Len(Strip(s)) = Len(s) /\ Len(Strip(Tail(s))) = Len(Tail(s))
        /\ Len(Tail(s)) = Len(s) - 1 /\ Len(s) \in Nat
    BY <1>1, <1>2, <1>3
  <2> QED
    BY <2>1
<1> QED
  BY <1>2, <1>3, <1>4, <1>5, <1>6, EqualByHead

\* A non-empty sequence is its head and its tail.
LEMMA HeadThenTail ==
    ASSUME NEW s \in Seq(Frames), s # <<>>
    PROVE  s = <<Head(s)>> \o Tail(s) /\ <<Head(s)>> \in Seq(Frames)
<1>1. /\ Head(s) \in Frames /\ Head(s) = s[1] /\ Tail(s) \in Seq(Frames)
      /\ Len(s) \in Nat \ {0} /\ Len(Tail(s)) = Len(s) - 1
      /\ \A i \in 1..Len(Tail(s)) : Tail(s)[i] = s[i + 1]
  BY TailFacts
<1>2. Len(s) = Len(Tail(s)) + 1
  BY <1>1
<1>3. s = <<Head(s)>> \o Tail(s)
  BY <1>1, <1>2, EqualByHead
<1>4. <<Head(s)>> \in Seq(Frames)
  BY <1>1, SingletonFacts, Zenon
<1> QED
  BY <1>3, <1>4, Zenon

\* Cutting a run b out of a queue leaves what was before and behind it.
LEMMA CutOut ==
    ASSUME NEW a \in Seq(Frames), NEW b \in Seq(Frames), NEW c \in Seq(Frames)
    PROVE  LET q == a \o (b \o c)
           IN  a \o c = SubSeq(q, 1, Len(a)) \o
                        SubSeq(q, Len(a) + Len(b) + 1, Len(q))
<1> DEFINE q == a \o (b \o c)
           x == SubSeq(q, 1, Len(a))
           y == SubSeq(q, Len(a) + Len(b) + 1, Len(q))
<1>1. Len(a) \in Nat /\ Len(b) \in Nat /\ Len(c) \in Nat
  BY LenProperties
<1>2. /\ b \o c \in Seq(Frames) /\ Len(b \o c) = Len(b) + Len(c)
      /\ \A i \in 1..(Len(b) + Len(c)) :
             (b \o c)[i] = IF i <= Len(b) THEN b[i] ELSE c[i - Len(b)]
  BY ConcatProperties
<1>3. /\ q \in Seq(Frames) /\ Len(q) = Len(a) + (Len(b) + Len(c))
      /\ \A i \in 1..(Len(a) + (Len(b) + Len(c))) :
             q[i] = IF i <= Len(a) THEN a[i] ELSE (b \o c)[i - Len(a)]
  BY <1>2, ConcatProperties
<1> HIDE DEF q
<1>4. \A i \in 1..Len(q) : q[i] \in Frames
  BY <1>3, ElementOfSeq
<1>5. /\ \A i \in 1..Len(a) : q[i] \in Frames
      /\ \A i \in (Len(a) + Len(b) + 1)..Len(q) : q[i] \in Frames
  BY <1>1, <1>3, <1>4
<1>6. /\ x \in Seq(Frames) /\ Len(x) = Len(a)
      /\ \A i \in 1..Len(a) : x[i] = q[i]
  BY <1>1, <1>5, SubSeqProperties
<1>7. /\ y \in Seq(Frames) /\ Len(y) = Len(c)
      /\ \A i \in 1..Len(c) : y[i] = q[Len(a) + Len(b) + i]
  BY <1>1, <1>3, <1>5, SubSeqProperties
<1> HIDE DEF x, y
<1>8. x = a
  BY <1>1, <1>3, <1>6, SeqEqual
<1>9. ASSUME NEW i \in 1..Len(c) PROVE y[i] = c[i]
  <2> DEFINE n == Len(a) + Len(b) + i
  <2>1. /\ n \in 1..(Len(a) + (Len(b) + Len(c))) /\ ~(n <= Len(a))
        /\ n - Len(a) \in 1..(Len(b) + Len(c)) /\ ~(n - Len(a) <= Len(b))
        /\ (n - Len(a)) - Len(b) = i
    BY <1>1
  <2>2. y[i] = q[n]
    BY <1>7
  <2> HIDE DEF n
  <2> QED
    BY <1>2, <1>3, <2>1, <2>2
<1>10. y = c
  BY <1>7, <1>9, SeqEqual
<1> QED
  BY <1>8, <1>10 DEF q, x, y

\* Concatenation of frames is associative.
LEMMA Assoc ==
    ASSUME NEW x \in Seq(Frames), NEW y \in Seq(Frames), NEW z \in Seq(Frames)
    PROVE  (x \o y) \o z = x \o (y \o z)
BY ConcatAssociative

(***************************************************************************)
(* OrderedFeed, step by step.                                              *)
(***************************************************************************)

\* A step that cuts a run b out of the queue, and delivers nothing, is a Lose.
LEMMA CutIsLose ==
    ASSUME NEW a \in Seq(Frames), NEW b \in Seq(Frames), NEW c \in Seq(Frames),
           b # <<>>, InTransit = a \o (b \o c), InTransit' = a \o c,
           received' = received
    PROVE  Feed!Lose
<1> DEFINE q == InTransit
           i == Len(a) + 1
           j == Len(a) + Len(b)
<1>1. /\ Len(a) \in Nat /\ Len(b) \in Nat \ {0} /\ Len(c) \in Nat
  BY LenProperties, EmptySeq
<1>2. Len(q) = Len(a) + (Len(b) + Len(c))
  <2>1. b \o c \in Seq(Frames) /\ Len(b \o c) = Len(b) + Len(c)
    BY ConcatProperties
  <2>2. Len(a \o (b \o c)) = Len(a) + Len(b \o c)
    BY <2>1, ConcatProperties
  <2> QED
    BY <2>1, <2>2
<1>3. i \in 1..Len(q) /\ j \in i..Len(q)
  BY <1>1, <1>2
<1>4. i - 1 = Len(a) /\ j + 1 = Len(a) + Len(b) + 1
  BY <1>1
<1>5. a \o c = SubSeq(q, 1, Len(a)) \o SubSeq(q, Len(a) + Len(b) + 1, Len(q))
  BY CutOut, Zenon
<1>6. q' = SubSeq(q, 1, i - 1) \o SubSeq(q, j + 1, Len(q))
  BY <1>4, <1>5
<1> HIDE DEF i, j
<1> QED
  BY <1>3, <1>6 DEF Feed!Lose

\* Nothing is on its way and nothing has been delivered.
LEMMA FeedInitially == Init => Feed!FeedInit
<1> SUFFICES ASSUME Init PROVE Feed!FeedInit
  OBVIOUS
<1>1. channel = <<>> /\ batch = <<>> /\ ring = <<>> /\ received = <<>>
  BY DEF Init, WorkerInit, ChannelInit
<1>2. Strip(<<>>) = <<>> /\ <<>> \o <<>> = <<>>
  <2>1. Strip(<<>>) \in Seq(Frames) /\ Len(Strip(<<>>)) = 0
    BY StripFacts, EmptySeqFacts
  <2>2. Strip(<<>>) = <<>>
    BY <2>1, EmptySeq
  <2> QED
    BY <2>2, EmptySeqFacts, ConcatEmptySeq
<1>3. InTransit = (<<>> \o <<>>) \o Strip(<<>>)
  BY <1>1 DEF InTransit, Strip
<1> QED
  BY <1>1, <1>2, <1>3 DEF Feed!FeedInit

\* The queue OrderedFeed sees, before and after a step.
LEMMA QueueFacts ==
    ASSUME IInv, IInv'
    PROVE  /\ TypeOK /\ TypeOK'
           /\ ring \in Seq(Records) /\ ring' \in Seq(Records)
           /\ batch \in Seq(Frames) /\ batch' \in Seq(Frames)
           /\ channel \in Seq(Frames) /\ channel' \in Seq(Frames)
           /\ Strip(ring) \in Seq(Frames) /\ Strip(ring') \in Seq(Frames)
           /\ InTransit = channel \o (batch \o Strip(ring))
           /\ InTransit' = channel' \o (batch' \o Strip(ring'))
           /\ InTransit \in Seq(Frames)
<1> DEFINE t == Strip(ring)
<1>0. /\ TypeOK /\ TypeOK' /\ ring \in Seq(Records) /\ ring' \in Seq(Records)
      /\ batch \in Seq(Frames) /\ batch' \in Seq(Frames)
      /\ channel \in Seq(Frames) /\ channel' \in Seq(Frames)
      /\ t \in Seq(Frames) /\ Strip(ring') \in Seq(Frames)
  BY StripFacts DEF IInv, TypeOK
<1>1. /\ InTransit = channel \o (batch \o t)
      /\ InTransit' = channel' \o (batch' \o Strip(ring'))
  <2>1. InTransit = (channel \o batch) \o t
        /\ InTransit' = (channel' \o batch') \o Strip(ring')
    BY DEF InTransit, Strip
  <2>2. channel \in Seq(Frames) /\ batch \in Seq(Frames) /\ t \in Seq(Frames)
    BY <1>0
  <2>3. channel' \in Seq(Frames) /\ batch' \in Seq(Frames)
        /\ Strip(ring') \in Seq(Frames)
    BY <1>0
  <2> HIDE DEF t
  <2>4. (channel \o batch) \o t = channel \o (batch \o t)
    BY <2>2, Assoc
  <2>5. (channel' \o batch') \o Strip(ring') = channel' \o (batch' \o Strip(ring'))
    BY <2>3, Assoc
  <2> QED
    BY <2>1, <2>4, <2>5
<1>2. InTransit \in Seq(Frames)
  <2>1. batch \o t \in Seq(Frames)
    BY <1>0, ConcatProperties
  <2> HIDE DEF t
  <2> QED
    BY <1>0, <1>1, <2>1, ConcatProperties
<1> QED
  BY <1>0, <1>1, <1>2

\* What the kernel commits is offered at the back of the queue.
LEMMA CommitOffers ==
    ASSUME IInv, IInv', NEW r \in Records, Commit(r)
    PROVE  Feed!Offer(r.frame)
<1> DEFINE t == Strip(ring)
<1>0. /\ TypeOK /\ TypeOK' /\ ring \in Seq(Records) /\ ring' \in Seq(Records)
      /\ batch \in Seq(Frames) /\ batch' \in Seq(Frames)
      /\ channel \in Seq(Frames) /\ channel' \in Seq(Frames)
      /\ t \in Seq(Frames) /\ Strip(ring') \in Seq(Frames)
  BY QueueFacts
<1>1. /\ InTransit = channel \o (batch \o t)
      /\ InTransit' = channel' \o (batch' \o Strip(ring'))
  BY QueueFacts
<1> HIDE DEF t
<1> DEFINE f == r.frame
<1>2. ring' = Append(ring, r) /\ UNCHANGED <<channel, batch, received>>
  BY DEF Commit, workerVars, channelVars, historyVars
<1>3. f \in Frames /\ Strip(ring') = Append(t, f)
  BY <1>0, <1>2, FrameFacts, StripAppend DEF t
<1>4. <<f>> \in Seq(Frames)
  BY <1>3, SingletonFacts, Zenon
<1> HIDE DEF f
<1>5. Strip(ring') = t \o <<f>>
  BY <1>0, <1>3, AppendIsConcat
<1>6. batch \o t \in Seq(Frames) /\ InTransit \in Seq(Frames)
  BY <1>0, <1>1, ConcatProperties
<1>7. batch \o (t \o <<f>>) = (batch \o t) \o <<f>>
  <2> DEFINE g == <<f>>
  <2>1. batch \in Seq(Frames) /\ t \in Seq(Frames) /\ g \in Seq(Frames)
    BY <1>0, <1>4
  <2> HIDE DEF g
  <2>2. batch \o (t \o g) = (batch \o t) \o g
    BY <2>1, Assoc
  <2> QED
    BY <2>2 DEF g
<1>8. channel \o ((batch \o t) \o <<f>>) = (channel \o (batch \o t)) \o <<f>>
  <2> DEFINE g == <<f>>
             u == batch \o t
  <2>1. channel \in Seq(Frames) /\ u \in Seq(Frames) /\ g \in Seq(Frames)
    BY <1>0, <1>4, <1>6
  <2> HIDE DEF g, u
  <2>2. channel \o (u \o g) = (channel \o u) \o g
    BY <2>1, Assoc
  <2> QED
    BY <2>2 DEF g, u
<1>9. InTransit' = InTransit \o <<f>>
  BY <1>1, <1>2, <1>5, <1>7, <1>8
<1>10. InTransit' = Append(InTransit, f)
  BY <1>3, <1>6, <1>9, AppendIsConcat
<1> QED
  BY <1>2, <1>10 DEF Feed!Offer, f

\* The threads and main only move the queue's frames on, or lose some.
LEMMA ThreadsMoveQueue ==
    ASSUME IInv, IInv',
           \/ WorkerStep \/ ArenaStep \/ ArenaExits \/ RequestShutdown
           \/ ProcessEnds \/ UNCHANGED vars
    PROVE  Feed!Lose \/ Feed!Deliver \/ UNCHANGED Feed!feedVars
<1> USE DEF Feed!feedVars
<1> DEFINE t == Strip(ring)
<1>0. /\ TypeOK /\ TypeOK' /\ ring \in Seq(Records) /\ ring' \in Seq(Records)
      /\ batch \in Seq(Frames) /\ batch' \in Seq(Frames)
      /\ channel \in Seq(Frames) /\ channel' \in Seq(Frames)
      /\ t \in Seq(Frames) /\ Strip(ring') \in Seq(Frames)
  BY QueueFacts
<1>1. /\ InTransit = channel \o (batch \o t)
      /\ InTransit' = channel' \o (batch' \o Strip(ring'))
  BY QueueFacts
<1> HIDE DEF t
<1>2. CASE UNCHANGED <<channel, batch, ring, received>>
  BY <1>2 DEF InTransit
<1>3. CASE StartBatch
  BY <1>2, <1>3 DEF StartBatch, IInv, ControlInv, channelVars, historyVars
<1>4. CASE DropBadSize \/ DropRegressed
  <2> DEFINE b == <<Head(ring).frame>>
  <2>1. ring # <<>> /\ ring' = Tail(ring)
        /\ UNCHANGED <<channel, batch, received>>
    BY <1>4 DEF DropBadSize, DropRegressed, TakeRecord, channelVars
  <2>2. t = b \o Strip(ring') /\ Head(ring).frame \in Frames
    BY <1>0, <2>1, StripTail, TailFacts, FrameFacts DEF t
  <2>3. b \in Seq(Frames) /\ b # <<>>
    BY <2>2, SingletonFacts, Zenon
  <2> HIDE DEF b
  <2>4. channel \o batch \in Seq(Frames) /\ b \o Strip(ring') \in Seq(Frames)
    BY <1>0, <2>3, ConcatProperties
  <2>5. /\ InTransit = (channel \o batch) \o (b \o Strip(ring'))
        /\ InTransit' = (channel \o batch) \o Strip(ring')
    <3>1. channel \in Seq(Frames) /\ batch \in Seq(Frames)
          /\ Strip(ring') \in Seq(Frames)
      BY <1>0
    <3>2. (channel \o batch) \o (b \o Strip(ring'))
            = channel \o (batch \o (b \o Strip(ring')))
      BY <2>4, <3>1, Assoc, SMTT(30)
    <3>3. (channel \o batch) \o Strip(ring')
            = channel \o (batch \o Strip(ring'))
      BY <3>1, Assoc
    <3>4. channel' = channel /\ batch' = batch
      BY <2>1
    <3>5. t = b \o Strip(ring')
      BY <2>2
    <3> QED
      BY <1>1, <3>2, <3>3, <3>4, <3>5
  <2>6. Feed!Lose
    BY <1>0, <2>1, <2>3, <2>4, <2>5, CutIsLose
  <2> QED
    BY <2>6
<1>5. CASE KeepFrame
  <2> DEFINE f == Head(ring).frame
  <2>1. ring # <<>> /\ ring' = Tail(ring) /\ UNCHANGED <<channel, received>>
        /\ batch' = TryPush(batch, f)
        /\ worker_pc = "drain" /\ drained < BATCH_SIZE
    BY <1>5 DEF KeepFrame, TakeRecord, MoreToDrain, channelVars
  <2>2. t = <<f>> \o Strip(ring') /\ f \in Frames
    BY <1>0, <2>1, StripTail, TailFacts, FrameFacts DEF t
  <2>3. Len(batch) < BATCH_SIZE
    BY <2>1, LenProperties, VacuumAssumption DEF IInv, ControlInv, TypeOK
  <2> HIDE DEF f
  <2>4. batch' = batch \o <<f>> /\ <<f>> \in Seq(Frames)
    <3>1. batch' = Append(batch, f)
      BY <2>1, <2>3 DEF TryPush
    <3>2. Append(batch, f) = batch \o <<f>>
      BY <1>0, <2>2, AppendIsConcat
    <3>3. <<f>> \in Seq(Frames)
      BY <2>2, SingletonFacts, Zenon
    <3> QED
      BY <3>1, <3>2, <3>3, Zenon
  <2>5. batch \o (<<f>> \o Strip(ring')) = (batch \o <<f>>) \o Strip(ring')
    <3> DEFINE g == <<f>>
    <3>1. batch \in Seq(Frames) /\ g \in Seq(Frames) /\ Strip(ring') \in Seq(Frames)
      BY <1>0, <2>4
    <3> HIDE DEF g
    <3>2. batch \o (g \o Strip(ring')) = (batch \o g) \o Strip(ring')
      BY <3>1, Assoc
    <3> QED
      BY <3>2 DEF g
  <2>6. InTransit' = InTransit
    BY <1>1, <2>1, <2>2, <2>4, <2>5
  <2> QED
    BY <2>1, <2>6
<1>6. CASE DispatchSent
  <2> DEFINE f == Head(batch)
  <2>1. batch # <<>> /\ batch' = Tail(batch) /\ UNCHANGED <<ring, received>>
        /\ channel' = Append(channel, f)
    BY <1>6 DEF DispatchSent, NextOfBatch, RestOfBatch
  <2>2. batch = <<f>> \o batch' /\ <<f>> \in Seq(Frames) /\ f \in Frames
    BY <1>0, <2>1, HeadThenTail, TailFacts
  <2> HIDE DEF f
  <2>3. channel' = channel \o <<f>>
    BY <1>0, <2>1, <2>2, AppendIsConcat
  <2>4. batch \o t = <<f>> \o (batch' \o t)
    BY <1>0, <2>2, ConcatAssociative
  <2>5. batch' \o t \in Seq(Frames)
    BY <1>0, ConcatProperties
  <2>6. channel \o (<<f>> \o (batch' \o t)) = (channel \o <<f>>) \o (batch' \o t)
    <3> DEFINE g == <<f>>
               u == batch' \o t
    <3>1. channel \in Seq(Frames) /\ g \in Seq(Frames) /\ u \in Seq(Frames)
      BY <1>0, <2>2, <2>5
    <3> HIDE DEF g, u
    <3>2. channel \o (g \o u) = (channel \o g) \o u
      BY <3>1, Assoc
    <3> QED
      BY <3>2 DEF g, u
  <2>7. InTransit' = InTransit
    BY <1>1, <2>1, <2>3, <2>4, <2>6 DEF t
  <2> QED
    BY <2>1, <2>7
<1>7. CASE DispatchFull \/ DispatchDisconnected
  <2> DEFINE b == <<Head(batch)>>
  <2>1. batch # <<>> /\ batch' = Tail(batch)
        /\ UNCHANGED <<ring, channel, received>>
    BY <1>7 DEF DispatchFull, DispatchDisconnected, NextOfBatch, RestOfBatch
  <2>2. batch = b \o batch' /\ b \in Seq(Frames) /\ b # <<>>
    BY <1>0, <2>1, HeadThenTail
  <2> HIDE DEF b
  <2>3. batch \o t = b \o (batch' \o t) /\ batch' \o t \in Seq(Frames)
    <3>1. batch' \o t \in Seq(Frames)
      BY <1>0, ConcatProperties
    <3>2. batch \o t = b \o (batch' \o t)
      <4>1. b \in Seq(Frames) /\ batch' \in Seq(Frames) /\ t \in Seq(Frames)
        BY <1>0, <2>2
      <4>2. (b \o batch') \o t = b \o (batch' \o t)
        BY <4>1, Assoc
      <4>3. batch = b \o batch'
        BY <2>2
      <4> QED
        BY <4>2, <4>3
    <3> QED
      BY <3>1, <3>2
  <2>4. /\ InTransit = channel \o (b \o (batch' \o t))
        /\ InTransit' = channel \o (batch' \o t)
    BY <1>1, <2>1, <2>3 DEF t
  <2>5. Feed!Lose
    BY <1>0, <2>1, <2>2, <2>3, <2>4, CutIsLose
  <2> QED
    BY <2>5
<1>8. CASE Receive
  <2> DEFINE f == Head(channel)
             r == batch \o t
  <2>1. channel # <<>> /\ channel' = Tail(channel) /\ UNCHANGED <<ring, batch>>
        /\ received' = Append(received, f)
    BY <1>8 DEF Receive, workerVars
  <2>2. channel = <<f>> \o channel' /\ <<f>> \in Seq(Frames) /\ f \in Frames
    BY <1>0, <2>1, HeadThenTail, TailFacts
  <2>3. r \in Seq(Frames)
    BY <1>0, ConcatProperties
  <2>4. UpTo(received, f.timestamp_ns)
    BY <1>0, <2>1, TakeOldest DEF IInv, OrderInv
  <2>5. InTransit = channel \o r /\ InTransit' = channel' \o r
    BY <1>1, <2>1 DEF t
  <2> HIDE DEF f, r
  <2>6. InTransit = <<f>> \o InTransit'
    BY <1>0, <2>2, <2>3, <2>5, ConcatAssociative, SMTT(30)
  <2>7. InTransit' \in Seq(Frames)
    BY <1>0, <2>3, <2>5, ConcatProperties
  <2>8. /\ InTransit # <<>> /\ Head(InTransit) = f
        /\ Tail(InTransit) = InTransit'
    <3> DEFINE q == InTransit
               u == InTransit'
    <3>1. /\ q \in Seq(Frames) /\ Len(u) \in Nat /\ Len(q) = Len(u) + 1
          /\ q[1] = f /\ \A i \in 1..Len(u) : q[i + 1] = u[i]
      BY <2>2, <2>6, <2>7, ConsFacts
    <3>2. u \in Seq(Frames)
      BY <2>7
    <3> HIDE DEF q, u
    <3>3. q # <<>>
      BY <3>1, EmptySeqFacts
    <3>4. /\ Head(q) = q[1] /\ Tail(q) \in Seq(Frames)
          /\ Len(Tail(q)) = Len(q) - 1
          /\ \A i \in 1..Len(Tail(q)) : Tail(q)[i] = q[i + 1]
      BY <3>1, <3>3, TailFacts
    <3>5. Tail(q) = u
      BY <3>1, <3>2, <3>4, SeqEqual
    <3> QED
      BY <3>1, <3>3, <3>4, <3>5 DEF q, u
  <2>9. Feed!NotOlder(Head(InTransit))
    <3>1. DOMAIN received = 1..Len(received)
      BY LenProperties DEF IInv, TypeOK
    <3> QED
      BY <2>4, <2>8, <3>1 DEF Feed!NotOlder, UpTo
  <2>10. Feed!Deliver
    BY <2>1, <2>8, <2>9 DEF Feed!Deliver
  <2> QED
    BY <2>10
<1>9. CASE ArenaExits
  <2>1. channel' = <<>> /\ UNCHANGED <<ring, batch, received>>
    BY <1>9 DEF ArenaExits, workerVars
  <2>2. batch \o t \in Seq(Frames)
    BY <1>0, ConcatProperties
  <2>3. InTransit' = <<>> \o (batch \o t)
    BY <1>1, <2>1 DEF t
  <2>4. CASE channel = <<>>
    BY <1>1, <2>1, <2>3, <2>4
  <2>5. CASE channel # <<>>
    <3>1. channel \o (batch \o t) \in Seq(Frames)
      BY <1>0, <2>2, ConcatProperties
    <3>2. <<>> \in Seq(Frames)
      BY EmptySeqFacts
    <3>3. InTransit = <<>> \o (channel \o (batch \o t))
      BY <1>1, <3>1, ConcatEmptySeq
    <3>4. Feed!Lose
      BY <1>0, <2>1, <2>2, <2>3, <2>5, <3>2, <3>3, CutIsLose
    <3> QED
      BY <3>4
  <2> QED
    BY <2>4, <2>5
<1>11. CASE UNCHANGED vars
  BY <1>2, <1>11 DEF vars, workerVars, channelVars, historyVars
<1>12. CASE Pin \/ PinFails \/ ExitPollLoop \/ EndDrain \/ Yield \/ ProcessEnds
  BY <1>2, <1>12 DEF Pin, PinFails, ExitPollLoop, EndDrain, Yield, ProcessEnds,
                     channelVars, historyVars
<1>13. CASE RecordOk \/ HangUp \/ RequestShutdown
  BY <1>2, <1>13 DEF RecordOk, HangUp, RequestShutdown, workerVars,
                     channelVars, historyVars
<1> QED
  BY <1>3, <1>4, <1>5, <1>6, <1>7, <1>8, <1>9, <1>11, <1>12, <1>13
     DEF WorkerStep, ArenaStep

\* Every step is one of OrderedFeed, or leaves what it sees alone.
LEMMA FeedStep ==
    ASSUME IInv, IInv', [Next]_vars
    PROVE  [Feed!FeedNext]_(Feed!feedVars)
<1>1. CASE \E r \in Records : Commit(r)
  <2>1. PICK r \in Records : Commit(r)
    BY <1>1
  <2>2. Feed!Offer(r.frame) /\ r.frame \in Frames
    BY <2>1, CommitOffers, FrameFacts
  <2> QED
    BY <2>2 DEF Feed!FeedNext
<1>2. CASE \/ WorkerStep \/ ArenaStep \/ ArenaExits \/ RequestShutdown
           \/ ProcessEnds \/ UNCHANGED vars
  BY <1>2, ThreadsMoveQueue DEF Feed!FeedNext
<1> QED
  BY <1>1, <1>2 DEF Next

\* Whatever the producers commit and wherever frames are lost, the path from
\* the ring to the arena invents, duplicates and reorders none of them.
THEOREM FeedImplemented == Spec => ImplementsFeed
<1>1. IInv /\ IInv' /\ [Next]_vars => [Feed!FeedNext]_(Feed!feedVars)
  BY FeedStep
<1> QED
  BY <1>1, FeedInitially, IInvAlways, PTL
     DEF Spec, ImplementsFeed, Feed!FeedSpec

=============================================================================
