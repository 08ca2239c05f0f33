---------------------------- MODULE OrderedFeed -----------------------------
(***************************************************************************)
(* What the capture path promises the arena, with ring, batch and channel  *)
(* forgotten: one queue of frames.  Frames may be lost anywhere in it, but *)
(* none is invented, duplicated or overtaken, and one that is delivered is *)
(* never older than one delivered before it.                               *)
(***************************************************************************)
EXTENDS Naturals, Sequences

CONSTANT Frames

VARIABLES
    queue,      \* committed by the kernel, neither lost nor delivered yet
    delivered   \* what the arena has been given, in order

feedVars == <<queue, delivered>>

FeedInit ==
    /\ queue = <<>>
    /\ delivered = <<>>

Offer(f) ==
    /\ queue' = Append(queue, f)
    /\ UNCHANGED delivered

\* A run of neighbouring frames disappears: one frame for a drop, the whole
\* channel when its receiver dies.
Lose ==
    /\ \E i \in 1..Len(queue) : \E j \in i..Len(queue) :
           queue' = SubSeq(queue, 1, i - 1) \o SubSeq(queue, j + 1, Len(queue))
    /\ UNCHANGED delivered

NotOlder(f) ==
    \A i \in DOMAIN delivered : delivered[i].timestamp_ns <= f.timestamp_ns

Deliver ==
    /\ queue # <<>>
    /\ NotOlder(Head(queue))
    /\ queue' = Tail(queue)
    /\ delivered' = Append(delivered, Head(queue))

FeedNext ==
    \/ \E f \in Frames : Offer(f)
    \/ Lose
    \/ Deliver

FeedSpec == FeedInit /\ [][FeedNext]_feedVars
=============================================================================
