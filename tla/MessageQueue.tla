---------------------------- MODULE MessageQueue ----------------------------
(***************************************************************************)
(* What the USER message queue promises a message loop, whatever its       *)
(* representation: posted messages wait in the order they were posted, a   *)
(* post is refused only when Cap messages wait, and a call that asks for a *)
(* message gets the oldest one its filter admits.  Messages that are made  *)
(* up on demand (WM_PAINT) are answered only when no posted message fits.  *)
(***************************************************************************)
EXTENDS Naturals, Sequences

CONSTANTS
  Messages,      \* the messages that can be posted
  Quit,          \* the message the host posts by itself
  OnDemand,      \* the messages made up on demand
  Filters,       \* the filters a call may give
  Matches(_, _), \* does the message pass the filter?
  None,          \* no message
  NoFilter,      \* no filter
  Cap            \* how many messages can wait

VARIABLES
  queue,  \* the posted messages, oldest first
  asked,  \* the filter the last call gave, if it asked for a message
  answer  \* the message the last call returned

vars == <<queue, asked, answer>>

Init == queue = <<>> /\ asked = NoFilter /\ answer = None

PostOne(q, m) == IF Len(q) < Cap THEN Append(q, m) ELSE q

\* The positions of the oldest message of q that passes f: one, or none.
Oldest(q, f) ==
  {k \in 1..Len(q) : /\ Matches(q[k], f)
                     /\ \A j \in 1..(k - 1) : ~Matches(q[j], f)}

Without(q, k) == SubSeq(q, 1, k - 1) \o SubSeq(q, k + 1, Len(q))

\* Up to two messages are posted by one call.
Post ==
  /\ \/ UNCHANGED queue
     \/ \E m \in Messages : queue' = PostOne(queue, m)
     \/ \E m, n \in Messages : queue' = PostOne(PostOne(queue, m), n)
  /\ asked' = NoFilter
  /\ answer' = None

\* q is the queue once the host has posted what it had to.
Answer(q, f, remove) ==
  IF Oldest(q, f) # {}
  THEN \E k \in Oldest(q, f) :
         /\ answer' = q[k]
         /\ queue' = IF remove THEN Without(q, k) ELSE q
  ELSE /\ answer' \in OnDemand \cup {None}
       /\ answer' # None => Matches(answer', f)
       /\ queue' = q

Ask(f, remove) ==
  /\ asked' = f
  /\ \/ Answer(queue, f, remove)
     \/ Answer(PostOne(queue, Quit), f, remove)

Next ==
  \/ Post
  \/ \E f \in Filters, remove \in BOOLEAN : Ask(f, remove)

Spec == Init /\ [][Next]_vars
=============================================================================
