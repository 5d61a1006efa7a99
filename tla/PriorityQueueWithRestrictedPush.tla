------------------- MODULE PriorityQueueWithRestrictedPush -------------------
(***************************************************************************)
(* PriorityQueueWithRestrictedPush<Element, IntegerPriority> of           *)
(* generic_max_flow.h: two stacks of (element, priority) pairs, one per    *)
(* parity of the priority.  A push must have a priority at least the       *)
(* highest one queued minus one; then both stacks stay sorted and Pop()    *)
(* compares their backs only.                                              *)
(*                                                                         *)
(* The operators on a queue q = [even, odd] are used by GenericMaxFlow for *)
(* its active nodes; the actions below are the class on its own, driven    *)
(* by any caller that keeps the contract, and are shown to implement       *)
(* MaxPriorityQueue.                                                       *)
(***************************************************************************)
EXTENDS Integers, SequencesExt

CONSTANTS Elements,     \* the elements that may be pushed
          MaxPriority,  \* priorities are 0..MaxPriority
          MaxSize,      \* bound on the elements queued at once
          NoElement     \* popped before the first Pop()

ASSUME MaxPriority \in Nat /\ MaxSize \in Nat

Priorities == 0..MaxPriority

-----------------------------------------------------------------------------
(***************************************************************************)
(* The member functions, on a queue q = [even, odd].                       *)
(***************************************************************************)
IsEmpty(q) == q.even = <<>> /\ q.odd = <<>>

Clear(q) == [q EXCEPT !.even = <<>>, !.odd = <<>>]

\* The first two DCHECKs of Push(): the contract a caller must keep.
CanPush(q, priority) ==
  /\ q.even # <<>> => priority >= Last(q.even)[2] - 1
  /\ q.odd # <<>> => priority >= Last(q.odd)[2] - 1

Push(q, element, priority) ==
  IF priority % 2 = 1 THEN [q EXCEPT !.odd = Append(@, <<element, priority>>)]
  ELSE [q EXCEPT !.even = Append(@, <<element, priority>>)]

\* Mutant: the comparison of the two backs reversed.
PopFromOddReversed(q) ==
  \/ q.even = <<>>
  \/ q.odd # <<>> /\ Last(q.odd)[2] < Last(q.even)[2]

\* Pop() takes the back of the odd stack when the even one is empty or the
\* odd back has the larger priority, and the even back otherwise.
PopFromOdd(q) ==
  \/ q.even = <<>>
  \/ q.odd # <<>> /\ Last(q.odd)[2] > Last(q.even)[2]

\* Pop() with PopBack(): the element and the queue without it.
Pop(q) ==
  IF PopFromOdd(q) THEN [element |-> Last(q.odd)[1], queue |-> [q EXCEPT !.odd = Front(@)]]
  ELSE [element |-> Last(q.even)[1], queue |-> [q EXCEPT !.even = Front(@)]]

-----------------------------------------------------------------------------
(***************************************************************************)
(* The class on its own.                                                   *)
(***************************************************************************)
VARIABLES even_queue,   \* even_queue_
          odd_queue,    \* odd_queue_
          popped        \* the element the last Pop() returned

vars == <<even_queue, odd_queue, popped>>

Queue == [even |-> even_queue, odd |-> odd_queue]

Assign(q) == even_queue' = q.even /\ odd_queue' = q.odd

\* The constructor.
Init ==
  /\ even_queue = <<>> /\ odd_queue = <<>>
  /\ popped = NoElement

DoPush(element, priority) ==
  /\ CanPush(Queue, priority)
  /\ Len(even_queue) + Len(odd_queue) < MaxSize
  /\ Assign(Push(Queue, element, priority))
  /\ UNCHANGED popped

DoPop ==
  /\ ~IsEmpty(Queue)
  /\ \E r \in {Pop(Queue)} : Assign(r.queue) /\ popped' = r.element

DoClear ==
  /\ Assign(Clear(Queue))
  /\ UNCHANGED popped

Next ==
  \/ \E e \in Elements, p \in Priorities : DoPush(e, p)
  \/ DoPop
  \/ DoClear

Spec == Init /\ [][Next]_vars

-----------------------------------------------------------------------------
(***************************************************************************)
(* Properties.                                                             *)
(***************************************************************************)
\* The refinement mapping: the stack of priority p is the subsequence of
\* the elements of priority p in the stack of p's parity.
StackOf(p) ==
  LET q == IF p % 2 = 1 THEN odd_queue ELSE even_queue
  IN [i \in 1..Len(SelectSeq(q, LAMBDA x : x[2] = p)) |->
        SelectSeq(q, LAMBDA x : x[2] = p)[i][1]]

Abstract == INSTANCE MaxPriorityQueue
              WITH Priorities <- Priorities,
                   stacks <- [p \in Priorities |-> StackOf(p)]

\* Under the restricted-push contract, every Pop() returns an element of
\* highest priority, the last pushed among those (Push, Pop and PopBack).
ImplementsMaxPriorityQueue == Abstract!Spec
=============================================================================
