-------------------------- MODULE MaxPriorityQueue --------------------------
(***************************************************************************)
(* What PriorityQueueWithRestrictedPush promises its users (the comment    *)
(* above the class in generic_max_flow.h): Pop() returns an element of     *)
(* highest priority, and elements of the same priority come out in LIFO    *)
(* order.  The queue is one stack of elements per priority.               *)
(***************************************************************************)
EXTENDS Integers, Sequences

CONSTANTS Elements,     \* the elements that may be pushed
          Priorities,   \* the priorities they may be pushed with
          NoElement     \* popped before the first Pop()

VARIABLES stacks,       \* stacks[p]: the elements of priority p, last pushed last
          popped        \* the element the last Pop() returned

vars == <<stacks, popped>>

NonEmpty == {p \in Priorities : stacks[p] # <<>>}

TypeOK ==
  /\ stacks \in [Priorities -> Seq(Elements)]
  /\ popped \in Elements \cup {NoElement}

Init ==
  /\ stacks = [p \in Priorities |-> <<>>]
  /\ popped = NoElement

Push(element, priority) ==
  /\ stacks' = [stacks EXCEPT ![priority] = Append(@, element)]
  /\ UNCHANGED popped

\* The last element pushed among those of the highest priority.
Pop ==
  /\ NonEmpty # {}
  /\ \E p \in NonEmpty :
       /\ \A q \in NonEmpty : q <= p
       /\ popped' = stacks[p][Len(stacks[p])]
       /\ stacks' = [stacks EXCEPT ![p] = SubSeq(@, 1, Len(@) - 1)]

Clear ==
  /\ stacks' = [p \in Priorities |-> <<>>]
  /\ UNCHANGED popped

Next ==
  \/ \E e \in Elements, p \in Priorities : Push(e, p)
  \/ Pop
  \/ Clear

Spec == Init /\ [][Next]_vars
=============================================================================
