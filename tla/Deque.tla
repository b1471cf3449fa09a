-------------------------------- MODULE Deque --------------------------------
(***************************************************************************)
(* What the work-stealing deque of ws_deque.h promises its users: a        *)
(* sequence with its top first, on which each operation is one step.       *)
(* ParMark uses the deques of the workers through these operations.        *)
(***************************************************************************)
EXTENDS Integers, Sequences

CONSTANT Elem

VARIABLES
  items,      \* the elements, the oldest (the top) first
  returned    \* element -> how often Take or Steal returned it

Init ==
  /\ items = <<>>
  /\ returned = [e \in Elem |-> 0]

HandOut(e) == returned' = [returned EXCEPT ![e] = @ + 1]

\* The owner adds at the bottom.
Push(e) ==
  /\ items' = Append(items, e)
  /\ UNCHANGED returned

\* The owner removes at the bottom.
Take ==
  /\ items # <<>>
  /\ items' = SubSeq(items, 1, Len(items) - 1)
  /\ HandOut(items[Len(items)])

\* A thief removes at the top.
Steal ==
  /\ items # <<>>
  /\ items' = Tail(items)
  /\ HandOut(Head(items))

Next == (\E e \in Elem : Push(e)) \/ Take \/ Steal

Spec == Init /\ [][Next]_<<items, returned>>
=============================================================================
