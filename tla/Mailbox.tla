------------------------------ MODULE Mailbox ------------------------------
(* What EventLoop::postEvent and onCustomEvent promise together: the events   *)
(* of one thread are taken in the order in which that thread posted them, each*)
(* once, and no thread's events are lost to another's.                        *)
EXTENDS Integers, Sequences

CONSTANT Events  \* [by, no]: the poster, and the number of the event there

VARIABLES
  box,    \* posted and not taken yet
  taken   \* taken, in this order

mailVars == << box, taken >>

Init == box = << >> /\ taken = << >>

(* e is newer than every event of its poster in s.                            *)
NewerThan(e, s) == \A i \in 1 .. Len(s) : s[i].by = e.by => s[i].no < e.no

Put(e) ==
  /\ NewerThan(e, box) /\ NewerThan(e, taken)
  /\ box' = Append(box, e)
  /\ UNCHANGED taken

Take ==
  /\ box # << >>
  /\ taken' = Append(taken, Head(box))
  /\ box' = Tail(box)

Next == Take \/ \E e \in Events : Put(e)

Spec == Init /\ [][Next]_mailVars
=============================================================================
