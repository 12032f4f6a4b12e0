---------------------------- MODULE BoundedQueue ----------------------------
(***************************************************************************)
(* What a clock-crossing FIFO promises: a queue of at most Capacity words, *)
(* first in first out, nothing lost, duplicated or invented.  A word may   *)
(* enter and another leave at the same instant, since the two ends have    *)
(* clocks of their own.  The word that is put in is the word that the      *)
(* FIFO accepted at its input, which `entered' holds.                      *)
(***************************************************************************)
EXTENDS Naturals, Sequences

CONSTANTS Word, Capacity,
          Kept      \* how many of the oldest words may outlive a reset

VARIABLES queue,    \* the words inside, oldest first
          taken,    \* the word that left last
          entered   \* what the last step accepted: one word, or nothing

Arrival == {<<>>} \cup {<<w>> : w \in Word}

Init == queue = <<>> /\ taken \in Word /\ entered = <<>>

Rest == entered' = <<>> /\ UNCHANGED <<queue, taken>>

Enqueue(w) ==
  /\ entered' = <<w>>
  /\ UNCHANGED taken
  /\ Len(queue) < Capacity
  /\ queue' = Append(queue, w)

Dequeue ==
  /\ entered' = <<>>
  /\ queue # <<>>
  /\ taken' = Head(queue)
  /\ queue' = Tail(queue)

EnqueueDequeue(w) ==
  /\ entered' = <<w>>
  /\ queue # <<>>
  /\ Len(queue) < Capacity
  /\ taken' = Head(queue)
  /\ queue' = Append(Tail(queue), w)

\* A reset drops what is inside, except for words that are on their way out, and
\* what arrives during it.
Clear ==
  /\ entered' \in Arrival
  /\ \E k \in 0..Kept : k <= Len(queue) /\ queue' = SubSeq(queue, 1, k)
  /\ UNCHANGED taken

DequeueClear ==
  /\ entered' \in Arrival
  /\ queue # <<>>
  /\ taken' = Head(queue)
  /\ queue' = <<>>

\* What may happen while there is no reset: no word is dropped.
Transfer == Dequeue \/ \E w \in Word : Enqueue(w) \/ EnqueueDequeue(w)

Next == Rest \/ Transfer \/ Clear \/ DequeueClear

Spec == Init /\ [][Next]_<<queue, taken, entered>>
=============================================================================
