----------------------------- MODULE ByteQueue ------------------------------
(***************************************************************************)
(* What a ring buffer promises: a bounded first-in first-out queue of      *)
(* bytes.  A write stores as many leading bytes as fit, a read returns the *)
(* oldest bytes.                                                           *)
(***************************************************************************)
EXTENDS Naturals, Sequences

CONSTANTS Capacity,  \* the most bytes the queue can hold
          Inputs     \* the byte strings offered to it

VARIABLES content,   \* the bytes held, oldest first
          out        \* the bytes returned by the last operation

vars == <<content, out>>

Least(a, b) == IF a < b THEN a ELSE b

Init == content = <<>> /\ out = <<>>

\* The leading bytes of s that fit are appended.
Put(s) ==
    /\ content' = content \o SubSeq(s, 1, Least(Len(s), Capacity - Len(content)))
    /\ out' = <<>>

\* The oldest n bytes, or all of them, are removed and returned.
Take(n) ==
    LET k == Least(n, Len(content))
    IN  /\ out' = SubSeq(content, 1, k)
        /\ content' = SubSeq(content, k + 1, Len(content))

\* The same without removing them.
Look(n) ==
    /\ out' = SubSeq(content, 1, Least(n, Len(content)))
    /\ UNCHANGED content

\* n bytes that are there are dropped.
Drop(n) ==
    /\ n <= Len(content)
    /\ content' = SubSeq(content, n + 1, Len(content))
    /\ out' = <<>>

Clear == content' = <<>> /\ out' = <<>>

Next ==
    \/ \E s \in Inputs : Put(s)
    \/ \E n \in 1..Capacity + 1 : Take(n) \/ Look(n) \/ Drop(n)
    \/ Clear

Spec == Init /\ [][Next]_vars
=============================================================================
