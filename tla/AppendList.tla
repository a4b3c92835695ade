----------------------------- MODULE AppendList -----------------------------
(***************************************************************************)
(* What the clients of a BigList rely on: a plain sequence that only grows *)
(* at its end and whose elements may be overwritten in place.  AstImpl,    *)
(* SppfImpl and TokenRepository keep the indices answered by push() for    *)
(* the life of the tree, so an index must keep meaning the same element.   *)
(***************************************************************************)
EXTENDS Sequences, Naturals

CONSTANT Values   \* the values a client stores

VARIABLES
    list,     \* the content; list[i + 1] is the element of index i
    written   \* the last write: the value and the index it is known by

Init ==
    /\ list = <<>>
    /\ written = <<>>

\* push(v) answers the index of the new element
Push(v) ==
    /\ list' = Append(list, v)
    /\ written' = <<v, Len(list)>>

\* list[i] = v
Set(i, v) ==
    /\ list' = [list EXCEPT ![i + 1] = v]
    /\ written' = <<v, i>>

Next ==
    \/ \E v \in Values : Push(v)
    \/ \E v \in Values, i \in 0 .. Len(list) - 1 : Set(i, v)

Spec == Init /\ [][Next]_<<list, written>>
=============================================================================
