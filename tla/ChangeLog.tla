------------------------------ MODULE ChangeLog ------------------------------
(***************************************************************************)
(* What the change queue promises its readers: a log of the source's       *)
(* changes, in the order of the source and each of them once, that only    *)
(* grows.  Its positions are the vsns, 1, 2, 3 and so on.  Cutover records *)
(* may stand between the changes.  A change may be forgotten by the source *)
(* (acknowledged) only when it is in the log or is one of those that are   *)
(* never written.                                                          *)
(***************************************************************************)
EXTENDS Integers, Sequences

CONSTANTS NumChanges, Ignored, CutoverId

VARIABLES log, acked

\* The changes the log holds.
Written == {log[i].id : i \in DOMAIN log} \ {CutoverId}

Init == log = <<>> /\ acked = 0

\* Records appended together: each has the next vsn, and the next change of
\* the source or none.
Extends(old, new) ==
  /\ Len(new) > Len(old) /\ SubSeq(new, 1, Len(old)) = old
  /\ \A i \in Len(old) + 1 .. Len(new) :
       /\ new[i].vsn = i
       /\ new[i].id # CutoverId =>
            LET before == {new[j].id : j \in 1 .. i - 1} \cup Ignored IN
            /\ new[i].id \notin before
            /\ \A c \in 1 .. new[i].id - 1 : c \in before

Publish ==
  /\ Extends(log, log')
  /\ UNCHANGED acked

Acknowledge ==
  /\ acked' \in acked .. NumChanges
  /\ \A c \in 1 .. acked' : c \in Written \cup Ignored
  /\ UNCHANGED log

Next == Publish \/ Acknowledge

Spec == Init /\ [][Next]_<<log, acked>>
=============================================================================
