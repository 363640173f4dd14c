----------------------------- MODULE DurableLog -----------------------------
(***************************************************************************)
(* What asynchronous persistence promises.  A node acts on `memory' (its   *)
(* term and its log); `disk' is what a crash leaves it with.  The states   *)
(* memory has passed through since, `pending', reach the disk in order.    *)
(* The node may say of the disk only what is true of it.                   *)
(***************************************************************************)
EXTENDS Naturals, Sequences, SequencesExt

VARIABLES
  memory,   \* [term, log]
  disk,     \* [term, log]
  pending,  \* the images of memory still to be written, oldest first
  acked     \* acknowledgements sent, [term, log]

vars == <<memory, disk, pending, acked>>

Init ==
  /\ memory = [term |-> 0, log |-> <<>>]
  /\ disk = memory /\ pending = <<>> /\ acked = {}

(* An acknowledgement holds of an image: the node is past the term it was  *)
(* given in, or still in it and has the entries.                           *)
True(a, image) ==
  \/ a.term < image.term
  \/ a.term = image.term /\ IsPrefix(a.log, image.log)

(* Memory moves on, by images that are queued. *)
Move ==
  /\ UNCHANGED disk
  /\ \/ UNCHANGED <<memory, pending>>
     \/ /\ pending' # <<>> /\ IsPrefix(pending, pending')
        /\ memory' = Last(pending')

(* The next images reach the disk. *)
Persist ==
  /\ \E k \in 1..Len(pending) :
       disk' = pending[k] /\ pending' = SubSeq(pending, k + 1, Len(pending))
  /\ UNCHANGED <<memory, acked>>

(* Only what is true of the disk is acknowledged. *)
Acknowledge ==
  /\ acked \subseteq acked'
  /\ \A a \in acked' \ acked : True(a, disk)

(* Memory is lost; the disk keeps what it had, and perhaps some of what    *)
(* was on its way.                                                         *)
Lose ==
  /\ \E k \in 0..Len(pending) : disk' = IF k = 0 THEN disk ELSE pending[k]
  /\ memory' = disk' /\ pending' = <<>>

Next == (Move /\ Acknowledge) \/ Persist \/ (Lose /\ Acknowledge)

Spec == Init /\ [][Next]_vars
=============================================================================
