---------------------------- MODULE UploadSlots ----------------------------
(***************************************************************************)
(* What the flow control of RecCeiver promises to the IOCs that connect:   *)
(* at most Slots of them upload at a time, the others queue, and a slot    *)
(* that is given up goes to the one that has queued longest.  There is no  *)
(* counter here: how CastFactory keeps count is an implementation matter.  *)
(***************************************************************************)
EXTENDS Integers, SequencesExt

CONSTANTS Conns, Slots

VARIABLES
  uploading,  \* the connections that hold a slot
  queue       \* the connections that wait for one, in order of arrival

slotVars == <<uploading, queue>>

SlotInit ==
  /\ uploading = {}
  /\ queue = <<>>

\* A connection arrives: it uploads at once when a slot is free, else it queues.
Arrive(c) ==
  /\ c \notin uploading \cup ToSet(queue)
  /\ IF Cardinality(uploading) < Slots
       THEN uploading' = uploading \cup {c} /\ UNCHANGED queue
       ELSE queue' = Append(queue, c) /\ UNCHANGED uploading

\* A connection gives its slot up; the head of the queue inherits it.
Finish(c) ==
  /\ c \in uploading
  /\ IF queue = <<>>
       THEN uploading' = uploading \ {c} /\ UNCHANGED queue
       ELSE /\ uploading' = (uploading \ {c}) \cup {Head(queue)}
            /\ queue' = Tail(queue)

\* A queued connection goes away before its turn.
Abandon(c) ==
  /\ c \in ToSet(queue)
  /\ queue' = RemoveFirst(queue, c)
  /\ UNCHANGED uploading

SlotNext == \E c \in Conns : Arrive(c) \/ Finish(c) \/ Abandon(c)

SlotSpec == SlotInit /\ [][SlotNext]_slotVars
=============================================================================
