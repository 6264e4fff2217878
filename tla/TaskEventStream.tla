-------------------------- MODULE TaskEventStream --------------------------
(***************************************************************************)
(* What the task event stream promises, without connections, buffers or    *)
(* goroutines.  A server moves from image to image; each image has the     *)
(* epoch of the server and a position that only grows.  A tab shows        *)
(* nothing, or one image some server published; it gets an image whole, or *)
(* moves to the one exactly one position later in the same epoch, or       *)
(* discards what it holds.                                                 *)
(***************************************************************************)
EXTENDS Naturals

CONSTANTS Tabs, Absent

VARIABLES
  hub,        \* the server's current image
  published,  \* every image so far
  view        \* what each tab shows

vars == <<hub, published, view>>

Later(p, q) ==
  \/ q.epoch = p.epoch /\ q.seq > p.seq
  \/ q.epoch = p.epoch + 1 /\ q.seq = 0

Init ==
  /\ hub.epoch = 1 /\ hub.seq = 0
  /\ published = {hub}
  /\ view = [t \in Tabs |-> Absent]

Publish ==
  /\ Later(hub, hub')
  /\ published' = published \cup {hub'}
  /\ UNCHANGED view

Synchronize(t) ==
  /\ view[t] = Absent
  /\ \E p \in published : view' = [view EXCEPT ![t] = p]
  /\ UNCHANGED <<hub, published>>

Follow(t) ==
  /\ view[t] # Absent
  /\ \E p \in published :
       /\ p.epoch = view[t].epoch /\ p.seq = view[t].seq + 1
       /\ view' = [view EXCEPT ![t] = p]
  /\ UNCHANGED <<hub, published>>

Discard(t) ==
  /\ view' = [view EXCEPT ![t] = Absent]
  /\ UNCHANGED <<hub, published>>

Next == Publish \/ \E t \in Tabs : Synchronize(t) \/ Follow(t) \/ Discard(t)

Spec == Init /\ [][Next]_vars
=============================================================================
