----------------------------- MODULE Mailboxes -----------------------------
(***************************************************************************)
(* What the post office promises on the receiving machine: the mail that   *)
(* reached the machine for a box is handed out once, oldest first,         *)
(* whichever threads ask for it.  SyncIO.tla implements this with the      *)
(* network's one-packet buffer, the postal worker and one SynchList a box. *)
(***************************************************************************)
EXTENDS Naturals, Sequences

CONSTANT Boxes

VARIABLES mail,   \* mail[b]: the mail for box b nobody has received, oldest first
          nextId  \* the number of the next packet

Init == mail = [b \in Boxes |-> << >>] /\ nextId = 1

Arrive(b) ==
    /\ mail' = [mail EXCEPT ![b] = Append(@, nextId)]
    /\ nextId' = nextId + 1

Receive(b) ==
    /\ mail[b] # << >>
    /\ mail' = [mail EXCEPT ![b] = Tail(@)]
    /\ UNCHANGED nextId

Next == \E b \in Boxes : Arrive(b) \/ Receive(b)

Spec == Init /\ [][Next]_<<mail, nextId>>
=============================================================================
