---------------------------- MODULE FileDelivery ----------------------------
(***************************************************************************)
(* What Assignment-3 promises to whoever looks at recv.txt: it grows from  *)
(* the front, starts anew only once it was whole, and is called complete   *)
(* only when it is whole.                                                  *)
(***************************************************************************)
EXTENDS Integers, Sequences

VARIABLES
    total,    \* length of the file to deliver
    status,   \* "idle", "receiving", "complete" or "failed"
    content   \* the bytes that have been delivered, as positions

dvars == <<total, status, content>>

Beginning(n) == [i \in 1..n |-> i]

DeliveryInit ==
    /\ total \in Nat
    /\ status = "idle"
    /\ content = <<>>

\* A delivery starts, whatever became of the one before.
Start ==
    /\ status # "receiving"
    /\ status' = "receiving"
    /\ content' = <<>>
    /\ UNCHANGED total

\* The next bytes of the file arrive.
Grow ==
    /\ status = "receiving"
    /\ \E n \in (Len(content) + 1)..total : content' = Beginning(n)
    /\ UNCHANGED <<total, status>>

\* The whole file is sent once more.
Restart ==
    /\ status = "receiving"
    /\ content = Beginning(total)
    /\ content' = <<>>
    /\ UNCHANGED <<total, status>>

Complete ==
    /\ status = "receiving"
    /\ content = Beginning(total)
    /\ status' = "complete"
    /\ UNCHANGED <<total, content>>

\* The delivery is given up; a beginning of the file is left, of this delivery
\* or, if it had not opened the file yet, of the one before.
Abort ==
    /\ status = "receiving"
    /\ status' = "failed"
    /\ \E n \in 0..total : content' = Beginning(n)
    /\ UNCHANGED total

DeliveryNext == Start \/ Grow \/ Restart \/ Complete \/ Abort

DeliverySpec == DeliveryInit /\ [][DeliveryNext]_dvars
=============================================================================
