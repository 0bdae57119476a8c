------------------------------ MODULE Calendar ------------------------------
(***************************************************************************)
(* What a booking page promises (the contract at the head of bookings.go): *)
(* a booking appears, moves and is cancelled at once, no two that stand    *)
(* overlap, and a cancelled one is cancelled for good.                     *)
(***************************************************************************)
EXTENDS Integers

CONSTANTS Bookings, Instants

VARIABLE booking

Unmade    == [status |-> "unmade", start |-> 0, end |-> 0]
At(s, e)  == [status |-> "confirmed", start |-> s, end |-> e]

\* Free for b: nothing else that stands overlaps [s, e).
Free(b, s, e) ==
    \A c \in Bookings \ {b} :
        booking[c].status = "confirmed" => booking[c].end <= s \/ e <= booking[c].start

Place(b, s, e) ==
    /\ s < e
    /\ Free(b, s, e)
    /\ booking' = [booking EXCEPT ![b] = At(s, e)]

Make(b)   == /\ booking[b] = Unmade
             /\ \E s, e \in Instants : Place(b, s, e)
Move(b)   == /\ booking[b].status = "confirmed"
             /\ \E s, e \in Instants : Place(b, s, e)
Cancel(b) == /\ booking[b].status = "confirmed"
             /\ booking' = [booking EXCEPT ![b].status = "cancelled"]

Init == booking = [b \in Bookings |-> Unmade]
Next == \E b \in Bookings : Make(b) \/ Move(b) \/ Cancel(b)
Spec == Init /\ [][Next]_booking

=============================================================================
