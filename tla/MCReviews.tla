------------------------------ MODULE MCReviews ------------------------------
(* A small instance of Reviews: short days, two providers, bookings on three days. *)
EXTENDS Reviews, TLC

CONSTANTS p1, p2, c1, c2, haircut

MCSlots == p1 :> {[day |-> 0, start |-> 1, end |-> 3], [day |-> 1, start |-> 0, end |-> 2]}
           @@ p2 :> {[day |-> 1, start |-> 1, end |-> 3]}

Booking(c, p, start, end, price) ==
    [status |-> "PENDING", customer |-> c, provider |-> p, service |-> haircut,
     start |-> start, end |-> end, price |-> price]

\* An appointment that can move into a long one, which runs for a week, and another's
MCBookings ==
    {Booking(c1, p1, 1, 2, 7), Booking(c1, p1, 2, 29, 5), Booking(c2, p2, 5, 7, None)}

\* Reviews edited, or deleted and written again while late status writes arrive
MCMixes == {{"update"}, {"remove", "overwrite"}}

Symmetric == Permutations(Appts) \cup Permutations(ReviewIds) \cup Permutations(Requests)
=============================================================================
