------------------------------ MODULE MCCatalog ------------------------------
(* A small instance of Catalog: one service, two slots of one day. *)
EXTENDS Catalog

Nothing == [type |-> Absent, unit |-> Absent, price |-> Absent,
            hours |-> Absent, active |-> Absent]

\* Whole and partial pricings, hours set and cleared, off the offer and back
MCPatches ==
    {[Nothing EXCEPT !.type = "FIXED", !.unit = "PER_SERVICE", !.price = "some"],
     [Nothing EXCEPT !.type = "PER_HOUR", !.price = "some"],
     [Nothing EXCEPT !.type = "FREE"],
     [Nothing EXCEPT !.unit = "PER_HOUR"],
     [Nothing EXCEPT !.price = None],
     [Nothing EXCEPT !.hours = [start |-> 1, end |-> 2], !.active = FALSE],
     [Nothing EXCEPT !.hours = None, !.active = TRUE]}

\* Edits against edits and visits
MCMixes == {{"create", "update", "close"}, {"slots"}}
=============================================================================
