------------------------------- MODULE Ledger -------------------------------
(***************************************************************************)
(* What the appointments table promises: bookings, moves and status        *)
(* changes happen one at a time, none of them puts two active appointments *)
(* of a provider on top of each other, and a status only moves along       *)
(* TRANSITIONS.  The handlers of Appointments perform each of these in     *)
(* several steps.                                                          *)
(***************************************************************************)
EXTENDS Booking

VARIABLE appt

LedgerInit == appt = [a \in Appts |-> None]

\* Exactly row a is written, and what is written is a row
Writes(a) ==
    /\ appt'[a] \in Rows
    /\ appt' = [appt EXCEPT ![a] = appt'[a]]

\* The interval row a has after the step is free of other active appointments
LandsInFreeInterval(a) ==
    Conflicts(appt, a, appt'[a].provider, appt'[a].start, appt'[a].end) = {}

\* A new PENDING appointment in a free interval
Book(a) ==
    /\ ~Exists(appt, a)
    /\ Writes(a)
    /\ appt'[a].status = "PENDING"
    /\ LandsInFreeInterval(a)

\* An active appointment moves to a free interval and keeps everything but its price
Move(a) ==
    /\ IsActive(appt, a)
    /\ Writes(a)
    /\ \A f \in {"status", "customer", "provider", "service"} : appt'[a][f] = appt[a][f]
    /\ LandsInFreeInterval(a)

\* One step along TRANSITIONS
Decide(a) ==
    /\ Exists(appt, a)
    /\ \E status \in Transitions[appt[a].status] :
           appt' = [appt EXCEPT ![a].status = status]

LedgerNext == \E a \in Appts : Book(a) \/ Move(a) \/ Decide(a)

LedgerSpec == LedgerInit /\ [][LedgerNext]_appt

(***************************************************************************)
(* The table never holds two active appointments of one provider at        *)
(* overlapping times.                                                      *)
(***************************************************************************)
NoDoubleBooking == \A a, b \in Appts : ~DoubleBooked(appt, a, b)

(***************************************************************************)
(* A status only changes along TRANSITIONS, so an appointment that is      *)
(* completed, cancelled or rejected stays so; and a row never disappears.  *)
(***************************************************************************)
StatusFollowsTransitions ==
    [][\A a \in Appts :
          Exists(appt, a) =>
              /\ Exists(appt', a)
              /\ appt'[a].status = appt[a].status
                 \/ CanTransition(appt[a].status, appt'[a].status)]_appt
=============================================================================
