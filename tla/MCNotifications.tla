--------------------------- MODULE MCNotifications ---------------------------
(* A small instance of Notifications: two events, one mail retry. *)
EXTENDS Notifications

\* No mail about reminders, and no in-app rows
MCChoices == {[Defaults EXCEPT !.types = @ \ {"REMINDER"}, !.inAppEnabled = FALSE]}
=============================================================================
