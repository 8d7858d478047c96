-------------------------- MODULE MCNotifications ---------------------------
(* Two users, one of them without a phone, and neither with a device.
   Liveness is checked, so there is no symmetry. *)
EXTENDS Notifications

CONSTANTS u1, u2

MCRoleRows == {<<u1, "accountant">>, <<u2, "bookkeeper">>}
MCChannels == <<"sms", "push">>
MCReachable == {<<u1, "sms">>}
MCChoices == {<<u1, "sms">>}
MCWindows == <<2, 1>>

(* Bound: no day passes over a job in the queue, whose dispatch does not look at
   the clock; the daily job may take days. *)
DaysBetween == day' # day => \A j \in Jobs : job[j].state \notin {"waiting", "active"}

MCSpec == Init /\ [][Next /\ DaysBetween]_vars /\ Fairness
=============================================================================
