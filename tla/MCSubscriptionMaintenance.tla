--------------------- MODULE MCSubscriptionMaintenance ---------------------
(* Small instances of SubscriptionMaintenance for TLC. *)
EXTENDS SubscriptionMaintenance

\* Plans with a reset every tick, a five-hour limit, or neither.
Daily == [total |-> 3, fiveHour |-> 1, reset |-> "aligned", every |-> 1, lasts |-> 2]
Plain == [total |-> 3, fiveHour |-> 0, reset |-> "never", every |-> 1, lasts |-> 2]

None     == {}
OnlyPlain == {Plain}

OldDaily == [NoSub EXCEPT !.status = "active", !.plan = Daily,
                          !.start = 1, !.end = 3, !.last = 1, !.next = 2]

OneDaily  == <<OldDaily>>
============================================================================
