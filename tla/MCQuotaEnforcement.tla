------------------------- MODULE MCQuotaEnforcement --------------------------
(* Small terms for TLC: each kind of limit, two at once, and an expiry, are met. *)
EXTENDS QuotaEnforcement

CONSTANTS c1, c2

Unlimited == [total |-> 0, monthly |-> 0, daily |-> 0, expires |-> 0]
ByDay == [Unlimited EXCEPT !.daily = 1]
ByMonth == [Unlimited EXCEPT !.monthly = 1]
ByBoth == [Unlimited EXCEPT !.monthly = 1, !.total = 2]
ByTotal == [Unlimited EXCEPT !.total = 2, !.expires = 1]

MCTerms == {ByDay, ByMonth, ByTotal, ByBoth}

MCFirstTerms == [c \in Clients |-> IF c = c1 THEN ByBoth ELSE ByTotal]
=============================================================================
