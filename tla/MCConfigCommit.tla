--------------------------- MODULE MCConfigCommit ---------------------------
(* Small instances of ConfigCommit: which operation each request performs. *)
EXTENDS ConfigCommit, TLC

CONSTANTS m1, s1, n1, t1, p1, v1

\* An interactive change races a settings application, the month's rollover, a
\* quota crossing, daily bookkeeping and an explicit restart.
MCKind ==
    [r \in Requests |->
        CASE r = m1 -> "mutate"
          [] r = s1 -> "settings"
          [] r = n1 -> "month"
          [] r = t1 -> "traffic"
          [] r = p1 -> "persist"
          [] OTHER -> "service"]
=============================================================================
