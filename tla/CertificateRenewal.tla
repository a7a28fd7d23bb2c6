-------------------------- MODULE CertificateRenewal ---------------------------
(***************************************************************************)
(* The renewal button: the panel runs kota-cert-renew as its child and       *)
(* keeps its progress in a flag (memory) and a status file.  If certbot      *)
(* replaced the certificate its deploy hook restarts the panel, which under  *)
(* systemd stops every process of the unit: the script, certbot and the hook *)
(* with it, unless the restart is refused.  Updates and the administrator     *)
(* restart the panel as well.                                                *)
(***************************************************************************)
EXTENDS Integers

CONSTANT StaleAge       \* fifteen minutes, in ticks

VARIABLES
    certificateRenewing,
    press,          \* the press: "none", "claimed", "marked", "waiting", "ending"
    status,         \* certificate-renew.status: "none", "running", "success", "failed"
    age,            \* ticks since it was written; StaleAge + 1 stands for any more
    script,         \* kota-cert-renew: "none", "runs", "hook", "ok" or "bad"
    reading,        \* a status request read an old "running" and will write "failed"
    outcome,        \* history: how the last script went
    unfinished,     \* history: the press that wrote the status never ended it
    overtaken       \* history: such a request wrote over a later result

certVars == <<certificateRenewing, press, status, age, script, reading,
              outcome, unfinished, overtaken>>

Statuses == {"none", "running", "success", "failed"}

\* writeCertificateRenewProgress
WriteStatus(s) == status' = s /\ age' = 0 /\ overtaken' = FALSE

\* finish's write of the result; one that fails is not noticed.
Result(s, written) ==
    IF written THEN WriteStatus(s) /\ UNCHANGED unfinished
    ELSE unfinished' = TRUE /\ UNCHANGED <<status, age, overtaken>>

\* certificateRenewStateOlderThan
Old == age > StaleAge

\* A press finds the renewal at work and is answered 409.
Refused == certificateRenewing \/ (status = "running" /\ ~Old)

Init ==
    /\ certificateRenewing = FALSE
    /\ press = "none" /\ script = "none" /\ outcome = "none"
    /\ status = "none" /\ age = 0
    /\ reading = FALSE /\ unfinished = FALSE /\ overtaken = FALSE
-----------------------------------------------------------------------------
(* renewCertificate *)

\* Flag and file are looked at, and the flag taken, under certificateRenewMu.
Press ==
    /\ ~Refused
    /\ certificateRenewing' = TRUE /\ press' = "claimed"
    /\ UNCHANGED <<status, age, script, reading, outcome, unfinished, overtaken>>

Release == certificateRenewing' = FALSE /\ press' = "none"

\* The data directory cannot be made: finish("failed", ...).
NoDirectory(written) ==
    /\ press = "claimed" /\ press' = "ending"
    /\ IF written THEN WriteStatus("failed") /\ outcome' = "failed"
       ELSE UNCHANGED <<status, age, overtaken, outcome>>
    /\ UNCHANGED <<certificateRenewing, script, reading, unfinished>>

MarkRunning ==
    /\ press = "claimed" /\ press' = "marked"
    /\ WriteStatus("running") /\ outcome' = "none"
    /\ unfinished' = FALSE
    /\ UNCHANGED <<certificateRenewing, script, reading>>

\* Mutant: the error path forgets the flag.
MarkFailsHolding ==
    /\ press = "claimed" /\ press' = "none"
    /\ UNCHANGED <<certificateRenewing, status, age, script, reading, outcome, unfinished,
                   overtaken>>

MarkFails ==
    /\ press = "claimed" /\ Release
    /\ UNCHANGED <<status, age, script, reading, outcome, unfinished, overtaken>>

StartScript ==
    /\ press = "marked" /\ press' = "waiting"
    /\ script' = "runs"
    /\ UNCHANGED <<certificateRenewing, status, age, reading, outcome, unfinished, overtaken>>

\* No log file, or no such command.
StartFails(written) ==
    /\ press = "marked" /\ press' = "ending"
    /\ Result("failed", written) /\ outcome' = "failed"
    /\ UNCHANGED <<certificateRenewing, script, reading>>

\* The goroutine's Wait returns: finish writes the result, then gives back the
\* flag.
Finish(written) ==
    /\ press = "waiting" /\ script \in {"ok", "bad"}
    /\ press' = "ending" /\ script' = "none"
    /\ Result(IF script = "ok" THEN "success" ELSE "failed", written)
    /\ UNCHANGED <<certificateRenewing, reading, outcome>>

Released ==
    /\ press = "ending" /\ Release
    /\ UNCHANGED <<status, age, script, reading, outcome, unfinished, overtaken>>
-----------------------------------------------------------------------------
(* certificateRenewStatus *)

\* The file is read, and what it says is judged by its age.
StatusReadsOld ==
    /\ status = "running" /\ Old /\ ~reading
    /\ reading' = TRUE
    /\ UNCHANGED <<certificateRenewing, press, status, age, script, outcome, unfinished, overtaken>>

StatusWritesFailed ==
    /\ reading /\ reading' = FALSE
    /\ status' = "failed" /\ age' = 0
    /\ overtaken' = (overtaken \/ status # "running" \/ ~Old)
    /\ UNCHANGED <<certificateRenewing, press, script, outcome, unfinished>>
-----------------------------------------------------------------------------
(* kota-cert-renew and certbot (external) *)

\* Nothing is due, or an attempt failed; a second certbot finds its lock taken.
ScriptEnds(how) ==
    /\ script = "runs"
    /\ script' = how
    /\ outcome' = IF how = "ok" THEN "nothing" ELSE "failed"
    /\ UNCHANGED <<certificateRenewing, press, status, age, reading, unfinished, overtaken>>

\* The certificate is replaced, and certbot runs the deploy hook.
Replace ==
    /\ script = "runs" /\ script' = "hook"
    /\ outcome' = "replaced"
    /\ UNCHANGED <<certificateRenewing, press, status, age, reading, unfinished, overtaken>>

\* The panel's process ends, and a new one begins with nothing but the file.
PanelStops(left) ==
    /\ certificateRenewing' = FALSE /\ press' = "none" /\ reading' = FALSE
    /\ script' = left
    /\ unfinished' = (unfinished \/ press \in {"marked", "waiting"})

\* Mutant: the unit leaves the children alone, and the panel learns their end.
HookRestartSparesScript ==
    /\ script = "hook" /\ script' = "ok"
    /\ UNCHANGED <<certificateRenewing, press, status, age, reading, outcome, unfinished,
                   overtaken>>

\* systemctl refuses the restart, or there is none: certbot only logs a hook that
\* failed and ends as its renewals went.
HookFails(how) ==
    /\ script = "hook" /\ script' = how
    /\ outcome' = IF how = "ok" THEN "unloaded" ELSE "failed"
    /\ UNCHANGED <<certificateRenewing, press, status, age, reading, unfinished, overtaken>>

\* reload_services: systemctl waits for the restart that stops it.
HookRestart ==
    /\ script = "hook"
    /\ PanelStops("none")
    /\ UNCHANGED <<status, age, outcome, overtaken>>

\* The daily job, an update or the administrator restarts the panel, or it dies.
PanelRestart ==
    /\ press # "none" \/ reading
    /\ PanelStops("none")
    /\ outcome' = IF script = "runs" THEN "failed" ELSE outcome
    /\ UNCHANGED <<status, age, overtaken>>

Tick ==
    /\ age <= StaleAge /\ age' = age + 1
    /\ UNCHANGED <<certificateRenewing, press, status, script, reading, outcome, unfinished,
                   overtaken>>

Next ==
    \/ Press \/ MarkRunning \/ MarkFails \/ StartScript \/ Released
    \/ \E written \in BOOLEAN : NoDirectory(written) \/ StartFails(written) \/ Finish(written)
    \/ StatusReadsOld \/ StatusWritesFailed
    \/ \E how \in {"ok", "bad"} : ScriptEnds(how) \/ HookFails(how)
    \/ Replace \/ HookRestart \/ PanelRestart \/ Tick

Spec == Init /\ [][Next]_certVars
-----------------------------------------------------------------------------
(* Correctness. *)

\* certbot had nothing to replace, or nothing was reloaded after it did.
EndedWell == {"nothing", "unloaded"}

\* Every variable stays in its range; the script runs for a press that waits.
TypeOK ==
    /\ certificateRenewing \in BOOLEAN
    /\ press \in {"none", "claimed", "marked", "waiting", "ending"}
    /\ status \in Statuses /\ age \in 0..(StaleAge + 1)
    /\ script \in {"none", "runs", "hook", "ok", "bad"}
    /\ outcome \in {"none", "failed", "replaced"} \cup EndedWell
    /\ {reading, unfinished, overtaken} \subseteq BOOLEAN
    /\ script # "none" <=> press = "waiting"

\* A press is refused only while another is at work.  What a stopped panel or
\* a failed write leaves behind refuses for StaleAge at most: no path through
\* the handler, its goroutine or the status request keeps the flag.
RefusedForAReason ==
    Refused => press # "none" \/ (unfinished /\ ~certificateRenewing /\ ~Old)

\* "success" is only reported of a script that ended well, and then the panel was
\* not restarted: either nothing was replaced, or the restart failed.  A restart
\* that takes place stops the panel before it can say so.  "failed" is only
\* reported of a script that ended well if its result was never written, or a
\* status request judged it too old just before it was.
ReportIsHonest ==
    /\ status = "success" => outcome \in EndedWell
    /\ status = "failed" /\ outcome \in EndedWell /\ press = "none" => overtaken \/ unfinished
=============================================================================
