----------------------------- MODULE SelfUpdate -----------------------------
(***************************************************************************)
(* A node updates itself: SettingsPage checks for a new version, on its    *)
(* own or through the group, downloads the installer, launches a helper    *)
(* that outlives the application, and quits; the helper runs the installer *)
(* and launches the application again.                                     *)
(*                                                                         *)
(* Another node may have commanded the update, and is told its outcome:    *)
(* StatusWindow writes an outcome to a file before it sends it, retries    *)
(* those that could not be sent, and QtRuntimeApp sends whatever it finds  *)
(* in files, also those of the helper and of earlier runs.                 *)
(*                                                                         *)
(* Handlers of the page run in the window's thread, one after another.     *)
(* Statuses that only tell of progress are left out (the window of who has *)
(* asked ignores them).                                                    *)
(***************************************************************************)
EXTENDS Naturals, FiniteSets

CONSTANTS
  Command,     \* commands of other nodes (requester and request id)
  None,
  MaxClicks,   \* bound: checks and installs of the user or the timers
  MaxBreaks    \* bound: connections that break, applications that end

VARIABLES
  app,       \* the process: up, quitting, down
  check,     \* _version_check_running: the check under way, or None
  install,   \* _update_install_running: the install under way, or None
  latest,    \* _latest_update_result: None, current, available, no_file
  pending,   \* _pending_remote_request_id, or None
  asked,     \* commands that have come
  helpers,   \* helpers that have been launched, each for a command or None
  ran,       \* commands whose installer has been run
  ended,     \* outcomes that have been decided: <<command, what>>
  files,     \* those that are in outcome files
  retry,     \* _pending_remote_status_payloads
  sent,      \* those that have been sent
  linked,    \* the coordinator can be reached
  clicks, breaks

page == <<check, install, latest, pending>>
post == <<files, retry, sent>>
vars == <<app, page, asked, helpers, ran, ended, post, linked, clicks, breaks>>

Trigger == {"manual", "auto", "remote"}
Outcome == Command \X {"failed", "no_update", "completed"}

(***************************************************************************)
(* What is under way: who wants it; whether a thread of the page does it   *)
(* or the group; for the group, whether the answer is yet to come and      *)
(* whether the request is tracked (CoordinatorClient).                     *)
(***************************************************************************)
Job == [trigger : Trigger, by : {"thread", "group"}, due : BOOLEAN, tracked : BOOLEAN]

TypeOK ==
  /\ app \in {"up", "quitting", "down"}
  /\ check \in Job \cup {None} /\ install \in Job \cup {None}
  /\ latest \in {None, "current", "available", "no_file"}
  /\ pending \in Command \cup {None}
  /\ asked \subseteq Command /\ ran \subseteq Command
  /\ helpers \subseteq Command \cup {None}
  /\ ended \subseteq Outcome /\ files \subseteq Outcome
  /\ retry \subseteq Outcome /\ sent \subseteq Outcome
  /\ linked \in BOOLEAN
  /\ clicks \in 0 .. MaxClicks /\ breaks \in 0 .. MaxBreaks

Init ==
  /\ app = "up" /\ check = None /\ install = None /\ latest = None /\ pending = None
  /\ asked = {} /\ helpers = {} /\ ran = {} /\ ended = {}
  /\ files = {} /\ retry = {} /\ sent = {}
  /\ linked \in BOOLEAN /\ clicks = 0 /\ breaks = 0

Busy == check # None \/ install # None

-----------------------------------------------------------------------------
\* write_remote_update_outcome, consume_remote_update_outcomes
WriteOutcomes(outcomes) == files' = files \cup outcomes
ConsumeOutcomes(outcomes) == files' = files \ outcomes

\* Mutant of Report: what could not be sent is only kept in memory.
ReportInMemory(outcomes) ==
  /\ ended' = ended \cup outcomes
  /\ IF linked
     THEN sent' = sent \cup outcomes /\ UNCHANGED <<files, retry>>
     ELSE retry' = retry \cup outcomes /\ UNCHANGED <<files, sent>>

\* _emit_remote_update_status(_for), _report_remote_update_status: written,
\* sent, and then deleted or kept to be sent again
Report(outcomes) ==
  /\ ended' = ended \cup outcomes
  /\ IF linked
     THEN sent' = sent \cup outcomes /\ UNCHANGED <<files, retry>>
     ELSE /\ WriteOutcomes(outcomes) /\ retry' = retry \cup outcomes
          /\ UNCHANGED sent

Silent == UNCHANGED <<ended, post>>

\* _emit_remote_update_status for the pending command, if there is one
Conclude(what) ==
  /\ Report(IF pending = None THEN {} ELSE {<<pending, what>>})
  /\ pending' = None

-----------------------------------------------------------------------------
Thread(t) == [trigger |-> t, by |-> "thread", due |-> FALSE, tracked |-> FALSE]

\* Mutant of Group: the request is tracked before it is sent, so that an
\* answer that comes at once resolves it.
GroupTracked(t) ==
  {[trigger |-> t, by |-> "group", due |-> d, tracked |-> d] : d \in BOOLEAN}

(***************************************************************************)
(* request_group_update_check, request_group_update_download: the request  *)
(* is tracked once it has been sent.  A coordinator that has the result    *)
(* answers itself while it sends, and the page, which does not know the    *)
(* request's id yet, ignores that answer.                                  *)
(***************************************************************************)
Group(t) == {[trigger |-> t, by |-> "group", due |-> d, tracked |-> TRUE] : d \in BOOLEAN}

\* _start_version_check
BeginCheck(t) ==
  check' \in IF t # "manual" /\ linked THEN Group(t) ELSE {Thread(t)}

\* _request_group_update_download, or a thread
Download(t) == install' \in IF linked THEN Group(t) ELSE {Thread(t)}

\* _start_update_install, from where it marks the install as running; for
\* anything else than an update with an installer it does nothing.
BeginInstall(t, result) ==
  IF install = None /\ result = "available"
  THEN Download(t)
  ELSE UNCHANGED install

(***************************************************************************)
(* The user's buttons (the one of the banner is there during a check, too) *)
(* and the timers.                                                         *)
(***************************************************************************)
Click == app = "up" /\ clicks < MaxClicks /\ clicks' = clicks + 1

StartCheck(t) ==
  /\ Click /\ t # "remote" /\ ~Busy
  /\ BeginCheck(t)
  /\ UNCHANGED <<app, install, latest, pending, asked, helpers, ran, ended, post, linked, breaks>>

InstallUpdate ==
  /\ Click /\ install = None /\ latest = "available"
  /\ BeginInstall("manual", latest)
  /\ UNCHANGED <<app, check, latest, pending, asked, helpers, ran, ended, post, linked, breaks>>

\* start_remote_update; one that finds the page busy fails at once.
StartRemoteUpdate(c) ==
  /\ app # "down" /\ c \notin asked /\ asked' = asked \cup {c}
  /\ IF Busy
     THEN Report({<<c, "failed">>}) /\ UNCHANGED page
     ELSE /\ pending' = c /\ Silent
          /\ IF latest \in {"available", "no_file"}
             THEN BeginInstall("remote", latest) /\ UNCHANGED check
             ELSE BeginCheck("remote") /\ UNCHANGED install
          /\ UNCHANGED latest
  /\ UNCHANGED <<app, helpers, ran, linked, clicks, breaks>>

-----------------------------------------------------------------------------
\* _apply_version_check_result, when there is no result
CheckFailed ==
  /\ IF check.trigger = "manual" /\ linked
     THEN check' \in Group("manual") /\ UNCHANGED pending /\ Silent
     ELSE /\ check' = None
          /\ IF check.trigger = "remote" THEN Conclude("failed") ELSE UNCHANGED pending /\ Silent
  /\ UNCHANGED <<install, latest>>

\* _apply_version_check_result
CheckDone(result) ==
  /\ check' = None /\ latest' = result
  /\ IF check.trigger = "remote" /\ result = "current"
     THEN Conclude("no_update") /\ UNCHANGED install
     ELSE /\ IF check.trigger = "remote" THEN BeginInstall("remote", result) ELSE UNCHANGED install
          /\ UNCHANGED pending /\ Silent

\* a thread ends, or the group answers: versionCheckFinished,
\* _handle_group_update_check_status
FinishCheck ==
  /\ app # "down" /\ check # None /\ (check.by = "group" => check.due)
  /\ \/ CheckFailed
     \/ \E result \in {"current", "available", "no_file"} : CheckDone(result)
  /\ UNCHANGED <<app, asked, helpers, ran, linked, clicks, breaks>>

\* _handle_one_shot_timeout of a check
CheckTimesOut ==
  /\ app # "down" /\ check # None /\ check.by = "group" /\ check.tracked
  /\ CheckFailed
  /\ UNCHANGED <<app, asked, helpers, ran, linked, clicks, breaks>>

\* _apply_update_install_result, with an error: the one who has asked is told.
InstallFailed ==
  /\ install' = None
  /\ IF install.trigger = "remote" THEN Conclude("failed") ELSE UNCHANGED pending /\ Silent
  /\ UNCHANGED <<app, check, latest, helpers, breaks>>

\* launch_update_handoff, with the command in the manifest
Launch(c) == helpers' = helpers \cup {c}

\* prepare_update: the installer is there, and the helper is launched.
Prepare == Launch(pending)

(***************************************************************************)
(* _run_update_install, prepare_update: the helper is launched for         *)
(* whatever command is pending; _apply_update_install_result: the          *)
(* application quits, after a command a little later.                      *)
(***************************************************************************)
InstallPrepared ==
  /\ install' = None
  /\ Prepare
  /\ pending' = IF install.trigger = "remote" THEN None ELSE pending
  /\ app' = "quitting"
  /\ Silent /\ UNCHANGED <<check, latest, breaks>>

\* the thread ends
FinishInstall ==
  /\ app # "down" /\ install # None /\ install.by = "thread"
  /\ InstallFailed \/ InstallPrepared
  /\ UNCHANGED <<asked, ran, linked, clicks>>

\* _handle_group_update_download_status: the installer can be fetched now
DownloadReady ==
  /\ app # "down" /\ install # None /\ install.by = "group" /\ install.due
  /\ install' = Thread(install.trigger)
  /\ Silent /\ UNCHANGED <<app, check, latest, pending, asked, helpers, ran, linked, clicks, breaks>>

\* the group has no installer, or has not answered
DownloadFails ==
  /\ app # "down" /\ install # None /\ install.by = "group" /\ (install.due \/ install.tracked)
  /\ InstallFailed
  /\ UNCHANGED <<asked, ran, linked, clicks>>

-----------------------------------------------------------------------------
\* _flush_pending_remote_status_payloads
FlushRetries ==
  /\ app # "down" /\ linked /\ retry # {}
  /\ sent' = sent \cup retry /\ ConsumeOutcomes(retry) /\ retry' = {}
  /\ UNCHANGED <<app, page, asked, helpers, ran, ended, linked, clicks, breaks>>

\* _deliver_pending_remote_update_outcomes
DeliverFiles ==
  /\ app # "down" /\ linked /\ files # {}
  /\ sent' = sent \cup files /\ ConsumeOutcomes(files)
  /\ UNCHANGED <<app, page, asked, helpers, ran, ended, retry, linked, clicks, breaks>>

\* The application ends: it quits for the helper, the user closes it, or it
\* crashes.  Only the files remain.
End ==
  /\ \/ app = "quitting" /\ UNCHANGED breaks
     \/ app = "up" /\ breaks < MaxBreaks /\ breaks' = breaks + 1
  /\ app' = "down" /\ check' = None /\ install' = None /\ latest' = None /\ pending' = None
  /\ retry' = {}
  /\ UNCHANGED <<asked, helpers, ran, ended, files, sent, linked, clicks>>

\* the user starts it again
Start ==
  /\ app = "down" /\ app' = "up"
  /\ UNCHANGED <<page, asked, helpers, ran, ended, post, linked, clicks, breaks>>

\* wait_for_pid_exit, wait_for_process_names_to_exit
MayRun == app # "quitting"

\* Mutant of RunHandoff: only an installer that fails leaves an outcome.
RunHandoffFailing(c) ==
  /\ MayRun /\ c \in helpers /\ helpers' = helpers \ {c}
  /\ \E what \in {"completed", "failed"} :
       LET outcome == IF c = None \/ what = "completed" THEN {} ELSE {<<c, what>>}
       IN  WriteOutcomes(outcome) /\ ended' = ended \cup outcome
  /\ ran' = ran \cup ({c} \ {None})
  /\ app' = "up"
  /\ UNCHANGED <<page, asked, retry, sent, linked, clicks, breaks>>

\* run_update_handoff: it waits for the application to end (one that is
\* started again meanwhile, for some time only), runs the installer, writes
\* the outcome, and launches the application.
RunHandoff(c) ==
  /\ MayRun /\ c \in helpers /\ helpers' = helpers \ {c}
  /\ \E what \in {"completed", "failed"} :
       LET outcome == IF c = None THEN {} ELSE {<<c, what>>}
       IN  WriteOutcomes(outcome) /\ ended' = ended \cup outcome
  /\ ran' = ran \cup ({c} \ {None})
  /\ app' = "up"
  /\ UNCHANGED <<page, asked, retry, sent, linked, clicks, breaks>>

Break ==
  /\ linked /\ breaks < MaxBreaks /\ breaks' = breaks + 1 /\ linked' = FALSE
  /\ UNCHANGED <<app, page, asked, helpers, ran, ended, post, clicks>>

Rebind ==
  /\ ~linked /\ linked' = TRUE
  /\ UNCHANGED <<app, page, asked, helpers, ran, ended, post, clicks, breaks>>

Next ==
  \/ \E t \in Trigger : StartCheck(t)
  \/ InstallUpdate \/ FinishCheck \/ CheckTimesOut
  \/ FinishInstall \/ DownloadReady \/ DownloadFails
  \/ FlushRetries \/ DeliverFiles \/ End \/ Start \/ Break \/ Rebind
  \/ \E c \in Command : StartRemoteUpdate(c)
  \/ \E c \in Command \cup {None} : RunHandoff(c)

Spec == Init /\ [][Next]_vars

\* Threads and helpers end, requests that are tracked time out, the timers
\* tick, broken connections come back.  The group need not answer.
Fairness ==
  /\ WF_vars(FinishCheck /\ check.by = "thread") /\ WF_vars(CheckTimesOut)
  /\ WF_vars(FinishInstall) /\ WF_vars(DownloadFails /\ install.tracked)
  /\ WF_vars(DeliverFiles) /\ WF_vars(FlushRetries) /\ WF_vars(Rebind)
  /\ WF_vars(End /\ app = "quitting")
  /\ \A c \in Command \cup {None} : WF_vars(RunHandoff(c))

-----------------------------------------------------------------------------
(***************************************************************************)
(* An outcome that has been decided is not forgotten, whenever the         *)
(* connection breaks and the application ends: it has been sent, or is in  *)
(* a file that the next application will send.                             *)
(***************************************************************************)
OutcomeKept == ended \subseteq sent \cup files

(***************************************************************************)
(* A command whose installer has been run is told how it went, by the      *)
(* application that starts afterwards.  (Everything is bounded: in the     *)
(* end, while there is an application.)                                    *)
(***************************************************************************)
InstalledReported == []<>(app = "up" => \A c \in ran : \E o \in sent : o[1] = c)

(***************************************************************************)
(* Whatever the group does not answer and whatever crosses on its way, the *)
(* page does not stay busy for ever.  (But for a check of the user: see    *)
(* ManualCheckEnds.)                                                       *)
(***************************************************************************)
PageGetsFree == []<>(install = None /\ (check = None \/ check.trigger = "manual"))

(***************************************************************************)
(* README.md:91: when there is no answer, the user is told so.  Here: a    *)
(* check ends.  It does not hold for one of the user: when the group fails *)
(* as well, it is asked again, and again.                                  *)
(***************************************************************************)
ManualCheckEnds == []<>(check = None)
=============================================================================
