--------------------------- MODULE AlertLifecycle ---------------------------
(***************************************************************************)
(* One root analysis from its submission to an alert that analysts         *)
(* disposition and re-analyse: what each pass of a worker over it decides  *)
(* (saq/engine/analysis_orchestrator.py), and what analysts write to the   *)
(* same rows and root.json meanwhile (saq/database/util/alert.py,          *)
(* app/analysis/views/edit/observable.py, aceapi_v2/alerts/service.py).    *)
(*                                                                         *)
(* One pass runs at a time: module WorkQueue is about the lock that makes  *)
(* it so.  A pass, or an analyst's request, holds the lock; an analyst who *)
(* sets a disposition does not take it.                                    *)
(***************************************************************************)
EXTENDS Naturals

CONSTANTS MaxDelays,       \* delayed analysis requests
          MaxDispositions, \* dispositions set by analysts
          MaxRequests,     \* analyses requested by analysts
          MaxCrashes,      \* passes that end with the death of the worker
          MaxFailures,     \* steps after an analysis whose save or database call raises
          LongPasses       \* TRUE: a pass may outlast alert_disposition_check_frequency

ASSUME LifecycleAssumption ==
    /\ MaxDelays \in Nat
    /\ MaxDispositions \in Nat
    /\ MaxRequests \in Nat
    /\ MaxCrashes \in Nat
    /\ MaxFailures \in Nat
    /\ LongPasses \in BOOLEAN

VARIABLES
    rows,         \* the analysis modes for which the root has a workload row
    delayed,      \* how many rows of delayed_analysis the root has
    disk,         \* what the saved root.json holds, Missing without storage directory
    alert,        \* the root has a row in the alerts table
    disposition,  \* the disposition of that row
    at,           \* where the pass of the worker is, "free" when the root is not locked
    work,         \* the work item of the pass: a mode, or "delayed"
    root,         \* the in-memory root of the pass
    original,     \* its original_analysis_mode
    detected,     \* a module added a detection point
    asked,        \* an analyst's flagged request has not yet had its pass
    unnoticed,    \* a disposition was set and no dispositioned pass has begun since
    abandoned,    \* the worker died after it abandoned the delayed request it was working on
    missed,       \* a pass that had to make the root an alert failed, and none repeats it
    counts        \* how many times each bounded event happened

vars == <<rows, delayed, disk, alert, disposition, at, work, root, original, detected,
          asked, unnoticed, abandoned, missed, counts>>
pass == <<at, work, root, original>>
history == <<detected, asked, unnoticed, abandoned, missed, counts>>

Modes == {"analysis", "correlation", "dispositioned"}

\* The modes of the default configuration that set cleanup, and non_detectable_modes.
CleanupModes == {"analysis"}
NonDetectableModes == {"correlation", "dispositioned"}

\* flag: STATE_ANALYST_REQUESTED_ANALYSIS.  found: the tree has detection points.
Root == [mode : Modes, flag : BOOLEAN, found : BOOLEAN]
Missing == [mode |-> "missing", flag |-> FALSE, found |-> FALSE]

Dispositions == {"none", "open", "ignore", "final"}

\* stop_analysis_on_any_alert_disposition, set in the default configuration.
Stops(d) == d \notin {"none", "open"}

PassPoints == {"free", "loaded", "analysing", "detecting", "converting", "inserting",
               "scheduling", "cleaning", "clearing"}

Events == {"delay", "disposition", "request", "crash", "failure"}

Limit == [delay |-> MaxDelays, disposition |-> MaxDispositions, request |-> MaxRequests,
          crash |-> MaxCrashes, failure |-> MaxFailures]

TypeOK ==
    /\ rows \subseteq Modes
    /\ delayed \in Nat
    /\ disk \in Root \cup {Missing}
    /\ alert \in BOOLEAN
    /\ disposition \in Dispositions
    /\ at \in PassPoints
    /\ work \in Modes \cup {"delayed"}
    /\ root \in Root
    /\ original \in Modes
    /\ detected \in BOOLEAN
    /\ asked \in BOOLEAN
    /\ unnoticed \in BOOLEAN
    /\ abandoned \in BOOLEAN
    /\ missed \in BOOLEAN
    /\ counts \in [Events -> Nat]
    /\ \A event \in Events : counts[event] <= Limit[event]

\* add_workload of a root that was just created and saved in a mode that is cleaned up.
Init ==
    /\ rows = {"analysis"}
    /\ delayed = 0
    /\ disk = [mode |-> "analysis", flag |-> FALSE, found |-> FALSE]
    /\ alert = FALSE
    /\ disposition = "none"
    /\ at = "free"
    /\ work = "analysis"
    /\ root = disk
    /\ original = "analysis"
    /\ detected = FALSE
    /\ asked = FALSE
    /\ unnoticed = FALSE
    /\ abandoned = FALSE
    /\ missed = FALSE
    /\ counts = [event \in Events |-> 0]

Happens(event) ==
    /\ counts[event] < Limit[event]
    /\ counts' = [counts EXCEPT ![event] = @ + 1]

-----------------------------------------------------------------------------
\* A pass: _process_work_item.

\* The mode of the row replaces the saved one.
Claim(mode) ==
    /\ at = "free"
    /\ mode \in rows
    /\ disk # Missing
    /\ at' = "loaded"
    /\ work' = mode
    /\ root' = [disk EXCEPT !.mode = mode]
    /\ original' = mode
    /\ unnoticed' = (unnoticed /\ mode # "dispositioned")
    /\ UNCHANGED <<rows, delayed, disk, alert, disposition, detected, asked, abandoned,
                   missed, counts>>

\* A delayed analysis request goes on in the saved mode.
ClaimDelayed ==
    /\ at = "free"
    /\ delayed > 0
    /\ disk # Missing
    /\ at' = "loaded"
    /\ work' = "delayed"
    /\ root' = disk
    /\ original' = disk.mode
    /\ UNCHANGED <<rows, delayed, disk, alert, disposition, history>>

\* "storage directory missing - already processed?": the row is cleared.
ClaimMissing ==
    /\ at = "free"
    /\ disk = Missing
    /\ \/ \E mode \in rows : rows' = rows \ {mode} /\ UNCHANGED delayed
       \/ delayed > 0 /\ delayed' = delayed - 1 /\ UNCHANGED rows
    /\ UNCHANGED <<disk, alert, disposition, pass, history>>

\* The flag is consumed; without it a dispositioned alert is not analysed.
CheckDisposition ==
    /\ at = "loaded"
    /\ \/ root.mode # "correlation" /\ at' = "analysing" /\ UNCHANGED root
       \/ /\ root.mode = "correlation" /\ root.flag
          /\ at' = "analysing"
          /\ root' = [root EXCEPT !.flag = FALSE]
       \/ /\ root.mode = "correlation" /\ ~root.flag
          /\ at' = IF Stops(disposition) THEN "detecting" ELSE "analysing"
          /\ UNCHANGED root
    /\ UNCHANGED <<rows, delayed, disk, alert, disposition, work, original, history>>

-----------------------------------------------------------------------------
\* The analysis: execute() runs modules, and the root is saved after each of them.

Save == disk' = root'

RunModule ==
    /\ at = "analysing"
    /\ \/ /\ root' = [root EXCEPT !.found = TRUE]
          /\ detected' = TRUE
          /\ UNCHANGED <<delayed, counts>>
       \/ /\ Happens("delay")
          /\ delayed' = delayed + 1
          /\ UNCHANGED <<root, detected>>
    /\ Save
    /\ UNCHANGED <<rows, alert, disposition, at, work, original, asked, unnoticed,
                   abandoned, missed>>

\* The periodic _check_for_alert_disposition cancels the analysis.
StopAnalysis ==
    /\ LongPasses
    /\ at = "analysing"
    /\ root.mode = "correlation" /\ Stops(disposition)
    /\ at' = "detecting"
    /\ UNCHANGED root /\ Save
    /\ UNCHANGED <<rows, delayed, alert, disposition, work, original, history>>

Finish ==
    /\ at = "analysing"
    /\ at' = "detecting"
    /\ UNCHANGED root /\ Save
    /\ asked' = (asked /\ work # "correlation")
    /\ UNCHANGED <<rows, delayed, alert, disposition, work, original, detected,
                   unnoticed, abandoned, missed, counts>>

\* execute() raises: the delayed requests of the root are abandoned.
Abort ==
    /\ at = "analysing"
    /\ at' = "detecting"
    /\ UNCHANGED root /\ Save
    /\ delayed' = 0
    /\ asked' = (asked /\ work # "correlation")
    /\ UNCHANGED <<rows, alert, disposition, work, original, detected,
                   unnoticed, abandoned, missed, counts>>

-----------------------------------------------------------------------------
\* _handle_post_analysis_logic, then clear_work_target.

\* Rows of other modes, and delayed requests other than the one of the pass.
Outstanding ==
    \/ rows \ {original} # {}
    \/ delayed > IF work = "delayed" THEN 1 ELSE 0

\* Mutant of Detect: detections are only handled by the pass over the workload row.
DetectWorkOnly ==
    /\ at = "detecting"
    /\ at' = "converting"
    /\ root' = IF /\ work # "delayed" /\ ~Outstanding
                  /\ root.mode \notin NonDetectableModes /\ root.found
               THEN [root EXCEPT !.mode = "correlation"] ELSE root
    /\ UNCHANGED <<rows, delayed, disk, alert, disposition, work, original, history>>

Detect ==
    /\ at = "detecting"
    /\ at' = "converting"
    /\ root' = IF ~Outstanding /\ root.mode \notin NonDetectableModes /\ root.found
               THEN [root EXCEPT !.mode = "correlation"] ELSE root
    /\ UNCHANGED <<rows, delayed, disk, alert, disposition, work, original, history>>

\* The database fails _check_for_outstanding_work: no detection is looked at.
DetectFails ==
    /\ at = "detecting"
    /\ at' = "converting"
    /\ Happens("failure")
    /\ missed' = (missed \/ (~Outstanding /\ root.mode \notin NonDetectableModes /\ root.found))
    /\ UNCHANGED <<rows, delayed, disk, alert, disposition, work, root, original, detected,
                   asked, unnoticed, abandoned>>

BecomesAlert == root.mode # original /\ root.mode = "correlation"

\* _convert_to_alert first saves the root with its new mode.
Convert ==
    /\ at = "converting"
    /\ at' = IF BecomesAlert THEN "inserting" ELSE "scheduling"
    /\ disk' = IF BecomesAlert THEN root ELSE disk
    /\ UNCHANGED <<rows, delayed, alert, disposition, work, root, original, history>>

\* An exception of that save ends the post-analysis logic; the row is cleared all the same.
ConvertFails ==
    /\ at = "converting" /\ BecomesAlert
    /\ at' = "clearing"
    /\ Happens("failure")
    /\ missed' = (missed \/ ~alert)
    /\ UNCHANGED <<rows, delayed, disk, alert, disposition, work, root, original, detected,
                   asked, unnoticed, abandoned>>

\* ALERT()
Insert ==
    /\ at = "inserting"
    /\ at' = "scheduling"
    /\ alert' = TRUE
    /\ UNCHANGED <<rows, delayed, disk, disposition, work, root, original, history>>

\* An exception of ALERT(), before or after its commit, is logged and the pass goes on.
InsertFails ==
    /\ at = "inserting"
    /\ at' = "scheduling"
    /\ Happens("failure")
    /\ alert' \in {alert, TRUE}
    /\ missed' = (missed \/ ~alert')
    /\ UNCHANGED <<rows, delayed, disk, disposition, work, root, original, detected, asked,
                   unnoticed, abandoned>>

\* root.schedule() for the new mode.
Schedule ==
    /\ at = "scheduling"
    /\ at' = "cleaning"
    /\ rows' = IF root.mode # original THEN rows \cup {root.mode} ELSE rows
    /\ UNCHANGED <<delayed, disk, alert, disposition, work, root, original, history>>

\* An exception of schedule() is logged.
ScheduleFails ==
    /\ at = "scheduling" /\ root.mode # original
    /\ at' = "cleaning"
    /\ Happens("failure")
    /\ UNCHANGED <<rows, delayed, disk, alert, disposition, work, root, original, detected,
                   asked, unnoticed, abandoned, missed>>

\* Mutant of Cleanup: the mode in which the pass began decides.
CleanupByOriginal ==
    /\ at = "cleaning"
    /\ at' = "clearing"
    /\ disk' = IF original \in CleanupModes THEN Missing ELSE disk
    /\ UNCHANGED <<rows, delayed, alert, disposition, work, root, original, history>>

\* _handle_cleanup
Cleanup ==
    /\ at = "cleaning"
    /\ at' = "clearing"
    /\ disk' = IF root.mode \in CleanupModes /\ ~Outstanding THEN Missing ELSE disk
    /\ UNCHANGED <<rows, delayed, alert, disposition, work, root, original, history>>

\* Its check of outstanding work, or the removal, raises; the directory stays.
CleanupFails ==
    /\ at = "cleaning" /\ root.mode \in CleanupModes
    /\ at' = "clearing"
    /\ Happens("failure")
    /\ UNCHANGED <<rows, delayed, disk, alert, disposition, work, root, original, detected,
                   asked, unnoticed, abandoned, missed>>

\* Mutant of Clear: the workload rows of every mode are deleted.
ClearAllModes ==
    /\ at = "clearing"
    /\ at' = "free"
    /\ IF work = "delayed"
       THEN delayed' = (IF delayed > 0 THEN delayed - 1 ELSE 0) /\ UNCHANGED rows
       ELSE rows' = {} /\ UNCHANGED delayed
    /\ UNCHANGED <<disk, alert, disposition, work, root, original, history>>

\* Mutant of Clear: the row of the mode the root is now in is deleted.
ClearCurrentMode ==
    /\ at = "clearing"
    /\ at' = "free"
    /\ IF work = "delayed"
       THEN delayed' = (IF delayed > 0 THEN delayed - 1 ELSE 0) /\ UNCHANGED rows
       ELSE rows' = rows \ {root.mode} /\ UNCHANGED delayed
    /\ UNCHANGED <<disk, alert, disposition, work, root, original, history>>

\* Mutant of Clear: a request that Abort already deleted is counted down again.
ClearUnguarded ==
    /\ at = "clearing"
    /\ at' = "free"
    /\ IF work = "delayed"
       THEN delayed' = delayed - 1 /\ UNCHANGED rows
       ELSE rows' = rows \ {original} /\ UNCHANGED delayed
    /\ UNCHANGED <<disk, alert, disposition, work, root, original, history>>

\* Mutant of Clear: only workload rows are deleted.
ClearWorkloadOnly ==
    /\ at = "clearing"
    /\ at' = "free"
    /\ rows' = rows \ {original}
    /\ UNCHANGED <<delayed, disk, alert, disposition, work, root, original, history>>

\* clear_work_target: the row by its id, or by uuid and original_analysis_mode.
Clear ==
    /\ at = "clearing"
    /\ at' = "free"
    /\ IF work = "delayed"
       THEN delayed' = (IF delayed > 0 THEN delayed - 1 ELSE 0) /\ UNCHANGED rows
       ELSE rows' = rows \ {original} /\ UNCHANGED delayed
    /\ UNCHANGED <<disk, alert, disposition, work, root, original, history>>

\* The worker dies; the lock is recovered and the rows are as they were.  A workload row sets
\* the mode of the root again; a delayed request goes on in the mode that was saved, and an
\* alert that is not there by then is not inserted.
Crash ==
    /\ at # "free"
    /\ at' = "free"
    /\ Happens("crash")
    /\ abandoned' = (abandoned \/ (work = "delayed" /\ delayed = 0))
    /\ missed' = (missed \/ (at = "inserting" /\ work = "delayed" /\ ~alert))
    /\ UNCHANGED <<rows, delayed, disk, alert, disposition, work, root, original, detected,
                   asked, unnoticed>>

-----------------------------------------------------------------------------
\* Analysts.

\* set_dispositions: no lock; INSERT IGNORE of a row for the dispositioned mode.
SetDisposition ==
    /\ alert
    /\ Happens("disposition")
    /\ \E d \in Dispositions \ {"none"} :
          /\ disposition' = d
          /\ rows' = IF d = "ignore" THEN rows ELSE rows \cup {"dispositioned"}
          /\ unnoticed' = (unnoticed \/ d # "ignore")
    /\ UNCHANGED <<delayed, disk, alert, pass, detected, asked, abandoned, missed>>

\* add_observable of the GUI: load, request_analyst_analysis, sync, add_workload, under the
\* lock.  The bulk API sets the mode but not the flag.
RequestAnalysis ==
    /\ alert
    /\ at = "free"
    /\ disk # Missing
    /\ Happens("request")
    /\ \E flagged \in BOOLEAN :
          /\ disk' = [disk EXCEPT !.mode = "correlation", !.flag = flagged \/ @]
          /\ asked' = (asked \/ flagged)
    /\ rows' = rows \cup {"correlation"}
    /\ UNCHANGED <<delayed, alert, disposition, pass, detected, unnoticed, abandoned,
                   missed>>

-----------------------------------------------------------------------------
Step ==
    \/ \E mode \in Modes : Claim(mode)
    \/ ClaimDelayed \/ ClaimMissing \/ CheckDisposition
    \/ Detect \/ Convert \/ Insert \/ Schedule \/ Cleanup \/ Clear

Fail == DetectFails \/ ConvertFails \/ InsertFails \/ ScheduleFails \/ CleanupFails

Next ==
    \/ Step \/ Fail \/ RunModule \/ StopAnalysis \/ Finish \/ Abort \/ Crash
    \/ SetDisposition \/ RequestAnalysis

Spec == Init /\ [][Next]_vars

\* A worker claims what is queued and goes on; a pass ends by itself or at its time limit.
FairSpec == Spec /\ WF_vars(Step) /\ WF_vars(Finish)

-----------------------------------------------------------------------------
\* Detection points are never lost: when a root has some and no work is left, it is an alert,
\* whichever pass found them and whichever pass was the last, over crashes and retries.  But
\* the work is gone without an alert when a worker dies after it abandoned the delayed request
\* of its pass, or when the pass missed the conversion: the database failed the check of
\* outstanding work (analysis_orchestrator.py:313), root.save() (433) or ALERT() (443) raised,
\* or a worker died between these two over a delayed request.
DetectionsAlerted ==
    detected /\ at = "free" /\ rows = {} /\ delayed = 0 => alert \/ abandoned \/ missed

\* Cleanup never takes the storage directory of an alert: a pass that converts the root also
\* leaves the mode that is cleaned up.  (A pass over the workload row of a root whose alert is
\* already there, from the pass of a dead worker, starts in the mode that is cleaned up: if it
\* cannot look at the detections it removes the directory.)
AlertStorageKept == alert => disk # Missing \/ missed

\* The disposition an analyst set is seen by a later pass in dispositioned mode
\* (analysis_mode_dispositioned in saq.default.yaml), if the alert has its directory.
DispositionNoticed == unnoticed => "dispositioned" \in rows \/ disk = Missing

\* An analysis an analyst requested stays queued until a pass over it has run to its
\* end, on an alert whose disposition stops nothing.  (On another, the periodic check of
\* the disposition cancels the requested pass as well: the flag is consumed at its start.)
OpenRequestQueued == asked => "correlation" \in rows \/ Stops(disposition)

\* Every alert comes to rest, with nothing queued.
Settles == <>[](at = "free" /\ rows = {} /\ delayed = 0)
=============================================================================
