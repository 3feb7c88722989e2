------------------------ MODULE AlertLifecycleProofs ------------------------
(***************************************************************************)
(* Theorems about AlertLifecycle, for any number of delayed requests,      *)
(* dispositions, analyst requests, crashes and failures.                   *)
(***************************************************************************)
EXTENDS AlertLifecycle, TLAPS

\* The steps after _handle_detection_points has looked at the tree.
Judged == {"converting", "inserting", "scheduling", "cleaning", "clearing"}

\* Every copy of the root that a pass can start from, or save, has the detection points.
FoundKept ==
    /\ alert => detected
    /\ disk # Missing => (disk.found <=> detected)
    /\ disk = Missing => ~detected \/ missed
    /\ at # "free" => (root.found <=> detected)

\* A pass changes the mode of its root only by converting it to an alert.
ModeKept ==
    /\ at \in {"loaded", "analysing", "detecting"} => root.mode = original
    /\ at \in Judged /\ root.mode # original => root.mode = "correlation" /\ detected
    /\ at = "inserting" => root.mode # original
    /\ at \in Judged \ {"converting", "inserting"} /\ root.mode # original => alert \/ missed

\* A pass that leaves a root with detections unconverted leaves work for another pass, unless
\* it could not look at them.
OthersRemain ==
    at \in Judged /\ root.mode = "analysis" /\ root.found => Outstanding \/ missed

\* A root that becomes an alert has no work but that of the pass, and its row.
LastWork ==
    at \in {"converting", "inserting"} /\ root.mode # original /\ ~alert =>
        delayed <= IF work = "delayed" THEN 1 ELSE 0

\* The saved root is in the mode it was submitted with, but between the two steps of its
\* conversion, and until a pass over its workload row repeats them.
SavedMode ==
    disk # Missing /\ disk.mode # "analysis" =>
        /\ disk.mode = "correlation"
        /\ \/ at = "inserting"
           \/ /\ at \in {"free", "loaded", "analysing"}
              /\ rows # {} /\ delayed = 0
              /\ at # "free" => work = "analysis"

\* A root that is not an alert, by no failure, has only the work it was submitted with.
PlainWork ==
    ~alert /\ ~missed =>
        /\ rows \subseteq {"analysis"}
        /\ SavedMode
        /\ at # "free" => original = "analysis" /\ work \in {"analysis", "delayed"}
        /\ at # "free" /\ work = "analysis" => rows # {}

\* A root with detections that is not an alert has a pass or something queued.
WorkRemains ==
    detected /\ ~alert /\ ~abandoned /\ ~missed /\ at = "free" => rows # {} \/ delayed > 0

IInv == TypeOK /\ FoundKept /\ ModeKept /\ OthersRemain /\ LastWork /\ PlainWork
        /\ WorkRemains

-----------------------------------------------------------------------------
\* A bounded event keeps the counters within their bounds.
LEMMA CountsBounded ==
    ASSUME TypeOK, NEW event \in Events, Happens(event)
    PROVE  /\ counts' \in [Events -> Nat]
           /\ \A e \in Events : counts'[e] <= Limit[e]
BY LifecycleAssumption DEF TypeOK, Happens, Events, Limit

\* The record of one copy of the root with one field changed.
LEMMA RootFields ==
    ASSUME NEW x \in Root, NEW mode \in Modes, NEW b \in BOOLEAN
    PROVE  /\ [x EXCEPT !.mode = mode] \in Root
           /\ [x EXCEPT !.flag = b] \in Root
           /\ [x EXCEPT !.found = b] \in Root
           /\ [x EXCEPT !.mode = mode, !.flag = b] \in Root
BY DEF Root

\* A root that was saved is not Missing, and Missing has no detection points.
LEMMA MissingRoot == Missing \notin Root /\ Missing.found = FALSE
BY DEF Missing, Root, Modes

LEMMA TypeInit == Init => TypeOK
<1> SUFFICES ASSUME Init PROVE TypeOK
    OBVIOUS
<1>1. \A event \in Events : Limit[event] \in Nat
    BY LifecycleAssumption DEF Events, Limit
<1>2. counts \in [Events -> Nat] /\ \A event \in Events : counts[event] <= Limit[event]
    BY <1>1 DEF Init
<1>3. disk \in Root /\ root \in Root
    BY DEF Init, Root, Modes
<1> QED
    BY <1>2, <1>3 DEF Init, TypeOK, Modes, Dispositions, PassPoints

-----------------------------------------------------------------------------
\* Every step keeps the types.
LEMMA TypeStep == TypeOK /\ [Next]_vars => TypeOK'
<1> SUFFICES ASSUME TypeOK, [Next]_vars PROVE TypeOK'
    OBVIOUS
<1> USE DEF TypeOK
<1>1. ASSUME NEW mode \in Modes, Claim(mode) PROVE TypeOK'
    <2>1. disk \in Root
        BY <1>1 DEF Claim
    <2>2. root' \in Root
        BY <1>1, <2>1, RootFields DEF Claim
    <2> QED
        BY <1>1, <2>2 DEF Claim, PassPoints
<1>2. ASSUME ClaimDelayed PROVE TypeOK'
    <2>1. disk \in Root /\ disk.mode \in Modes
        BY <1>2 DEF ClaimDelayed, Root
    <2> QED
        BY <1>2, <2>1 DEF ClaimDelayed, PassPoints, history
<1>3. ASSUME ClaimMissing PROVE TypeOK'
    BY <1>3, LifecycleAssumption DEF ClaimMissing, pass, history
<1>4. ASSUME CheckDisposition PROVE TypeOK'
    <2>1. root' \in Root
        BY <1>4, RootFields DEF CheckDisposition
    <2> QED
        BY <1>4, <2>1 DEF CheckDisposition, PassPoints, history
<1>5. ASSUME RunModule PROVE TypeOK'
    <2>1. root' \in Root
        BY <1>5, RootFields DEF RunModule
    <2>2. CASE Happens("delay") /\ delayed' = delayed + 1 /\ UNCHANGED <<root, detected>>
        <3>1. counts' \in [Events -> Nat] /\ \A e \in Events : counts'[e] <= Limit[e]
            BY <2>2, CountsBounded DEF Events
        <3> QED
            BY <1>5, <2>1, <2>2, <3>1 DEF RunModule, Save
    <2>3. CASE UNCHANGED <<delayed, counts>> /\ detected' = TRUE
        BY <1>5, <2>1, <2>3 DEF RunModule, Save
    <2> QED
        BY <1>5, <2>2, <2>3 DEF RunModule
<1>6. ASSUME StopAnalysis PROVE TypeOK'
    BY <1>6 DEF StopAnalysis, Save, PassPoints, history
<1>7. ASSUME Finish PROVE TypeOK'
    BY <1>7 DEF Finish, Save, PassPoints
<1>8. ASSUME Abort PROVE TypeOK'
    BY <1>8, LifecycleAssumption DEF Abort, Save, PassPoints
<1>9. ASSUME Detect PROVE TypeOK'
    <2>1. root' \in Root
        BY <1>9, RootFields DEF Detect, Modes
    <2> QED
        BY <1>9, <2>1 DEF Detect, PassPoints, history
<1>10. ASSUME Convert PROVE TypeOK'
    BY <1>10 DEF Convert, PassPoints, history
<1>18. ASSUME Insert PROVE TypeOK'
    BY <1>18 DEF Insert, PassPoints, history
<1>19. ASSUME Fail PROVE TypeOK'
    <2>1. Happens("failure")
        BY <1>19 DEF Fail, DetectFails, ConvertFails, InsertFails, ScheduleFails, CleanupFails
    <2>2. counts' \in [Events -> Nat] /\ \A e \in Events : counts'[e] <= Limit[e]
        BY <2>1, CountsBounded DEF Events
    <2>3. at' \in PassPoints /\ alert' \in BOOLEAN /\ missed' \in BOOLEAN
        BY <1>19 DEF Fail, DetectFails, ConvertFails, InsertFails, ScheduleFails, CleanupFails,
            PassPoints
    <2>4. UNCHANGED <<rows, delayed, disk, disposition, work, root, original, detected, asked,
                      unnoticed, abandoned>>
        BY <1>19 DEF Fail, DetectFails, ConvertFails, InsertFails, ScheduleFails, CleanupFails
    <2> QED
        BY <2>2, <2>3, <2>4
<1>11. ASSUME Schedule PROVE TypeOK'
    <2>1. root.mode \in Modes
        BY DEF Root
    <2> QED
        BY <1>11, <2>1 DEF Schedule, PassPoints, history
<1>12. ASSUME Cleanup PROVE TypeOK'
    BY <1>12 DEF Cleanup, PassPoints, history
<1>13. ASSUME Clear PROVE TypeOK'
    BY <1>13, LifecycleAssumption DEF Clear, PassPoints, history
<1>14. ASSUME Crash PROVE TypeOK'
    BY <1>14, CountsBounded DEF Crash, PassPoints, Events
<1>15. ASSUME SetDisposition PROVE TypeOK'
    BY <1>15, CountsBounded DEF SetDisposition, Events, Modes, pass
<1>16. ASSUME RequestAnalysis PROVE TypeOK'
    <2>1. disk' \in Root
        <3>1. PICK flagged \in BOOLEAN :
                  disk' = [disk EXCEPT !.mode = "correlation", !.flag = flagged \/ @]
            BY <1>16 DEF RequestAnalysis
        <3>2. disk \in Root /\ (flagged \/ disk.flag) \in BOOLEAN
            BY <1>16 DEF RequestAnalysis, Root
        <3> QED
            BY <3>1, <3>2, RootFields DEF Modes
    <2>2. asked' \in BOOLEAN
        BY <1>16 DEF RequestAnalysis
    <2>3. counts' \in [Events -> Nat] /\ \A e \in Events : counts'[e] <= Limit[e]
        BY <1>16, CountsBounded DEF RequestAnalysis, Events
    <2> QED
        BY <1>16, <2>1, <2>2, <2>3 DEF RequestAnalysis, Modes, pass
<1>17. CASE UNCHANGED vars
    BY <1>17 DEF vars
<1> QED
    BY <1>1, <1>2, <1>3, <1>4, <1>5, <1>6, <1>7, <1>8, <1>9, <1>10, <1>11, <1>12, <1>13,
       <1>14, <1>15, <1>16, <1>17, <1>18, <1>19 DEF Next, Step

-----------------------------------------------------------------------------
\* Initially the root is queued, and is not an alert.
LEMMA InvInit == Init => IInv
BY TypeInit DEF Init, IInv, FoundKept, ModeKept, OthersRemain, LastWork, PlainWork, SavedMode,
    WorkRemains, Judged, Missing

\* Detection points survive every save, load, conversion and cleanup.
LEMMA FoundStep == IInv /\ [Next]_vars => FoundKept'
<1> SUFFICES ASSUME IInv, [Next]_vars PROVE FoundKept'
    OBVIOUS
<1>0. TypeOK'
    BY TypeStep DEF IInv
<1> USE DEF IInv, FoundKept
<1>1. ASSUME NEW mode \in Modes, Claim(mode) PROVE FoundKept'
    <2>1. disk \in Root
        BY <1>1 DEF Claim, TypeOK
    <2>2. root'.found = disk.found
        BY <1>1, <2>1 DEF Claim, Root
    <2> QED
        BY <1>1, <2>2 DEF Claim
<1>2. ASSUME ClaimDelayed PROVE FoundKept'
    BY <1>2 DEF ClaimDelayed, history
<1>3. ASSUME ClaimMissing PROVE FoundKept'
    BY <1>3 DEF ClaimMissing, pass, history
<1>20. ASSUME at # "free", disk' = root', UNCHANGED <<alert, missed>>,
              root'.found <=> detected', detected => detected'
       PROVE  FoundKept'
    <2>1. disk' # Missing
        BY <1>0, <1>20, MissingRoot DEF TypeOK
    <2> QED
        BY <1>20, <2>1
<1>4. ASSUME CheckDisposition PROVE FoundKept'
    <2>1. root'.found = root.found
        BY <1>4 DEF CheckDisposition, TypeOK, Root
    <2> QED
        BY <1>4, <2>1 DEF CheckDisposition, history
<1>5. ASSUME RunModule PROVE FoundKept'
    <2>1. CASE root' = [root EXCEPT !.found = TRUE] /\ detected' = TRUE
        <3>1. root'.found = TRUE
            BY <2>1 DEF TypeOK, Root
        <3> QED
            BY <1>5, <1>20, <2>1, <3>1 DEF RunModule, Save
    <2>2. CASE UNCHANGED <<root, detected>>
        BY <1>5, <1>20, <2>2 DEF RunModule, Save
    <2> QED
        BY <1>5, <2>1, <2>2 DEF RunModule
<1>6. ASSUME StopAnalysis PROVE FoundKept'
    BY <1>6, <1>20 DEF StopAnalysis, Save, history
<1>7. ASSUME Finish PROVE FoundKept'
    BY <1>7, <1>20 DEF Finish, Save
<1>8. ASSUME Abort PROVE FoundKept'
    BY <1>8, <1>20 DEF Abort, Save
<1>9. ASSUME Detect PROVE FoundKept'
    <2>1. root'.found = root.found
        BY <1>9 DEF Detect, TypeOK, Root
    <2> QED
        BY <1>9, <2>1 DEF Detect, history
<1>10. ASSUME Convert PROVE FoundKept'
    <2>1. CASE BecomesAlert
        BY <1>10, <1>20, <2>1 DEF Convert, history
    <2>2. CASE ~BecomesAlert
        BY <1>10, <2>2 DEF Convert, history
    <2> QED
        BY <2>1, <2>2
<1>18. ASSUME Insert PROVE FoundKept'
    <2>1. detected
        BY <1>18 DEF Insert, Judged, ModeKept
    <2> QED
        BY <1>18, <2>1 DEF Insert, history
<1>19. ASSUME Fail PROVE FoundKept'
    <2>1. CASE InsertFails
        <3>1. detected
            BY <2>1 DEF InsertFails, Judged, ModeKept
        <3> QED
            BY <2>1, <3>1 DEF InsertFails
    <2>2. CASE ~InsertFails
        <3>1. UNCHANGED <<disk, alert, root, detected>> /\ at # "free" /\ (missed => missed')
            BY <1>19, <2>2 DEF Fail, DetectFails, ConvertFails, ScheduleFails, CleanupFails
        <3> QED
            BY <3>1
    <2> QED
        BY <2>1, <2>2
<1>11. ASSUME Schedule PROVE FoundKept'
    BY <1>11 DEF Schedule, history
<1>12. ASSUME Cleanup PROVE FoundKept'
    <2>1. CASE root.mode \in CleanupModes /\ ~Outstanding
        <3>1. ~detected \/ missed
            BY <1>12, <2>1 DEF Cleanup, OthersRemain, Judged, CleanupModes
        <3> QED
            BY <1>12, <2>1, <3>1, MissingRoot DEF Cleanup, history
    <2>2. CASE ~(root.mode \in CleanupModes /\ ~Outstanding)
        BY <1>12, <2>2 DEF Cleanup, history
    <2> QED
        BY <2>1, <2>2
<1>13. ASSUME Clear PROVE FoundKept'
    BY <1>13 DEF Clear, history
<1>14. ASSUME Crash PROVE FoundKept'
    BY <1>14 DEF Crash
<1>15. ASSUME SetDisposition PROVE FoundKept'
    BY <1>15 DEF SetDisposition, pass
<1>16. ASSUME RequestAnalysis PROVE FoundKept'
    <2>1. disk \in Root
        BY <1>16 DEF RequestAnalysis, TypeOK
    <2>2. disk'.found = disk.found
        BY <1>16, <2>1 DEF RequestAnalysis, Root
    <2>3. disk' # Missing
        BY <1>16, <2>2, MissingRoot DEF RequestAnalysis
    <2> QED
        BY <1>16, <2>2, <2>3 DEF RequestAnalysis, pass
<1>17. CASE UNCHANGED vars
    BY <1>17 DEF vars
<1> QED
    BY <1>1, <1>2, <1>3, <1>4, <1>5, <1>6, <1>7, <1>8, <1>9, <1>10, <1>11, <1>12, <1>13,
       <1>14, <1>15, <1>16, <1>17, <1>18, <1>19 DEF Next, Step

-----------------------------------------------------------------------------
\* The mode of the in-memory root.
LEMMA ModeStep == IInv /\ [Next]_vars => ModeKept'
<1> SUFFICES ASSUME IInv, [Next]_vars PROVE ModeKept'
    OBVIOUS
<1> USE DEF IInv, ModeKept, Judged
<1>1. ASSUME NEW mode \in Modes, Claim(mode) PROVE ModeKept'
    <2>1. root'.mode = mode
        <3>1. disk \in Root
            BY <1>1 DEF Claim, TypeOK
        <3> QED
            BY <1>1, <3>1 DEF Claim, Root
    <2> QED
        BY <1>1, <2>1 DEF Claim
<1>2. ASSUME ClaimDelayed PROVE ModeKept'
    BY <1>2 DEF ClaimDelayed
<1>3. ASSUME ClaimMissing PROVE ModeKept'
    BY <1>3 DEF ClaimMissing, pass, history
<1>4. ASSUME CheckDisposition PROVE ModeKept'
    <2>1. root'.mode = root.mode
        BY <1>4 DEF CheckDisposition, TypeOK, Root
    <2> QED
        BY <1>4, <2>1 DEF CheckDisposition
<1>5. ASSUME RunModule PROVE ModeKept'
    <2>1. root'.mode = root.mode
        BY <1>5 DEF RunModule, TypeOK, Root
    <2> QED
        BY <1>5, <2>1 DEF RunModule
<1>6. ASSUME StopAnalysis PROVE ModeKept'
    BY <1>6 DEF StopAnalysis
<1>7. ASSUME Finish PROVE ModeKept'
    BY <1>7 DEF Finish
<1>8. ASSUME Abort PROVE ModeKept'
    BY <1>8 DEF Abort
<1>9. ASSUME Detect PROVE ModeKept'
    <2>1. CASE root' = root
        BY <1>9, <2>1 DEF Detect
    <2>2. CASE root.found /\ root' = [root EXCEPT !.mode = "correlation"]
        <3>1. root'.mode = "correlation"
            BY <2>2 DEF TypeOK, Root
        <3>2. detected
            BY <1>9, <2>2 DEF Detect, FoundKept
        <3> QED
            BY <1>9, <3>1, <3>2 DEF Detect, history
    <2> QED
        BY <1>9, <2>1, <2>2 DEF Detect
<1>10. ASSUME Convert PROVE ModeKept'
    BY <1>10 DEF Convert, BecomesAlert, history
<1>18. ASSUME Insert PROVE ModeKept'
    BY <1>18 DEF Insert, history
<1>19. ASSUME Fail PROVE ModeKept'
    BY <1>19 DEF Fail, DetectFails, ConvertFails, InsertFails, ScheduleFails, CleanupFails
<1>11. ASSUME Schedule PROVE ModeKept'
    BY <1>11 DEF Schedule, history
<1>12. ASSUME Cleanup PROVE ModeKept'
    BY <1>12 DEF Cleanup, history
<1>13. ASSUME Clear PROVE ModeKept'
    BY <1>13 DEF Clear
<1>14. ASSUME Crash PROVE ModeKept'
    BY <1>14 DEF Crash
<1>15. ASSUME SetDisposition PROVE ModeKept'
    BY <1>15 DEF SetDisposition, pass
<1>16. ASSUME RequestAnalysis PROVE ModeKept'
    BY <1>16 DEF RequestAnalysis, pass
<1>17. CASE UNCHANGED vars
    BY <1>17 DEF vars
<1> QED
    BY <1>1, <1>2, <1>3, <1>4, <1>5, <1>6, <1>7, <1>8, <1>9, <1>10, <1>11, <1>12, <1>13,
       <1>14, <1>15, <1>16, <1>17, <1>18, <1>19 DEF Next, Step

\* What is outstanding when _handle_detection_points looks stays so until the row is cleared.
LEMMA OthersStep == IInv /\ [Next]_vars => OthersRemain'
<1> SUFFICES ASSUME IInv, [Next]_vars, at' \in Judged,
                    root'.mode = "analysis", root'.found
             PROVE  Outstanding' \/ missed'
    BY DEF OthersRemain
<1> USE DEF IInv, OthersRemain, Judged
<1>1. ASSUME NEW mode \in Modes, Claim(mode) PROVE FALSE
    BY <1>1 DEF Claim
<1>2. ASSUME CheckDisposition PROVE FALSE
    BY <1>2 DEF CheckDisposition
<1>3. CASE Detect
    <2>1. root' = root
        BY <1>3 DEF Detect, TypeOK, Root
    <2> QED
        BY <1>3, <2>1 DEF Detect, NonDetectableModes, Outstanding
<1>4. CASE Convert \/ Insert
    BY <1>4 DEF Convert, Insert, Outstanding, history
<1>12. CASE DetectFails
    BY <1>12 DEF DetectFails, NonDetectableModes, Outstanding
<1>13. CASE ConvertFails \/ InsertFails \/ ScheduleFails \/ CleanupFails
    <2>1. UNCHANGED <<rows, delayed, work, root, original>> /\ at \in Judged /\ (missed => missed')
        BY <1>13 DEF ConvertFails, InsertFails, ScheduleFails, CleanupFails
    <2> QED
        BY <2>1 DEF Outstanding
<1>5. CASE Schedule
    <2>1. Outstanding \/ missed
        BY <1>5 DEF Schedule
    <2>2. rows \subseteq rows' /\ UNCHANGED <<original, delayed, work, missed>>
        BY <1>5 DEF Schedule, history
    <2> QED
        BY <2>1, <2>2 DEF Outstanding
<1>6. CASE Cleanup
    BY <1>6 DEF Cleanup, Outstanding, history
<1>7. CASE SetDisposition
    <2>1. Outstanding \/ missed
        BY <1>7 DEF SetDisposition, pass
    <2>2. rows \subseteq rows' /\ UNCHANGED <<original, delayed, work, missed>>
        BY <1>7 DEF SetDisposition, pass
    <2> QED
        BY <2>1, <2>2 DEF Outstanding
<1>8. CASE UNCHANGED <<at, rows, delayed, work, root, original, missed>>
    BY <1>8 DEF Outstanding
<1>9. ASSUME ClaimDelayed \/ RunModule \/ Clear \/ Crash \/ RequestAnalysis PROVE FALSE
    BY <1>9 DEF ClaimDelayed, RunModule, Clear, Crash, RequestAnalysis, pass
<1>10. CASE StopAnalysis \/ Finish \/ Abort
    BY <1>10 DEF StopAnalysis, Finish, Abort
<1>11. CASE ClaimMissing
    BY <1>11 DEF ClaimMissing, pass
<1> QED
    BY <1>1, <1>2, <1>3, <1>4, <1>5, <1>6, <1>7, <1>8, <1>9, <1>10, <1>11, <1>12, <1>13
    DEF Next, Step, Fail, vars

\* Nothing is queued between the look at the detections and the insertion of the alert.
LEMMA LastStep == IInv /\ [Next]_vars => LastWork'
<1> SUFFICES ASSUME IInv, [Next]_vars, at' \in {"converting", "inserting"},
                    root'.mode # original', ~alert'
             PROVE  delayed' <= IF work' = "delayed" THEN 1 ELSE 0
    BY DEF LastWork
<1> USE DEF IInv, LastWork
<1>1. CASE Detect
    <2>1. root.mode = original
        BY <1>1 DEF Detect, ModeKept
    <2>2. ~Outstanding
        BY <1>1, <2>1 DEF Detect
    <2> QED
        BY <1>1, <2>2 DEF Detect, Outstanding, TypeOK
<1>2. CASE DetectFails
    BY <1>2 DEF DetectFails, ModeKept
<1>3. CASE Convert
    BY <1>3 DEF Convert
<1>4. CASE SetDisposition
    BY <1>4 DEF SetDisposition
<1>5. CASE UNCHANGED vars
    BY <1>5 DEF vars
<1>6. ASSUME NEW mode \in Modes, Claim(mode) PROVE FALSE
    BY <1>6 DEF Claim
<1>7. ASSUME \/ ClaimDelayed \/ CheckDisposition \/ RunModule \/ StopAnalysis \/ Finish \/ Abort
             \/ ClaimMissing
      PROVE  FALSE
    BY <1>7 DEF ClaimDelayed, CheckDisposition, RunModule, StopAnalysis, Finish, Abort,
        ClaimMissing, pass
<1>8. ASSUME \/ Insert \/ Schedule \/ Cleanup \/ Clear \/ Crash \/ RequestAnalysis
             \/ ConvertFails \/ InsertFails \/ ScheduleFails \/ CleanupFails
      PROVE  FALSE
    BY <1>8 DEF Insert, Schedule, Cleanup, Clear, Crash, RequestAnalysis, ConvertFails,
        InsertFails, ScheduleFails, CleanupFails, pass
<1> QED
    BY <1>1, <1>2, <1>3, <1>4, <1>5, <1>6, <1>7, <1>8 DEF Next, Step, Fail

-----------------------------------------------------------------------------
\* A root gets other modes and other rows only as an alert.
LEMMA PlainStep == IInv /\ [Next]_vars => PlainWork'
<1> SUFFICES ASSUME IInv, [Next]_vars, ~alert', ~missed' PROVE PlainWork'
    BY DEF PlainWork
<1> USE DEF IInv, PlainWork, SavedMode
<1>0. ~alert /\ ~missed
    <2>1. ASSUME InsertFails PROVE ~alert /\ ~missed
        BY <2>1 DEF InsertFails, TypeOK
    <2>2. ASSUME DetectFails \/ ConvertFails \/ ScheduleFails \/ CleanupFails \/ Crash
          PROVE  ~alert /\ ~missed
        BY <2>2 DEF DetectFails, ConvertFails, ScheduleFails, CleanupFails, Crash, TypeOK
    <2>3. ASSUME NEW mode \in Modes, Claim(mode) PROVE ~alert /\ ~missed
        BY <2>3 DEF Claim
    <2>4. ASSUME \/ ClaimDelayed \/ ClaimMissing \/ CheckDisposition \/ RunModule
                 \/ StopAnalysis \/ Finish \/ Abort
          PROVE  ~alert /\ ~missed
        BY <2>4 DEF ClaimDelayed, ClaimMissing, CheckDisposition, RunModule, StopAnalysis,
            Finish, Abort, history
    <2>5. ASSUME \/ Detect \/ Convert \/ Insert \/ Schedule \/ Cleanup \/ Clear
                 \/ SetDisposition \/ RequestAnalysis
          PROVE  ~alert /\ ~missed
        BY <2>5 DEF Detect, Convert, Insert, Schedule, Cleanup, Clear, SetDisposition,
            RequestAnalysis, history, TypeOK
    <2> QED
        BY <2>1, <2>2, <2>3, <2>4, <2>5 DEF Next, Step, Fail, vars
<1>1. ASSUME NEW mode \in Modes, Claim(mode) PROVE PlainWork'
    BY <1>0, <1>1 DEF Claim
<1>2. ASSUME ClaimDelayed PROVE PlainWork'
    <2>1. disk.mode = "analysis"
        BY <1>0, <1>2 DEF ClaimDelayed, TypeOK
    <2> QED
        BY <1>0, <1>2, <2>1 DEF ClaimDelayed, history
<1>3. ASSUME ClaimMissing PROVE PlainWork'
    BY <1>0, <1>3 DEF ClaimMissing, pass, history
<1>4. ASSUME CheckDisposition PROVE PlainWork'
    <2>1. at' = "analysing"
        BY <1>0, <1>4 DEF CheckDisposition, ModeKept
    <2> QED
        BY <1>0, <1>4, <2>1 DEF CheckDisposition, history
<1>5. ASSUME at \in {"loaded", "analysing", "detecting"}, root' = disk', at' # "free",
             root'.mode = root.mode, UNCHANGED <<rows, work, original>>
      PROVE  PlainWork'
    BY <1>0, <1>5 DEF ModeKept
<1>6. ASSUME RunModule PROVE PlainWork'
    <2>1. root'.mode = root.mode
        BY <1>6 DEF RunModule, TypeOK, Root
    <2> QED
        BY <1>5, <1>6, <2>1 DEF RunModule, Save
<1>7. ASSUME StopAnalysis PROVE PlainWork'
    BY <1>5, <1>7 DEF StopAnalysis, Save
<1>8. ASSUME Finish PROVE PlainWork'
    BY <1>5, <1>8 DEF Finish, Save
<1>9. ASSUME Abort PROVE PlainWork'
    BY <1>5, <1>9 DEF Abort, Save
<1>10. ASSUME Detect \/ DetectFails PROVE PlainWork'
    BY <1>0, <1>10 DEF Detect, DetectFails, history
<1>11. ASSUME Convert PROVE PlainWork'
    BY <1>0, <1>11 DEF Convert, BecomesAlert, history
<1>12. ASSUME Schedule PROVE PlainWork'
    <2>1. root.mode = original
        BY <1>0, <1>12 DEF Schedule, ModeKept, Judged
    <2> QED
        BY <1>0, <1>12, <2>1 DEF Schedule, history
<1>13. ASSUME Cleanup PROVE PlainWork'
    BY <1>0, <1>13 DEF Cleanup, history
<1>14. ASSUME Clear PROVE PlainWork'
    BY <1>0, <1>14 DEF Clear, history
<1>15. ASSUME Crash PROVE PlainWork'
    <2>1. CASE at = "inserting"
        <3>1. work = "analysis" /\ rows # {}
            BY <1>0, <1>15, <2>1 DEF Crash
        <3>2. delayed = 0
            BY <1>0, <2>1, <3>1 DEF LastWork, ModeKept, TypeOK
        <3> QED
            BY <1>0, <1>15, <3>1, <3>2 DEF Crash
    <2>2. CASE at # "inserting"
        BY <1>0, <1>15, <2>2 DEF Crash
    <2> QED
        BY <2>1, <2>2
<1>16. ASSUME SetDisposition \/ RequestAnalysis \/ Insert \/ ConvertFails PROVE FALSE
    BY <1>0, <1>16 DEF SetDisposition, RequestAnalysis, Insert, ConvertFails
<1>17. ASSUME InsertFails PROVE FALSE
    BY <1>17 DEF InsertFails, TypeOK
<1>18. ASSUME ScheduleFails \/ CleanupFails PROVE PlainWork'
    BY <1>0, <1>18 DEF ScheduleFails, CleanupFails
<1>19. CASE UNCHANGED vars
    BY <1>0, <1>19 DEF vars
<1> QED
    BY <1>1, <1>2, <1>3, <1>4, <1>6, <1>7, <1>8, <1>9, <1>10, <1>11, <1>12, <1>13,
       <1>14, <1>15, <1>16, <1>17, <1>18, <1>19 DEF Next, Step, Fail

\* Only Clear and Crash end a pass, and ClaimMissing finds no detections.
LEMMA WorkStep == IInv /\ [Next]_vars => WorkRemains'
<1> SUFFICES ASSUME IInv, [Next]_vars, detected', ~alert', ~abandoned', ~missed', at' = "free"
             PROVE  rows' # {} \/ delayed' > 0
    BY DEF WorkRemains
<1> USE DEF IInv
<1>1. CASE Clear
    <2>1. detected /\ ~alert /\ ~missed /\ at = "clearing"
        BY <1>1 DEF Clear, history
    <2>2. root.found /\ root.mode = "analysis" /\ original = "analysis"
        BY <2>1 DEF FoundKept, ModeKept, PlainWork, Judged
    <2>3. Outstanding /\ rows \subseteq {original}
        BY <2>1, <2>2 DEF OthersRemain, PlainWork, Judged
    <2>4. delayed > IF work = "delayed" THEN 1 ELSE 0
        BY <2>3 DEF Outstanding
    <2> QED
        BY <1>1, <2>4 DEF Clear, TypeOK
<1>2. CASE Crash
    <2>1. ~alert /\ ~missed /\ at # "free" /\ (work # "delayed" \/ delayed # 0)
        BY <1>2 DEF Crash
    <2> QED
        BY <1>2, <2>1 DEF Crash, PlainWork, TypeOK
<1>3. CASE ClaimMissing
    BY <1>3, MissingRoot DEF ClaimMissing, FoundKept, history
<1>4. ASSUME SetDisposition \/ RequestAnalysis PROVE FALSE
    <2>1. alert /\ alert' = alert
        BY <1>4 DEF SetDisposition, RequestAnalysis
    <2> QED
        BY <2>1
<1>5. CASE UNCHANGED vars
    BY <1>5 DEF vars, WorkRemains
<1>6. ASSUME NEW mode \in Modes, Claim(mode) PROVE FALSE
    BY <1>6 DEF Claim
<1>7. ASSUME ClaimDelayed \/ CheckDisposition \/ RunModule \/ StopAnalysis \/ Finish \/ Abort
      PROVE  FALSE
    BY <1>7 DEF ClaimDelayed, CheckDisposition, RunModule, StopAnalysis, Finish, Abort
<1>8. ASSUME Detect \/ Convert \/ Insert \/ Schedule \/ Cleanup \/ Fail PROVE FALSE
    BY <1>8 DEF Detect, Convert, Insert, Schedule, Cleanup, Fail, DetectFails, ConvertFails,
        InsertFails, ScheduleFails, CleanupFails
<1> QED
    BY <1>1, <1>2, <1>3, <1>4, <1>5, <1>6, <1>7, <1>8 DEF Next, Step

-----------------------------------------------------------------------------
\* The inductive invariant holds in every reachable state.
THEOREM InvariantHolds == Spec => []IInv
<1>1. IInv /\ [Next]_vars => IInv'
    BY TypeStep, FoundStep, ModeStep, OthersStep, LastStep, PlainStep, WorkStep DEF IInv
<1> QED
    BY InvInit, <1>1, PTL DEF Spec

\* Every variable of the model keeps its type: the rows, the saved root.json, the alert.
THEOREM TypeCorrect == Spec => []TypeOK
<1>1. IInv => TypeOK
    BY DEF IInv
<1> QED
    BY <1>1, InvariantHolds, PTL

\* A pass that made a root an alert never lets _handle_cleanup remove its storage directory,
\* nor does any later pass, whatever crashed or was delayed before, unless a pass could not
\* look at the detections because of a database error.
THEOREM AlertStorageKeptHolds == Spec => []AlertStorageKept
<1>1. IInv => AlertStorageKept
    BY MissingRoot DEF IInv, FoundKept, AlertStorageKept
<1> QED
    BY <1>1, InvariantHolds, PTL

\* A root with detection points and no work left is an alert, unless a worker died with the
\* delayed request it had abandoned, or the pass that was to insert the alert failed to, by an
\* exception or by its death between root.save() and ALERT() over a delayed request.
THEOREM DetectionsAlertedHolds == Spec => []DetectionsAlerted
<1>1. IInv => DetectionsAlerted
    BY DEF IInv, TypeOK, WorkRemains, DetectionsAlerted
<1> QED
    BY <1>1, InvariantHolds, PTL

-----------------------------------------------------------------------------
\* What analysts write.  These parts speak of an alert that got one disposition at most: the
\* row of a second one may be swallowed by INSERT IGNORE, and a second one may take back the
\* first, which is when a request counts again that the first one had cancelled.
Few == counts["disposition"] <= 1

\* Only alerts are dispositioned and re-analysed, and a pass over a row has the row's mode.
AlertsOnly ==
    /\ unnoticed \/ asked => alert
    /\ at # "free" /\ work # "delayed" => work = original
    /\ at = "loaded" /\ work # "delayed" => root.mode = work
    /\ at \notin {"free", "clearing"} => disk # Missing

\* Nothing is dispositioned before the first disposition.
Undisposed ==
    counts["disposition"] = 0 =>
        /\ disposition = "none" /\ ~unnoticed
        /\ "dispositioned" \notin rows
        /\ ~(at # "free" /\ work = "dispositioned")

\* A disposition nobody noticed is queued, and the pass under way did not take its row.
Noticed ==
    Few /\ unnoticed =>
        /\ "dispositioned" \in rows \/ disk = Missing
        /\ ~(at # "free" /\ work = "dispositioned")

\* A request that no disposition cancels is queued, and a pass over its row has yet to end
\* its analysis.
Requested ==
    Few /\ asked /\ ~Stops(disposition) =>
        /\ "correlation" \in rows /\ disk # Missing
        /\ at # "free" /\ work = "correlation" => at \in {"loaded", "analysing"}

AInv == AlertsOnly /\ Undisposed /\ Noticed /\ Requested

LEMMA AInvInit == Init => AInv
BY DEF Init, AInv, AlertsOnly, Undisposed, Noticed, Requested

\* A second disposition is beyond Few, and the first one is set on an alert without one.
LEMMA DispositionCounted ==
    ASSUME TypeOK, Happens("disposition")
    PROVE  /\ counts'["disposition"] # 0
           /\ Few' => counts["disposition"] = 0
BY DEF TypeOK, Happens, Events, Few

\* Any other step leaves the count of dispositions alone.
LEMMA OtherCounted ==
    ASSUME TypeOK, NEW event \in Events \ {"disposition"}, Happens(event)
    PROVE  counts'["disposition"] = counts["disposition"]
BY DEF TypeOK, Happens, Events

LEMMA AInvStep ==
    ASSUME IInv, AInv, [Next]_vars
    PROVE  AInv'
<1> USE DEF AInv, AlertsOnly, Undisposed, Noticed, Requested, Few
<1>0. TypeOK /\ counts["disposition"] \in Nat
    BY DEF IInv, TypeOK, Events
<1>1. ASSUME NEW mode \in Modes, Claim(mode) PROVE AInv'
    <2>1. root'.mode = mode
        BY <1>0, <1>1 DEF Claim, TypeOK, Root
    <2> QED
        BY <1>1, <2>1 DEF Claim, Modes
<1>2. ASSUME ClaimDelayed PROVE AInv'
    BY <1>2 DEF ClaimDelayed, history
<1>3. ASSUME ClaimMissing PROVE AInv'
    BY <1>3 DEF ClaimMissing, pass, history
<1>4. ASSUME CheckDisposition PROVE AInv'
    BY <1>4 DEF CheckDisposition, history
<1>20. TypeOK'
    BY TypeStep DEF IInv
<1>21. Save => disk' # Missing
    BY <1>20, MissingRoot DEF Save, TypeOK
<1>5. ASSUME RunModule PROVE AInv'
    <2>1. counts'["disposition"] = counts["disposition"]
        BY <1>0, <1>5, OtherCounted DEF RunModule, Events
    <2> QED
        BY <1>5, <1>21, <2>1 DEF RunModule
<1>6. ASSUME StopAnalysis PROVE AInv'
    BY <1>6, <1>21 DEF StopAnalysis, history
<1>7. ASSUME Finish PROVE AInv'
    BY <1>7, <1>21 DEF Finish
<1>8. ASSUME Abort PROVE AInv'
    BY <1>8, <1>21 DEF Abort
<1>9. ASSUME Detect PROVE AInv'
    BY <1>9 DEF Detect, history
<1>10. ASSUME Convert PROVE AInv'
    <2>1. disk' # Missing
        BY <1>0, <1>10, MissingRoot DEF Convert, TypeOK
    <2> QED
        BY <1>10, <2>1 DEF Convert, history
<1>18. ASSUME Insert PROVE AInv'
    BY <1>18 DEF Insert, history
<1>19. ASSUME Fail PROVE AInv'
    <2>1. counts'["disposition"] = counts["disposition"]
        BY <1>0, <1>19, OtherCounted
        DEF Fail, DetectFails, ConvertFails, InsertFails, ScheduleFails, CleanupFails, Events
    <2>2. /\ UNCHANGED <<rows, disk, disposition, work, original, root, asked, unnoticed>>
          /\ at # "free" /\ at' # "free" /\ at' \notin {"loaded", "analysing"}
          /\ at \notin {"loaded", "analysing", "clearing"}
          /\ alert => alert'
        BY <1>19
        DEF Fail, DetectFails, ConvertFails, InsertFails, ScheduleFails, CleanupFails
    <2> QED
        BY <2>1, <2>2
<1>11. ASSUME Schedule PROVE AInv'
    <2>1. root.mode # original => root.mode = "correlation"
        BY <1>11 DEF Schedule, IInv, ModeKept, Judged
    <2> QED
        BY <1>11, <2>1 DEF Schedule, history
<1>12. ASSUME Cleanup PROVE AInv'
    <2>1. CASE root.mode \in CleanupModes /\ ~Outstanding
        <3>1. root.mode = original /\ original # "correlation"
            BY <1>12, <2>1 DEF Cleanup, CleanupModes, IInv, ModeKept, Judged
        <3>2. "correlation" \notin rows
            BY <2>1, <3>1 DEF Outstanding
        <3> QED
            BY <1>12, <2>1, <3>2 DEF Cleanup, history
    <2>2. CASE ~(root.mode \in CleanupModes /\ ~Outstanding)
        BY <1>12, <2>2 DEF Cleanup, history
    <2> QED
        BY <2>1, <2>2
<1>13. ASSUME Clear PROVE AInv'
    BY <1>13 DEF Clear, history
<1>14. ASSUME Crash PROVE AInv'
    <2>1. counts'["disposition"] = counts["disposition"]
        BY <1>0, <1>14, OtherCounted DEF Crash, Events
    <2> QED
        BY <1>14, <2>1 DEF Crash
<1>15. ASSUME SetDisposition PROVE AInv'
    <2>1. counts'["disposition"] # 0 /\ (Few' => counts["disposition"] = 0)
        BY <1>0, <1>15, DispositionCounted DEF SetDisposition
    <2>2. rows \subseteq rows' /\ (unnoticed' => unnoticed \/ "dispositioned" \in rows')
        BY <1>15 DEF SetDisposition
    <2>3. Stops(disposition) => counts["disposition"] # 0
        BY DEF Stops
    <2> QED
        BY <1>15, <2>1, <2>2, <2>3 DEF SetDisposition, pass
<1>16. ASSUME RequestAnalysis PROVE AInv'
    <2>1. counts'["disposition"] = counts["disposition"]
        BY <1>0, <1>16, OtherCounted DEF RequestAnalysis, Events
    <2>2. disk' # Missing
        <3>1. disk \in Root
            BY <1>0, <1>16 DEF RequestAnalysis, TypeOK
        <3>2. disk' \in Root \cup {Missing} /\ disk'.mode = "correlation"
            BY <1>16, <1>20, <3>1 DEF RequestAnalysis, TypeOK, Root
        <3> QED
            BY <3>2 DEF Missing
    <2> QED
        BY <1>16, <2>1, <2>2 DEF RequestAnalysis, pass
<1>17. CASE UNCHANGED vars
    BY <1>17 DEF vars
<1> QED
    BY <1>1, <1>2, <1>3, <1>4, <1>5, <1>6, <1>7, <1>8, <1>9, <1>10, <1>11, <1>12, <1>13,
       <1>14, <1>15, <1>16, <1>17, <1>18, <1>19 DEF Next, Step

LEMMA AnalystsHeard == Spec => []AInv
<1>1. IInv /\ AInv /\ [Next]_vars => AInv'
    BY AInvStep
<1> QED
    BY <1>1, AInvInit, InvariantHolds, PTL DEF Spec

\* The row of the dispositioned mode that set_dispositions inserts is not deleted before a pass
\* in that mode has begun, whatever other passes, crashes and requests come in between, as long
\* as no second disposition is set.
THEOREM DispositionNoticedHolds == Spec => [](Few => DispositionNoticed)
<1>1. AInv => (Few => DispositionNoticed)
    BY DEF AInv, Noticed, DispositionNoticed
<1> QED
    BY <1>1, AnalystsHeard, PTL

\* The row of a requested analysis stays until a pass over it has run to its end: no crash, and
\* no pass that began before the request, takes it away, as long as no second disposition is set.
THEOREM OpenRequestQueuedHolds == Spec => [](Few => OpenRequestQueued)
<1>1. AInv => (Few => OpenRequestQueued)
    BY DEF AInv, Requested, OpenRequestQueued
<1> QED
    BY <1>1, AnalystsHeard, PTL
=============================================================================
