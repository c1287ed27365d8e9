--------------------------- MODULE ManagedTerminal ---------------------------
(***************************************************************************)
(* A background terminal (src/src/terminal-runner.ts): the record the       *)
(* provider reserves, the launcher the host runs, the supervisor it starts, *)
(* the command's process group and the hard-timeout watchdog. They are      *)
(* separate processes; the files of the job directory are what they share.  *)
(***************************************************************************)
EXTENDS Naturals

CONSTANTS
    Spawn,     \* the policy's backgroundSpawn
    HardLimit  \* whether it has a hardTimeoutMs

VARIABLES
    job,       \* the job directory exists
    record,    \* terminal file: "reserved", "running", "final", "none"
    claimed,   \* job/claimed: "free", "launcher", "release"
    ready, timedout, failed,  \* job/ready, job/timedout, job/error
    done,      \* job/done: "absent", "empty", "full"
    code,      \* the exit status the supervisor settled on: "none", "ok", "bad"
    release,   \* releaseUnstartedTerminal: "idle", "checked", "removing", "over"
    launcher,  \* the launcher's place; "over" once it reported or was killed
    report,    \* what it reported: [is, code]
    sup,       \* the supervisor's place
    aborted,   \* its trap ran
    group,     \* the command: "off", "starting", "running", "ended", "stopped"
    exit,      \* job/command-exit: "none", "ok", "bad"
    watchdog   \* "off", "armed", "over"

files == <<job, record, claimed, ready, timedout, failed, done, code>>
vars == <<files, release, launcher, report, sup, aborted, group, exit, watchdog>>

NoReport == [is |-> "nothing", code |-> "none"]
Report(is, c) == [is |-> is, code |-> c]

Init ==
    /\ job = TRUE /\ record = "reserved" /\ claimed = "free"
    /\ ready = FALSE /\ timedout = FALSE /\ failed = FALSE /\ done = "absent" /\ code = "none"
    /\ release = "idle" /\ launcher = "idle" /\ report = NoReport
    /\ sup = "off" /\ aborted = FALSE /\ group = "off" /\ exit = "none" /\ watchdog = "off"

Alive == sup \notin {"off", "gone", "dead"}

-----------------------------------------------------------------------------
(* The provider releases a call that was denied, evicted or finished.        *)
ReleaseChecks ==
    /\ release = "idle"
    /\ release' = IF ready THEN "over" ELSE "checked"
    /\ UNCHANGED <<files, launcher, report, sup, aborted, group, exit, watchdog>>

(* Mutant of ReleaseMay: the claim is not looked at. *)
ReleaseMay_Always == TRUE

ReleaseMay == claimed = "free"

ReleaseTakes ==
    /\ release = "checked"
    /\ IF ReleaseMay THEN claimed' = "release" /\ job' = FALSE /\ release' = "removing"
                     ELSE release' = "over" /\ UNCHANGED <<claimed, job>>
    /\ UNCHANGED <<record, ready, timedout, failed, done, code, launcher, report, sup, aborted, group, exit, watchdog>>

ReleaseRemoves ==
    /\ release = "removing" /\ release' = "over" /\ record' = "none"
    /\ UNCHANGED <<job, claimed, ready, timedout, failed, done, code, launcher, report, sup, aborted, group, exit, watchdog>>

-----------------------------------------------------------------------------
(* The launcher claims the job and starts the supervisor.                    *)
Reports(r) == launcher' = "over" /\ report' = r

Launches ==
    /\ launcher = "idle"
    /\ IF claimed = "free" /\ job
       THEN claimed' = "launcher" /\ sup' = "init" /\ launcher' = "starting" /\ UNCHANGED report
       ELSE Reports(Report("released", "bad")) /\ UNCHANGED <<claimed, sup>>
    /\ UNCHANGED <<job, record, ready, timedout, failed, done, code, release, aborted, group, exit, watchdog>>

(* It waits for job/ready, at most START_DEADLINE_SECONDS.                   *)
SeesReady ==
    /\ launcher = "starting" /\ ready
    /\ IF Spawn THEN Reports(Report("spawned", "none")) ELSE launcher' = "window" /\ UNCHANGED report
    /\ UNCHANGED <<files, release, sup, aborted, group, exit, watchdog>>

GivesUp ==
    /\ launcher = "starting" /\ ~ready
    /\ launcher' = "failing"
    /\ UNCHANGED <<files, release, report, sup, aborted, group, exit, watchdog>>

(* A failed start: the supervisor is told to stop, the claim handed back.    *)

(* Mutant of FailStop: the supervisor is left to itself. *)
FailStop_Not == aborted

FailStop == aborted \/ Alive

Fails ==
    /\ launcher = "failing"
    /\ aborted' = FailStop
    /\ claimed' = IF job THEN "free" ELSE claimed
    /\ Reports(Report("failed", "bad"))
    /\ UNCHANGED <<job, record, ready, timedout, failed, done, code, release, sup, group, exit, watchdog>>

(* The foreground window: over when the command is done, the window has      *)
(* passed or the supervisor is gone.                                        *)
WindowEnds ==
    /\ launcher = "window"
    /\ IF ~Alive /\ done = "absent" /\ ~timedout THEN Reports(Report("lost", "bad"))
       ELSE /\ launcher' = IF done = "absent" /\ timedout THEN "settling" ELSE "deciding"
            /\ UNCHANGED report
    /\ UNCHANGED <<files, release, sup, aborted, group, exit, watchdog>>

SettleEnds ==
    /\ launcher = "settling" /\ launcher' = "deciding"
    /\ UNCHANGED <<files, release, report, sup, aborted, group, exit, watchdog>>

Decides ==
    /\ launcher = "deciding"
    /\ IF done # "absent" /\ ~timedout THEN launcher' = "reading" /\ UNCHANGED report
       ELSE IF timedout THEN Reports(Report("timeout", "bad"))
       ELSE IF ~Alive \/ failed THEN Reports(Report("lost", "bad"))
       ELSE Reports(Report("backgrounded", "none"))
    /\ UNCHANGED <<files, release, sup, aborted, group, exit, watchdog>>

(* job/done exists before its one write fills it.                            *)

(* Mutant of DoneReadable: it is read as soon as it exists. *)
DoneReadable_Exists == TRUE

DoneReadable == done = "full" \/ ~Alive

ReadsDone ==
    /\ launcher = "reading" /\ DoneReadable
    /\ Reports(IF done = "full" THEN Report("exit", code) ELSE Report("exit", "bad"))
    /\ UNCHANGED <<files, release, sup, aborted, group, exit, watchdog>>

(* The host stops the call: it signals the launcher's process group.         *)
HostStops ==
    /\ launcher \in {"starting", "failing", "window", "settling", "deciding", "reading"}
    /\ Reports(Report("killed", "none"))
    /\ aborted' = (aborted \/ Alive)
    /\ UNCHANGED <<files, release, sup, group, exit, watchdog>>

-----------------------------------------------------------------------------
(* The supervisor: safe_dirs, then the record's header; the release may come *)
(* between the two.                                                         *)
ChecksJob ==
    /\ sup = "init"
    /\ sup' = IF job THEN "header" ELSE "gone"
    /\ UNCHANGED <<files, release, launcher, report, aborted, group, exit, watchdog>>

WritesHeader ==
    /\ sup = "header" /\ record' = "running"
    /\ IF job /\ ~aborted THEN sup' = "grouping" /\ group' = "starting" /\ UNCHANGED failed
       ELSE sup' = "gone" /\ failed' = job /\ UNCHANGED group
    /\ UNCHANGED <<job, claimed, ready, timedout, done, code, release, launcher, report, aborted, exit, watchdog>>

GroupReady ==
    /\ sup = "grouping" /\ group \in {"running", "ended"} /\ ~aborted
    /\ ready' = job /\ sup' = "running"
    /\ watchdog' = IF HardLimit THEN "armed" ELSE "off"
    /\ UNCHANGED <<job, record, claimed, timedout, failed, done, code, release, launcher, report, aborted, group, exit>>

GroupFails ==
    /\ sup = "grouping"
    /\ sup' = "gone" /\ failed' = job
    /\ group' = IF group = "ended" THEN "ended" ELSE "stopped"
    /\ UNCHANGED <<job, record, claimed, ready, timedout, done, code, release, launcher, report, aborted, exit, watchdog>>

(* A signal stops the group: TERM, then KILL after the grace.                *)
TrapStops ==
    /\ Alive /\ aborted /\ group = "running"
    /\ group' = "stopped"
    /\ UNCHANGED <<files, release, launcher, report, sup, aborted, exit, watchdog>>

(* The command is over, or stopped.                                          *)
CommandOver ==
    /\ sup = "running" /\ (aborted \/ exit # "none" \/ group # "running")
    /\ code' = IF aborted \/ exit = "none" THEN "bad" ELSE exit
    /\ group' = IF aborted /\ group = "running" THEN "stopped" ELSE group
    /\ sup' = "finishing"
    /\ UNCHANGED <<job, record, claimed, ready, timedout, failed, done, release, launcher, report, aborted, exit, watchdog>>

(* job/finishing: the watchdog and the updater stop. Then the record is      *)
(* closed, and job/done written.                                            *)
StopsHelpers ==
    /\ sup = "finishing" /\ sup' = "closing"
    /\ watchdog' = IF watchdog = "armed" THEN "over" ELSE watchdog
    /\ UNCHANGED <<files, release, launcher, report, aborted, group, exit>>

ClosesRecord ==
    /\ sup = "closing"
    /\ group' = IF group = "running" /\ (aborted \/ code # "ok") THEN "stopped" ELSE group
    /\ IF job THEN record' = "final" /\ done' = "empty" /\ sup' = "done" /\ UNCHANGED failed
              ELSE sup' = "gone" /\ failed' = job /\ UNCHANGED <<record, done>>
    /\ UNCHANGED <<job, claimed, ready, timedout, code, release, launcher, report, aborted, exit, watchdog>>

WritesDone ==
    /\ sup = "done" /\ done' = "full" /\ sup' = "gone"
    /\ UNCHANGED <<job, record, claimed, ready, timedout, failed, code, release, launcher, report, aborted, group, exit, watchdog>>

(* The supervisor dies abruptly.                                             *)
SupervisorDies ==
    /\ Alive /\ sup' = "dead"
    /\ UNCHANGED <<files, release, launcher, report, aborted, group, exit, watchdog>>

-----------------------------------------------------------------------------
(* The command's group starts once it holds the lifeline; the lifeline ends  *)
(* with the supervisor.                                                     *)
CommandStarts ==
    /\ group = "starting" /\ Alive
    /\ group' = "running"
    /\ UNCHANGED <<files, release, launcher, report, sup, aborted, exit, watchdog>>

CommandExits ==
    /\ group = "running" /\ group' = "ended"
    /\ exit' \in {"ok", "bad"}
    /\ UNCHANGED <<files, release, launcher, report, sup, aborted, watchdog>>

(* Mutant of LifelineEnds: a dead supervisor goes unnoticed. *)
LifelineEnds_Never == FALSE /\ UNCHANGED vars

LifelineEnds ==
    /\ group = "running" /\ sup \in {"gone", "dead"}
    /\ group' = "stopped"
    /\ UNCHANGED <<files, release, launcher, report, sup, aborted, exit, watchdog>>

(* The collector cannot store the output, or the updater the header.         *)
StorageFails ==
    /\ sup = "running" /\ ~failed
    /\ failed' = TRUE /\ aborted' = TRUE
    /\ UNCHANGED <<job, record, claimed, ready, timedout, done, code, release, launcher, report, sup, group, exit, watchdog>>

WatchdogFires ==
    /\ watchdog = "armed" /\ watchdog' = "over"
    /\ timedout' = job
    /\ aborted' = (aborted \/ Alive)
    /\ UNCHANGED <<job, record, claimed, ready, failed, done, code, release, launcher, report, sup, group, exit>>

Next ==
    \/ ReleaseChecks \/ ReleaseTakes \/ ReleaseRemoves
    \/ Launches \/ SeesReady \/ GivesUp \/ Fails \/ WindowEnds \/ SettleEnds \/ Decides \/ ReadsDone \/ HostStops
    \/ ChecksJob \/ WritesHeader \/ GroupReady \/ GroupFails \/ TrapStops \/ CommandOver
    \/ StopsHelpers \/ ClosesRecord \/ WritesDone \/ SupervisorDies
    \/ CommandStarts \/ CommandExits \/ LifelineEnds \/ StorageFails \/ WatchdogFires

(* Started processes run; nothing says the command ends, the host stops it,  *)
(* or the supervisor survives.                                              *)
Fairness ==
    /\ WF_vars(Fails) /\ WF_vars(TrapStops) /\ WF_vars(LifelineEnds)
    /\ WF_vars(ChecksJob) /\ WF_vars(WritesHeader) /\ WF_vars(GroupFails)
    /\ WF_vars(CommandOver) /\ WF_vars(StopsHelpers) /\ WF_vars(ClosesRecord) /\ WF_vars(WritesDone)

Spec == Init /\ [][Next]_vars /\ Fairness

-----------------------------------------------------------------------------
(* What the launcher reports is so: an exit status is the one the record     *)
(* keeps, unless the supervisor died over it; a timeout was one; a released  *)
(* job never ran. A reservation is removed only if no supervisor may use it. *)
ReportTruthful ==
    /\ (report.is = "exit" /\ sup # "dead") => report.code = code
    /\ report.is = "timeout" => timedout
    /\ report.is = "released" => group = "off"
    /\ (claimed = "release" /\ launcher \notin {"failing", "over"}) => sup = "off"

(* A command that timed out, that the host stopped, whose start was reported *)
(* failed or whose supervisor died does not run on.                          *)
StoppedForGood ==
    (timedout \/ report.is \in {"killed", "failed"} \/ sup = "dead") ~> (group # "running")
=============================================================================
