------------------------------ MODULE LoadTest ------------------------------
(***************************************************************************)
(* A load test that the admin service starts and stops and the mock-client *)
(* process carries out.  They share two files: the test document, which    *)
(* only the admin service writes (internal/admin/store.go, changeTest),    *)
(* and the run status, which only the supervisor of the mock-client writes *)
(* (internal/mock/client/managed.go).  The mock-client sees the document   *)
(* through its Reloader (internal/mock/client/config.go).  Either process  *)
(* may be late, and the mock-client may crash and be restarted.            *)
(*                                                                         *)
(* The supervisor's loop:  loop -advance-> write -> wait -> loop           *)
(***************************************************************************)
EXTENDS Naturals

CONSTANTS
    Admins,         \* browser sessions of the admin page
    MaxVersion,     \* bound on the changes of the document
    MaxRun,         \* bound on the runs issued
    MaxCrashes      \* bound on crashes, failed writes and signals

ASSUME LoadTestAssumption ==
    MaxVersion \in Nat /\ MaxRun \in Nat /\ MaxCrashes \in Nat

VARIABLES
    doc,        \* mock-client document on disk
    form,       \* the revision each admin session loaded last
    issued,     \* the run IDs drawn so far are 1..issued
    cache,      \* Reloader.current
    status,     \* the run status on disk
    fresh,      \* its updated_at is no older than 10 seconds
    pc,         \* the supervisor
    mem,        \* runSupervisor.status
    active,     \* runSupervisor.active: run and stopping flag
    live,       \* the run goroutines that have not returned
    done,       \* the channel of the active run
    started,    \* history: how often each run was started
    persisted,  \* history: the run IDs that have been in the status file
    crashes

vars == <<doc, form, issued, cache, status, fresh, pc, mem, active, live, done,
          started, persisted, crashes>>

adminVars == <<doc, form, issued>>

supervisorVars == <<cache, status, fresh, pc, mem, active, live, done,
                    started, persisted, crashes>>

Runs == 1..MaxRun

NoRun == 0

Documents == [enabled: BOOLEAN, run: 0..MaxRun, version: 0..MaxVersion]

States == {"idle", "running", "stopping", "completed", "failed", "stopped",
           "interrupted"}

Statuses == [run: 0..MaxRun, state: States]

Idle == [run |-> NoRun, stopping |-> FALSE]

Init ==
    /\ doc = [enabled |-> FALSE, run |-> NoRun, version |-> 0]
    /\ form = [a \in Admins |-> 0]
    /\ issued = 0
    /\ cache = doc
    /\ status = [run |-> NoRun, state |-> "idle"]
    /\ fresh = FALSE
    /\ pc = "down"
    /\ mem = status
    /\ active = Idle
    /\ live = {}
    /\ done = "none"
    /\ started = [x \in Runs |-> 0]
    /\ persisted = {}
    /\ crashes = 0

-----------------------------------------------------------------------------
(* The admin service.  changeTest holds the store's mutex, so it is one     *)
(* step; the revision in the form is what another session may have changed. *)

\* testStatus: what the supervisor wrote, corrected by the document.
testStatus ==
    IF ~fresh THEN "unavailable"
    ELSE IF doc.enabled /\ doc.run # status.run THEN "pending"
    ELSE IF ~doc.enabled /\ status.state = "running" THEN "stopping"
    ELSE status.state

TestSnapshot(a) ==
    /\ form' = [form EXCEPT ![a] = doc.version]
    /\ UNCHANGED <<doc, issued, supervisorVars>>

\* The form was loaded from the document as it is now.
matchRevision(a) == form[a] = doc.version

\* Every accepted change draws a new version.
Change(a, new) ==
    /\ matchRevision(a)
    /\ doc.version < MaxVersion
    /\ doc' = [new EXCEPT !.version = doc.version + 1]
    /\ UNCHANGED <<form, supervisorVars>>

\* UpdateTest: enabled flag and run ID are the server's, not the form's.
UpdateTest(a) == Change(a, doc) /\ UNCHANGED issued

StartTest(a) ==
    /\ testStatus \notin {"running", "pending", "stopping"}
    /\ issued < MaxRun
    /\ issued' = issued + 1
    /\ Change(a, [doc EXCEPT !.enabled = TRUE, !.run = issued + 1])

StopTest(a) ==
    /\ Change(a, [doc EXCEPT !.enabled = FALSE])
    /\ UNCHANGED issued

\* A key rotation of the tested system rewrites the document, form or no form.
syncMockAPIKey ==
    /\ doc.version < MaxVersion
    /\ doc' = [doc EXCEPT !.version = doc.version + 1]
    /\ UNCHANGED <<form, issued, supervisorVars>>

\* Ten seconds pass without a new status.
Age ==
    /\ fresh
    /\ fresh' = FALSE
    /\ UNCHANGED <<adminVars, cache, status, pc, mem, active, live, done,
                   started, persisted, crashes>>

-----------------------------------------------------------------------------
(* The mock-client process *)

Up == pc # "down"

\* Reloader.Watch: a read of the document while the process is up.
Reload ==
    /\ Up
    /\ cache # doc
    /\ cache' = doc
    /\ UNCHANGED <<adminVars, status, fresh, pc, mem, active, live, done,
                   started, persisted, crashes>>

\* The goroutine of a run returns: finished, failed or cancelled.
RunEnds(x) ==
    /\ x \in live
    /\ live' = live \ {x}
    /\ \E result \in {"ok", "failed"} :
          done' = IF active.run = x THEN result ELSE done
    /\ UNCHANGED <<adminVars, cache, status, fresh, pc, mem, active,
                   started, persisted, crashes>>

\* collect: the state after a run that has returned.
Collected ==
    IF active.run = NoRun \/ done = "none" THEN mem
    ELSE [mem EXCEPT !.state = IF active.stopping THEN "stopped"
                               ELSE IF done = "failed" THEN "failed"
                               ELSE "completed"]

StillActive == active.run # NoRun /\ done = "none"

\* Mutant: the run that is told to stop is forgotten at once.
advanceForgetsRun ==
    /\ pc = "loop"
    /\ pc' = "write"
    /\ IF StillActive
       THEN /\ active' = IF ~cache.enabled \/ cache.run # mem.run
                         THEN Idle ELSE active
            /\ mem' = IF ~cache.enabled \/ cache.run # mem.run
                      THEN [mem EXCEPT !.state = "stopped"] ELSE mem
            /\ UNCHANGED <<live, done, started>>
       ELSE IF ~cache.enabled \/ cache.run \in {NoRun, mem.run}
       THEN /\ mem' = Collected
            /\ active' = Idle
            /\ done' = "none"
            /\ UNCHANGED <<live, started>>
       ELSE /\ mem' = [run |-> cache.run, state |-> "running"]
            /\ active' = [run |-> cache.run, stopping |-> FALSE]
            /\ live' = live \cup {cache.run}
            /\ done' = "none"
            /\ started' = [started EXCEPT ![cache.run] = @ + 1]
    /\ UNCHANGED <<adminVars, cache, status, fresh, persisted, crashes>>

\* Mutant: a run that is not wanted any more is left alone.
advanceNeverStops ==
    /\ pc = "loop"
    /\ pc' = "write"
    /\ IF StillActive
       THEN UNCHANGED <<mem, active, live, done, started>>
       ELSE IF ~cache.enabled \/ cache.run \in {NoRun, mem.run}
       THEN /\ mem' = Collected
            /\ active' = Idle
            /\ done' = "none"
            /\ UNCHANGED <<live, started>>
       ELSE /\ mem' = [run |-> cache.run, state |-> "running"]
            /\ active' = [run |-> cache.run, stopping |-> FALSE]
            /\ live' = live \cup {cache.run}
            /\ done' = "none"
            /\ started' = [started EXCEPT ![cache.run] = @ + 1]
    /\ UNCHANGED <<adminVars, cache, status, fresh, persisted, crashes>>

\* advance: collect, then stop what is no longer wanted, or start what is new.
advance ==
    /\ pc = "loop"
    /\ pc' = "write"
    /\ IF StillActive
       THEN /\ IF ~cache.enabled \/ cache.run # mem.run
               THEN /\ active' = [active EXCEPT !.stopping = TRUE]
                    /\ mem' = [mem EXCEPT !.state = "stopping"]
               ELSE UNCHANGED <<active, mem>>
            /\ UNCHANGED <<live, done, started>>
       ELSE IF ~cache.enabled \/ cache.run \in {NoRun, mem.run}
       THEN /\ mem' = Collected
            /\ active' = Idle
            /\ done' = "none"
            /\ UNCHANGED <<live, started>>
       ELSE /\ mem' = [run |-> cache.run, state |-> "running"]
            /\ active' = [run |-> cache.run, stopping |-> FALSE]
            /\ live' = live \cup {cache.run}
            /\ done' = "none"
            /\ started' = [started EXCEPT ![cache.run] = @ + 1]
    /\ UNCHANGED <<adminVars, cache, status, fresh, persisted, crashes>>

\* WriteRunStatus renames a complete file into place.
WriteRunStatus ==
    /\ pc = "write"
    /\ status' = mem
    /\ fresh' = TRUE
    /\ persisted' = persisted \cup ({mem.run} \ {NoRun})
    /\ pc' = "wait"
    /\ UNCHANGED <<adminVars, cache, mem, active, live, done, started, crashes>>

NextTick ==
    /\ pc = "wait"
    /\ pc' = "loop"
    /\ UNCHANGED <<adminVars, cache, status, fresh, mem, active, live, done,
                   started, persisted, crashes>>

\* The status could not be written, or the process was told to end.
Leave ==
    /\ pc \in {"write", "wait"}
    /\ crashes < MaxCrashes
    /\ crashes' = crashes + 1
    /\ pc' = "exit"
    /\ UNCHANGED <<adminVars, cache, status, fresh, mem, active, live, done,
                   started, persisted>>

\* stop: the deferred call waits for the active run.
Stopped ==
    /\ pc = "exit"
    /\ ~StillActive
    /\ pc' = "down"
    /\ live' = {}
    /\ active' = Idle
    /\ done' = "none"
    /\ UNCHANGED <<adminVars, cache, status, fresh, mem, started, persisted, crashes>>

Crash ==
    /\ Up
    /\ crashes < MaxCrashes
    /\ crashes' = crashes + 1
    /\ pc' = "down"
    /\ live' = {}
    /\ active' = Idle
    /\ done' = "none"
    /\ UNCHANGED <<adminVars, cache, status, fresh, mem, started, persisted>>

\* Mutant: the status file of the previous process is not read.
SuperviseAfresh ==
    /\ pc = "down"
    /\ cache' = doc
    /\ mem' = [run |-> NoRun, state |-> "idle"]
    /\ pc' = "loop"
    /\ UNCHANGED <<adminVars, status, fresh, active, live, done, started,
                   persisted, crashes>>

\* Mutant: the run named by the document is taken for an interrupted one.
SuperviseAdoptsDocument ==
    /\ pc = "down"
    /\ cache' = doc
    /\ mem' = [run   |-> doc.run,
               state |-> IF doc.run = NoRun THEN "idle" ELSE "interrupted"]
    /\ pc' = "loop"
    /\ UNCHANGED <<adminVars, status, fresh, active, live, done, started,
                   persisted, crashes>>

\* NewReloader, then the start of Supervise.
Supervise ==
    /\ pc = "down"
    /\ cache' = doc
    /\ mem' = [run   |-> status.run,
               state |-> IF status.run = NoRun THEN "idle" ELSE "interrupted"]
    /\ pc' = "loop"
    /\ UNCHANGED <<adminVars, status, fresh, active, live, done, started,
                   persisted, crashes>>

SupervisorStep ==
    \/ advance
    \/ WriteRunStatus
    \/ NextTick
    \/ Stopped
    \/ Supervise

\* The handlers of the admin page.
AdminRequest ==
    \E a \in Admins : TestSnapshot(a) \/ UpdateTest(a) \/ StartTest(a) \/ StopTest(a)

Next ==
    \/ AdminRequest
    \/ syncMockAPIKey
    \/ Age
    \/ Reload
    \/ \E x \in Runs : RunEnds(x)
    \/ Leave
    \/ Crash
    \/ SupervisorStep

Spec == Init /\ [][Next]_vars

\* The supervisor's ticker and the Reloader's poll keep running, a crashed
\* process is restarted, and a cancelled run returns: every request of a run
\* ends with its context.  A run nobody cancels may go on for ever.
Cancelled(x) == x \in live /\ (pc = "exit" \/ (active.run = x /\ active.stopping))

Fairness ==
    /\ WF_vars(SupervisorStep)
    /\ WF_vars(Reload)
    /\ \A x \in Runs : WF_vars(Cancelled(x) /\ RunEnds(x))

FairSpec == Spec /\ Fairness

-----------------------------------------------------------------------------
(* Properties *)

TypeOK ==
    /\ doc \in Documents
    /\ form \in [Admins -> 0..MaxVersion]
    /\ issued \in 0..MaxRun
    /\ cache \in Documents
    /\ status \in Statuses
    /\ fresh \in BOOLEAN
    /\ pc \in {"down", "loop", "write", "wait", "exit"}
    /\ mem \in Statuses
    /\ active \in [run: 0..MaxRun, stopping: BOOLEAN]
    /\ live \subseteq Runs
    /\ done \in {"none", "ok", "failed"}
    /\ started \in [Runs -> Nat]
    /\ persisted \subseteq Runs
    /\ crashes \in 0..MaxCrashes

\* The process never drives two runs at once, although the document may name
\* the next one long before the previous one has drained.
OneRunAtATime == \A x, y \in live : x = y

\* The status file never reports a run as over while it still sends requests:
\* it is what StartTest relies on to refuse a second run.
StatusTellsTheTruth ==
    status.run \in live => status.state \in {"running", "stopping"}

\* What no step may do: start a run whose ID has been in the status file.
StartsOnlyNew == \A x \in persisted : started'[x] = started[x]

\* A run whose ID has reached the status file is never started again, neither
\* by a restart of the process nor by a late read of the document.
PersistedNeverReplayed == [][StartsOnlyNew]_vars

\* The only goroutine is that of the active run, until it has returned.
LiveInv ==
    /\ live = IF StillActive THEN {active.run} ELSE {}
    /\ pc = "down" => active = Idle

\* What the supervisor says of the active run, in memory and on disk.
StatusInv ==
    StillActive =>
        /\ mem.run = active.run
        /\ mem.state \in {"running", "stopping"}
        /\ status.run = active.run => status.state \in {"running", "stopping"}

\* Run IDs are recorded, known to the supervisor, cached and issued in this
\* order, and the supervisor advances only from a recorded status.
OrderInv ==
    /\ persisted \subseteq 1..status.run
    /\ pc \in {"loop", "wait"} => mem.run = status.run
    /\ Up => status.run <= mem.run /\ mem.run <= cache.run
    /\ status.run <= cache.run
    /\ cache.run <= doc.run
    /\ doc.run = issued

\* The inductive invariant.
IInv == TypeOK /\ LiveInv /\ StatusInv /\ OrderInv

\* A test that is stopped and left alone ends, also when the stop arrives
\* before the start was noticed and whatever the process was doing.
StopTakesEffect == ~doc.enabled ~> live = {} \/ doc.enabled

\* A test that was started is run, unless it is stopped or replaced first.
StartTakesEffect ==
    \A x \in Runs :
        doc.enabled /\ doc.run = x ~> started[x] > 0 \/ ~doc.enabled \/ doc.run # x

\* managed.go: "starts one fresh run per ID."
OneRunPerID == \A x \in Runs : started[x] <= 1
=============================================================================
