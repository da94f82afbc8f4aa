------------------------------ MODULE Schedules -----------------------------
(***************************************************************************)
(* Scheduled notes (schedule/scheduler.ts, cron.ts and the runs of app.ts): *)
(* a tick a minute launches what is due in a fresh pane, records the run as *)
(* "running" on the note, and from then on watches the pane and closes it.  *)
(* Browsers edit, pause and remove the schedule and run it by hand; they    *)
(* delete the note and take that back (notes/service.ts); writing the note   *)
(* may fail, and the server restarts at any moment.                        *)
(*                                                                         *)
(* One note, which a tick reads and considers in one step; the clock counts *)
(* the instants its cron expression can name.  A managed pane is named by   *)
(* the instant it was launched for.                                        *)
(***************************************************************************)
EXTENDS Naturals, FiniteSets

CONSTANTS
  MaxMinute,       \* bound on the clock
  CronInstants,    \* when the note's schedule fires
  MaxScheduleEdits, MaxRunsNow, MaxReboots, MaxLostRecords, MaxUndone,   \* bounds
  NoRun

ASSUME SchedulesAssumption == MaxMinute \in Nat /\ CronInstants \subseteq 1..MaxMinute

Instants == 0..MaxMinute

VARIABLES
  minute,
  schedule,        \* on the note: whether there is one, enabled, its last
                   \* change and last run (durable)
  deletion,        \* the schedule of the deleted note, while that can be taken back
  bootAt,
  dispatched,      \* the instant this process has tried last
  tick,            \* the tick or the run by hand in progress
  runPane,         \* what became of the pane launched for an instant
  launches,        \* history: unattended launches of an instant
  counts           \* edits, runs by hand, reboots, lost records, deletions undone

schedules == <<minute, schedule, deletion, bootAt, dispatched, tick, runPane, launches, counts>>

NoTick == [at |-> "idle", due |-> 0, record |-> NoRun]
Runs == [at : Instants, status : {"running", "over"}]
ASSUME NoRunAssumption == NoRun \notin Runs
NoteSchedules == [present : BOOLEAN, enabled : BOOLEAN, updatedAt : Instants, lastRun : Runs \union {NoRun}]

SchedulesTypeOK ==
  /\ minute \in Instants /\ bootAt \in Instants /\ dispatched \in Instants
  /\ schedule \in NoteSchedules /\ deletion \in NoteSchedules \union {NoRun}
  /\ tick \in [at : {"idle", "dispatch", "launch", "record", "reconcile", "now"},
               due : Instants, record : Runs \union {NoRun}]
  /\ runPane \in [CronInstants -> {"none", "working", "finished", "closed"}]

SchedulesInit ==
  /\ minute = 0 /\ bootAt = 0 /\ dispatched = 0
  /\ schedule = [present |-> TRUE, enabled |-> TRUE, updatedAt |-> 0, lastRun |-> NoRun]
  /\ deletion = NoRun /\ tick = NoTick
  /\ runPane = [i \in CronInstants |-> "none"]
  /\ launches = [i \in CronInstants |-> 0]
  /\ counts = [edits |-> 0, now |-> 0, boots |-> 0, lost |-> 0, undone |-> 0]

Count(what, max) == counts[what] < max /\ counts' = [counts EXCEPT ![what] = @ + 1]

Later(a, b) == IF a > b THEN a ELSE b
\* Mutant: a server that starts catches up on what it missed.
Anchor_NoBoot ==
  IF schedule.lastRun = NoRun THEN schedule.updatedAt
  ELSE Later(schedule.updatedAt, schedule.lastRun.at)
\* scheduleAnchor
Anchor ==
  LET changed == Later(schedule.updatedAt, bootAt) IN
  IF schedule.lastRun = NoRun THEN changed ELSE Later(changed, schedule.lastRun.at)

\* dueInstant: a backlog collapses into the latest instant.
Due == {i \in CronInstants : Anchor < i /\ i <= minute}
DueInstant == CHOOSE i \in Due : \A j \in Due : j <= i

MinutePasses ==
  /\ minute < MaxMinute /\ minute' = minute + 1
  /\ UNCHANGED <<schedule, deletion, bootAt, dispatched, tick, runPane, launches, counts>>

RunInFlight == schedule.lastRun # NoRun /\ schedule.lastRun.status = "running"

Fresh(due) == dispatched # due

\* tick(): reconcile a run in flight, or else dispatch a due one.
Tick ==
  /\ tick.at = "idle" /\ schedule.present
  /\ IF RunInFlight
     THEN tick' = [NoTick EXCEPT !.at = "reconcile"] /\ UNCHANGED dispatched
     ELSE /\ schedule.enabled /\ Due # {} /\ Fresh(DueInstant)
          /\ dispatched' = DueInstant
          /\ tick' = [NoTick EXCEPT !.at = "dispatch", !.due = DueInstant]
  /\ UNCHANGED <<minute, schedule, deletion, bootAt, runPane, launches, counts>>

\* recordedScheduleRun: the note is read again once its flight is claimed.
DispatchRun ==
  /\ tick.at = "dispatch"
  /\ tick' = IF schedule.present THEN [tick EXCEPT !.at = "launch"] ELSE NoTick
  /\ UNCHANGED <<minute, schedule, deletion, bootAt, dispatched, runPane, launches, counts>>

Recording(at, status) == [tick EXCEPT !.at = "record", !.record = [at |-> at, status |-> status]]
LaunchRun ==
  /\ tick.at = "launch"
  /\ \/ /\ runPane' = [runPane EXCEPT ![tick.due] = "working"]
        /\ launches' = [launches EXCEPT ![tick.due] = @ + 1]
        /\ tick' = Recording(tick.due, "running")
     \/ /\ tick' = Recording(tick.due, "over")           \* skipped or failed
        /\ UNCHANGED <<runPane, launches>>
  /\ UNCHANGED <<minute, schedule, deletion, bootAt, dispatched, counts>>

\* recordLastRun; a schedule that was removed meanwhile takes no record.
RecordRun ==
  /\ tick.at \in {"record", "now"}
  /\ schedule' = IF schedule.present THEN [schedule EXCEPT !.lastRun = tick.record] ELSE schedule
  /\ tick' = NoTick
  /\ UNCHANGED <<minute, deletion, bootAt, dispatched, runPane, launches, counts>>
RecordIsLost ==
  /\ tick.at \in {"record", "now"} /\ Count("lost", MaxLostRecords)
  /\ tick' = NoTick
  /\ UNCHANGED <<minute, schedule, deletion, bootAt, dispatched, runPane, launches>>

(* reconcileScheduleRun: nothing while the pane works, up to a limit; a pane *)
(* that finished, asks or works too long is closed, and one that cannot be   *)
(* found or closed counts as over all the same.  The first look that finds   *)
(* it working is recorded too, on whatever the schedule is by then.         *)
Reconcile ==
  /\ tick.at = "reconcile"
  /\ IF ~schedule.present \/ ~RunInFlight
     THEN tick' = NoTick /\ UNCHANGED runPane
     ELSE LET p == schedule.lastRun.at IN
          \/ tick' = NoTick /\ UNCHANGED runPane
          \/ /\ p \in CronInstants /\ runPane[p] = "working"
             /\ tick' = Recording(p, "running") /\ UNCHANGED runPane
          \/ /\ runPane' \in {runPane, [runPane EXCEPT ![p] = "closed"]}
             /\ tick' = Recording(p, "over")
  /\ UNCHANGED <<minute, schedule, deletion, bootAt, dispatched, launches, counts>>

PaneFinishes ==
  /\ \E i \in CronInstants : /\ runPane[i] = "working"
                             /\ runPane' = [runPane EXCEPT ![i] = "finished"]
  /\ UNCHANGED <<minute, schedule, deletion, bootAt, dispatched, tick, launches, counts>>

(* Run now may take the flight guard before the tick's work does, which then *)
(* ends; its own pane is of no concern here.  It replaces the last run,     *)
(* whatever that was.                                                       *)
RunNow ==
  /\ tick.at \in {"idle", "dispatch", "reconcile"}
  /\ schedule.present /\ Count("now", MaxRunsNow)
  /\ tick' = [NoTick EXCEPT !.at = "now", !.record = [at |-> minute, status |-> "over"]]
  /\ UNCHANGED <<minute, schedule, deletion, bootAt, dispatched, runPane, launches>>

\* A tick that meets a run by hand gives the due instant up.
TickMeetsRun ==
  /\ tick.at = "now" /\ schedule.present /\ ~RunInFlight /\ schedule.enabled
  /\ Due # {} /\ Fresh(DueInstant) /\ dispatched' = DueInstant
  /\ UNCHANGED <<minute, schedule, deletion, bootAt, tick, runPane, launches, counts>>

\* setSchedule: create, edit, pause and resume store a schedule without runs.
SetSchedule(enabled) ==
  /\ deletion = NoRun /\ Count("edits", MaxScheduleEdits)
  /\ schedule' = [present |-> TRUE, enabled |-> enabled, updatedAt |-> minute, lastRun |-> NoRun]
  /\ UNCHANGED <<minute, deletion, bootAt, dispatched, tick, runPane, launches>>
RemoveSchedule ==
  /\ schedule.present /\ Count("edits", MaxScheduleEdits)
  /\ schedule' = [schedule EXCEPT !.present = FALSE, !.lastRun = NoRun]
  /\ UNCHANGED <<minute, deletion, bootAt, dispatched, tick, runPane, launches>>

\* deleteNoteWithUndo: refused while a run of the note is in flight.
DeleteNote ==
  /\ tick.at \in {"idle", "dispatch", "reconcile"}
  /\ schedule.present /\ deletion = NoRun /\ deletion' = schedule
  /\ schedule' = [schedule EXCEPT !.present = FALSE, !.lastRun = NoRun]
  /\ UNCHANGED <<minute, bootAt, dispatched, tick, runPane, launches, counts>>
\* undoDeletion: the note is what it was, its last change and last run included.
UndoDeletion ==
  /\ deletion # NoRun /\ Count("undone", MaxUndone)
  /\ schedule' = deletion /\ deletion' = NoRun
  /\ UNCHANGED <<minute, bootAt, dispatched, tick, runPane, launches>>
\* trimDeletions: too late; what is scheduled next is another note.
DeletionIsFinal ==
  /\ deletion # NoRun /\ deletion' = NoRun
  /\ UNCHANGED <<minute, schedule, bootAt, dispatched, tick, runPane, launches, counts>>
\* The next tick forgets what it dispatched for a note without a schedule.
ForgetDispatched ==
  /\ tick.at = "idle" /\ ~schedule.present /\ dispatched' = 0
  /\ UNCHANGED <<minute, schedule, deletion, bootAt, tick, runPane, launches, counts>>

\* The server restarts; panes outlive it, and no deletion can be taken back.
Reboot ==
  /\ Count("boots", MaxReboots)
  /\ bootAt' = minute /\ dispatched' = 0 /\ tick' = NoTick /\ deletion' = NoRun
  /\ UNCHANGED <<minute, schedule, runPane, launches>>

SchedulesNext ==
  \/ MinutePasses \/ Tick \/ DispatchRun \/ LaunchRun \/ RecordRun \/ RecordIsLost
  \/ Reconcile \/ PaneFinishes \/ RunNow \/ TickMeetsRun \/ RemoveSchedule \/ ForgetDispatched \/ Reboot
  \/ DeleteNote \/ UndoDeletion \/ DeletionIsFinal
  \/ \E enabled \in BOOLEAN : SetSchedule(enabled)

SchedulesAlone == SchedulesInit /\ [][SchedulesNext]_schedules

(* ------------------------------ properties ------------------------------- *)

(* The scheduler never launches a run twice for the same instant: not when   *)
(* its record is lost, the server restarts before or after the record, the   *)
(* schedule is edited, paused, resumed, removed and set again, a run by hand *)
(* replaces the last run, or the note is deleted and restored as it was.     *)
(* One case is left out, where the code does launch again: a run whose       *)
(* record was lost is known to this process only, and a tick while the note  *)
(* is deleted makes it forget.                                              *)
EachInstantOnce == counts.lost = 0 \/ counts.undone = 0 => \A i \in CronInstants : launches[i] <= 1

(* scheduler.ts: a run in flight is reconciled even if its schedule was      *)
(* paused or edited since, so that one managed run is alive at a time.       *)
(* Expected to fail: an edit or a run by hand takes the record of it away.   *)
OneManagedRun == Cardinality({i \in CronInstants : runPane[i] \in {"working", "finished"}}) <= 1
=============================================================================
