--------------------------- MODULE SettingsApplier --------------------------
(***************************************************************************)
(* The host helper that changes settings files and restarts the console    *)
(* (scripts/settings/queue.mjs, operations.mjs).  The console and the host *)
(* recovery command put requests into a queue directory; one helper at a   *)
(* time claims and processes them.  A commit writes several files under a  *)
(* journal; a restart replaces the server, proves what it runs and seals   *)
(* that as the recovery baseline, or puts the baseline's bytes into the    *)
(* files, restarts with those and puts the saved bytes back.               *)
(*                                                                         *)
(* One target (rac) that consumes every source; a commit's candidate is    *)
(* named by its request.  Everything is on disk but `helper`, the memory   *)
(* of the running helper, and `rac`, what the running server has read.     *)
(* systemd starts both again after a failure and when the host boots; the  *)
(* server then reads the files as they are.  Programs that edit a file do  *)
(* so between any two steps, and a write may fail.                         *)
(***************************************************************************)
EXTENDS Naturals, FiniteSets

CONSTANTS
  Sources,         \* settings files
  Order,           \* their order in a request, a number for each
  Touchable,       \* the sets of sources that a commit may change
  MaxRequests,     \* bound on the requests; number n is also what commit n writes
  Edits,           \* what an editor on the host may put into a file, once each
  Original,        \* the bytes of every file at first
  MaxMishaps,      \* bound on edits, stops of the helper, starts of the server by
                   \* the system and failing writes of a status, together
  Absent

Requests == 1..MaxRequests
Contents == {Original} \union Requests \union Edits

\* An editor writes bytes of its own.
ASSUME SettingsAssumption ==
  /\ Order \in [Sources -> Nat]
  /\ Touchable \subseteq SUBSET Sources
  /\ MaxRequests \in Nat /\ MaxMishaps \in Nat
  /\ Absent \notin Contents
  /\ Edits \intersect ({Original} \union Requests) = {}

VARIABLES
  file,            \* the bytes of each source
  asked,           \* the requests
  place,           \* in which directory a request is
  status,          \* status/<id>.json: state and restart progress
  journal,         \* journal/<id>.json of a commit
  helper,          \* what the running helper is doing
  rac,             \* what the server read when it started, or Absent: it is down
  baseline,        \* recovery/effective-rac.json, or Absent
  saved,           \* history: what the owner last put into each source
  proved,          \* history: the settings a boot proof has accepted
  lost,            \* history: sources whose saved bytes the code gave up, below
  starter,         \* history: who last changed which server runs: "helper" or "system"
  silent,          \* history: requests whose outcome could not be written
  mishaps, edited

server == <<rac, starter>>
outside == <<silent, mishaps, edited>>
settings == <<file, asked, place, status, journal, helper, server, baseline,
              saved, proved, lost, outside>>

Graphs == [Sources -> Contents]
Nothing == [s \in Sources |-> Absent]
NoWrite == [source |-> Absent, bytes |-> Absent, was |-> Absent, back |-> "idle"]
Idle == [at |-> "idle", request |-> Absent, todo |-> {}, held |-> Nothing,
         write |-> NoWrite, result |-> "complete", crossed |-> FALSE,
         recovered |-> TRUE, told |-> "none"]

Stages == {"idle", "claim", "resume", "check", "baseline", "prepare", "write", "undo",
           "replace", "boundary", "restart", "prove", "capture", "receipt", "swap",
           "rerun", "reprove", "unswap", "report", "remove"}

SettingsTypeOK ==
  /\ file \in Graphs /\ saved \in Graphs
  /\ rac \in Graphs \union {Absent} /\ baseline \in Graphs \union {Absent}
  /\ \A r \in Requests :
       /\ place[r] \in {"none", "queued", "claimed", "done"}
       /\ status[r].state \in {"new", "running", "complete", "failed"}
       /\ status[r].restart \in {"none", "restarting", "restarted", "recovering",
                                 "recovered", "recovery-failed"}
       /\ journal[r].phase \in {"none", "prepared", "committing", "complete", "rolled-back"}
       /\ journal[r].written \subseteq Sources
       /\ place[r] = "none" \/ asked[r] \in
            [kind : {"commit", "restart", "recover"}, touched : SUBSET Sources, expected : Graphs]
  /\ helper.at \in Stages /\ helper.todo \subseteq Sources
  /\ helper.at # "idle" => place[helper.request] = "claimed"
  /\ helper.held \in [Sources -> Contents \union {Absent}]
  /\ lost \subseteq Sources /\ silent \subseteq Requests /\ starter \in {"helper", "system"}

SettingsInit ==
  /\ file = [s \in Sources |-> Original]
  /\ asked = [r \in Requests |-> Absent]
  /\ place = [r \in Requests |-> "none"]
  /\ status = [r \in Requests |-> [state |-> "new", restart |-> "none"]]
  /\ journal = [r \in Requests |-> [phase |-> "none", written |-> {}]]
  /\ helper = Idle
  /\ rac = file /\ baseline = Absent
  /\ saved = file /\ proved = {file} /\ lost = {} /\ starter = "system" /\ silent = {}
  /\ mishaps = 0 /\ edited = {}

(* -------------------------- around the helper --------------------------- *)

\* The console or the recovery command stages a request and publishes it.
Ask(r, kind, touched) ==
  /\ place[r] = "none" /\ (r > 1 => place[r - 1] # "none")
  /\ touched \in IF kind = "commit" THEN Touchable ELSE {Sources}
  /\ asked' = [asked EXCEPT ![r] = [kind |-> kind, touched |-> touched, expected |-> file]]
  /\ place' = [place EXCEPT ![r] = "queued"]
  /\ UNCHANGED <<file, status, journal, helper, server, baseline, saved, proved, lost,
                 outside>>

Mishap == mishaps < MaxMishaps /\ mishaps' = mishaps + 1

\* Somebody saves a source by other means.
EditSource(s, e) ==
  /\ e \notin edited /\ Mishap
  /\ file' = [file EXCEPT ![s] = e] /\ saved' = [saved EXCEPT ![s] = e]
  /\ edited' = edited \union {e} /\ lost' = lost \ {s}
  /\ UNCHANGED <<asked, place, status, journal, helper, server, baseline, proved, silent>>

(* The helper is killed, by its unit's time limit or with the host: a boot   *)
(* of the host is this step and `ServerStarts`.  Bytes that recovery has     *)
(* taken out of the files are in its memory only.                            *)
HelperStops ==
  /\ helper.at # "idle" /\ Mishap
  /\ helper' = Idle
  /\ lost' = lost \union {s \in Sources : helper.held[s] # Absent /\ file[s] # saved[s]}
  /\ UNCHANGED <<file, asked, place, status, journal, server, baseline, saved, proved, silent, edited>>

(* systemd starts the server, because the host boots or the server failed    *)
(* (Restart=on-failure).  It reads the files as they are, whatever is proved *)
(* about them, and there is no request that could say so.                    *)
ServerStarts ==
  /\ Mishap
  /\ rac' = file /\ starter' = "system"
  /\ UNCHANGED <<file, asked, place, status, journal, helper, baseline, saved, proved, lost,
                 silent, edited>>

(* ------------------------------ the queue ------------------------------- *)

claimed == {r \in Requests : place[r] = "claimed"}
serving == helper.request
want == asked[serving].expected

\* Mutant: only the queue is looked at, and a claim outlives its helper.
Eligible_QueueOnly(r) == claimed = {} /\ place[r] = "queued"
\* drainQueue: old claims first, then a queued request is moved over.
Eligible(r) == r \in claimed \/ (claimed = {} /\ place[r] = "queued")
Claim(r) ==
  /\ helper.at = "idle" /\ Eligible(r)
  /\ place' = [place EXCEPT ![r] = "claimed"]
  /\ helper' = [Idle EXCEPT !.at = "claim", !.request = r]
  /\ UNCHANGED <<file, asked, status, journal, server, baseline, saved, proved, lost,
                 outside>>

OnlyHelper == UNCHANGED <<file, asked, place, status, journal, server, baseline, saved,
                          proved, lost, outside>>
GoTo(stage) == helper' = [helper EXCEPT !.at = stage] /\ OnlyHelper
Fails == helper' = [helper EXCEPT !.at = "report", !.result = "failed"] /\ OnlyHelper
Terminal(r) == status[r].state \in {"complete", "failed"}

\* A status is written, or the write fails, with or without having taken place.
Put(r, new) == status' = [status EXCEPT ![r] = new]
PutWorks(r, new) == Put(r, new) /\ UNCHANGED mishaps
PutFails(r, new) == Mishap /\ (Put(r, new) \/ UNCHANGED status)
OnlyStatus == UNCHANGED <<file, asked, place, journal, server, baseline, saved, proved, lost,
                          silent, edited>>

(* processClaim: a request with an outcome is only cleared away.  What the   *)
(* status says of a restart is remembered, `told`, for the writes to come.   *)
Process ==
  LET running == [state |-> "running", restart |-> status[serving].restart]
      taken   == [helper EXCEPT !.told = status[serving].restart] IN
  /\ helper.at = "claim"
  /\ \/ Terminal(serving) /\ GoTo("remove")
     \/ /\ ~Terminal(serving) /\ PutWorks(serving, running)
        /\ helper' = [taken EXCEPT
             !.at = CASE asked[serving].kind = "commit"  -> "resume"
                      [] asked[serving].kind = "restart" -> "check"
                      [] OTHER -> "swap",
             !.todo = IF asked[serving].kind = "recover" THEN Sources ELSE {}]
        /\ OnlyStatus
     \/ /\ ~Terminal(serving) /\ PutFails(serving, running)
        /\ helper' = [taken EXCEPT !.at = "report", !.result = "failed"]
        /\ OnlyStatus

(* The outcome becomes durable before the claim goes.  If that of a success  *)
(* cannot be written the catch writes a failure; if that cannot be written   *)
(* either the claim goes all the same, in the finally.                       *)
Outcome(state) == [state |-> state, restart |-> helper.told]
Report ==
  /\ helper.at = "report"
  /\ PutWorks(serving, Outcome(helper.result))
  /\ helper' = [helper EXCEPT !.at = "remove"]
  /\ OnlyStatus
SuccessUnwritten ==
  /\ helper.at = "report" /\ helper.result = "complete"
  /\ PutFails(serving, Outcome("complete"))
  /\ helper' = [helper EXCEPT !.result = "failed"]
  /\ OnlyStatus
FailureUnwritten ==
  /\ helper.at = "report" /\ helper.result = "failed"
  /\ PutFails(serving, Outcome("failed"))
  /\ helper' = [helper EXCEPT !.at = "remove"]
  /\ silent' = silent \union {serving}
  /\ UNCHANGED <<file, asked, place, journal, server, baseline, saved, proved, lost,
                 edited>>
\* A claim that cannot be removed ends the helper: `HelperStops` before this step.
RemoveClaim ==
  /\ helper.at = "remove"
  /\ place' = [place EXCEPT ![serving] = "done"]
  /\ helper' = Idle
  /\ UNCHANGED <<file, asked, status, journal, server, baseline, saved, proved, lost,
                 outside>>

(* --------------- the replacement of one file, after a check -------------- *)

\* Files are taken in the order of their list, and put back from its end.
Foremost(s) == s \in helper.todo /\ \A t \in helper.todo : Order[s] <= Order[t]
Hindmost(s) == s \in helper.todo /\ \A t \in helper.todo : Order[t] <= Order[s]
Replacing(s, bytes, back) ==
  [helper EXCEPT !.at = "replace",
                 !.write = [source |-> s, bytes |-> bytes, was |-> file[s], back |-> back]]

(* atomicWriteFile replaces whatever is there by then; an edit that came     *)
(* after the check is lost.                                                  *)
Replace ==
  LET w == helper.write IN
  /\ helper.at = "replace"
  /\ file' = [file EXCEPT ![w.source] = w.bytes]
  /\ lost' = IF file[w.source] # w.was THEN lost \union {w.source} ELSE lost
  /\ helper' = [helper EXCEPT !.at = w.back, !.write = NoWrite,
                              !.held[w.source] = IF w.back = "swap" THEN w.was ELSE Absent]
  /\ UNCHANGED <<asked, place, status, journal, server, baseline, saved, proved,
                 outside>>

\* The write fails; each user has a catch of its own.
ReplaceFails ==
  LET w == helper.write IN
  /\ helper.at = "replace"
  /\ helper' = CASE w.back = "write"  -> [helper EXCEPT !.at = "undo", !.write = NoWrite,
                                            !.todo = journal[serving].written, !.result = "failed"]
                 [] w.back = "undo"   -> [helper EXCEPT !.at = "report", !.write = NoWrite,
                                            !.result = "failed"]
                 [] w.back = "swap"   -> [helper EXCEPT !.at = "unswap", !.write = NoWrite,
                                            !.todo = Sources, !.recovered = FALSE]
                 [] w.back = "unswap" -> [helper EXCEPT !.at = "unswap", !.write = NoWrite,
                                            !.recovered = FALSE]
  /\ lost' = IF w.back = "unswap" /\ file[w.source] # saved[w.source]
             THEN lost \union {w.source} ELSE lost
  /\ UNCHANGED <<file, asked, place, status, journal, server, baseline, saved, proved,
                 outside>>

(* ------------------------------- a commit -------------------------------- *)

SetJournal(phase, written) == journal' = [journal EXCEPT ![serving] = [phase |-> phase, written |-> written]]
OnlyJournal == UNCHANGED <<file, asked, place, status, server, baseline, saved, proved, lost,
                           outside>>

\* recoverClaimedTransaction
Resume ==
  /\ helper.at = "resume"
  /\ CASE journal[serving].phase = "complete"   -> GoTo("report")
       [] journal[serving].phase = "committing" ->
            /\ helper' = [helper EXCEPT !.at = "undo", !.todo = journal[serving].written]
            /\ OnlyHelper
       [] journal[serving].phase = "prepared"   ->
            /\ SetJournal("rolled-back", {})
            /\ helper' = [helper EXCEPT !.at = "check"] /\ OnlyJournal
       [] OTHER -> GoTo("check")

(* The manifest of a request still describes the files it names; what the    *)
(* request asks for may be invalid all the same.                            *)
Unchanged == \A s \in asked[serving].touched : file[s] = want[s]
CheckManifest ==
  /\ helper.at = "check"
  /\ (Unchanged /\ GoTo("baseline")) \/ Fails

Seal(graph) == baseline' = graph /\ proved' = proved \union {graph}
(* ensureRecoveryBaselines: the first baseline needs a proof that the        *)
(* running server consumed the files as they are.  The receipt may fail to   *)
(* be written after the baseline is sealed.                                  *)
EnsureBaseline ==
  LET then == [helper EXCEPT !.at = IF asked[serving].kind = "commit" THEN "prepare" ELSE "boundary"] IN
  /\ helper.at = "baseline"
  /\ \/ baseline # Absent /\ helper' = then /\ OnlyHelper
     \/ /\ baseline = Absent /\ rac = file
        /\ Seal(file) /\ helper' \in {then, [helper EXCEPT !.at = "report", !.result = "failed"]}
        /\ UNCHANGED <<file, asked, place, status, journal, server, saved, lost, outside>>
     \/ baseline = Absent /\ Fails

\* The originals, those of the manifest, are sealed before the journal opens.
Prepare ==
  /\ helper.at = "prepare"
  /\ SetJournal("prepared", {})
  /\ helper' = [helper EXCEPT !.at = "write", !.todo = asked[serving].touched]
  /\ OnlyJournal

Abort(failed) == helper' = [failed EXCEPT !.at = "undo", !.todo = journal[serving].written,
                                          !.result = "failed"]
WriteSource(s) ==
  /\ helper.at = "write" /\ Foremost(s)
  /\ IF file[s] # want[s] THEN Abort(helper) /\ OnlyHelper
     ELSE /\ SetJournal("committing", journal[serving].written \union {s})
          /\ helper' = [Replacing(s, serving, "write") EXCEPT !.todo = @ \ {s}]
          /\ OnlyJournal

\* What the committed files describe does not hold together.
CommitFails == helper.at = "write" /\ Abort(helper) /\ OnlyHelper

Complete ==
  /\ helper.at = "write" /\ helper.todo = {}
  /\ SetJournal("complete", journal[serving].written)
  /\ LET own == {s \in asked[serving].touched : file[s] = serving} IN
     /\ saved' = [s \in Sources |-> IF s \in own THEN serving ELSE saved[s]]
     /\ lost' = lost \ own
  /\ helper' = [helper EXCEPT !.at = "report"]
  /\ UNCHANGED <<file, asked, place, status, server, baseline, proved, outside>>

(* rollbackWritten: only bytes this commit wrote are replaced; others stop   *)
(* the rollback, and the journal keeps saying "committing".                  *)
Undo(s) ==
  /\ helper.at = "undo" /\ Hindmost(s)
  /\ CASE file[s] = want[s] -> helper' = [helper EXCEPT !.todo = @ \ {s}]
       [] file[s] = serving     -> helper' = [Replacing(s, want[s], "undo") EXCEPT !.todo = @ \ {s}]
       [] OTHER -> helper' = [helper EXCEPT !.at = "report", !.result = "failed"]
  /\ OnlyHelper

\* A commit that failed is over; one found after a crash starts again.
Undone ==
  /\ helper.at = "undo" /\ helper.todo = {}
  /\ SetJournal("rolled-back", journal[serving].written)
  /\ helper' = [helper EXCEPT !.at = IF helper.result = "failed" THEN "report" ELSE "check"]
  /\ OnlyJournal

(* ------------------------------ a restart -------------------------------- *)

\* onRestartProgress; a helper that cannot write it goes on (publishRestartProgress).
With(p) == [status[serving] EXCEPT !.restart = p]
Progress(p, next) ==
  \/ PutWorks(serving, With(p)) /\ helper' = [next EXCEPT !.told = p]
  \/ PutFails(serving, With(p)) /\ helper' = next

\* Invalid settings, a failed command or status before the server is touched.
BoundaryFails ==
  /\ helper.at = "boundary"
  /\ PutFails(serving, With("restarting")) \/ UNCHANGED <<status, mishaps>>
  /\ helper' = [helper EXCEPT !.at = "report", !.result = "failed"]
  /\ OnlyStatus

\* beforeRacRestart: from here on a failure has to be recovered from.
CrossBoundary ==
  /\ helper.at = "boundary"
  /\ PutWorks(serving, With("restarting"))
  /\ helper' = [helper EXCEPT !.at = "restart", !.crossed = TRUE, !.told = "restarting"]
  /\ OnlyStatus

\* restartRequest's catch, for the targets that crossed the boundary
StartRecovery ==
  Progress("recovering", [helper EXCEPT !.at = "swap", !.todo = Sources, !.result = "failed"])

\* The service is replaced by one that reads the files.
Restart ==
  /\ helper.at = "restart"
  /\ rac' = file /\ starter' = "helper"
  /\ helper' = [helper EXCEPT !.at = "prove"]
  /\ UNCHANGED <<file, asked, place, status, journal, baseline, saved, proved, lost, outside>>

\* The command fails, and the server that ran may be gone.
MaybeDown == UNCHANGED server \/ (rac' = Absent /\ starter' = "helper")
\* Mutant: a service that does not come back was never touched.
RestartFails_NoRecovery ==
  /\ helper.at = "restart" /\ MaybeDown
  /\ Progress("none", [helper EXCEPT !.at = "report", !.result = "failed"])
  /\ UNCHANGED <<file, asked, place, journal, baseline, saved, proved, lost, silent, edited>>
RestartFails ==
  /\ helper.at = "restart" /\ MaybeDown
  /\ StartRecovery
  /\ UNCHANGED <<file, asked, place, journal, baseline, saved, proved, lost, silent, edited>>

\* A healthy new boot reported that it consumed the manifest.
Prove ==
  /\ helper.at = "prove" /\ rac = want
  /\ proved' = proved \union {rac}
  /\ helper' = [helper EXCEPT !.at = "capture"]
  /\ UNCHANGED <<file, asked, place, status, journal, server, baseline, saved, lost, outside>>
\* The watchdog runs out.
ProveFails == helper.at = "prove" /\ StartRecovery /\ OnlyStatus

\* Mutant: the files are captured as they are by now.
Capture_Blind ==
  /\ helper.at = "capture"
  /\ baseline' = file
  /\ helper' = [helper EXCEPT !.at = "receipt"]
  /\ UNCHANGED <<file, asked, place, status, journal, server, saved, proved, lost, outside>>
\* captureEffectiveSnapshots of the files that were proved, or no success
Capture ==
  /\ helper.at = "capture"
  /\ \/ /\ Unchanged
        /\ baseline' = file
        /\ helper' = [helper EXCEPT !.at = "receipt"]
        /\ UNCHANGED <<file, asked, place, status, journal, server, saved, proved, lost, outside>>
     \/ StartRecovery /\ OnlyStatus

\* recordEffectiveReceipt and clearPendingTargets, which may fail as well
RecordReceipt ==
  /\ helper.at = "receipt"
  /\ Progress("restarted", [helper EXCEPT !.at = "report"]) \/ StartRecovery
  /\ OnlyStatus

(* ----------------------- recoverEffectiveTarget -------------------------- *)

Leave(ok) == [helper EXCEPT !.at = "unswap", !.todo = Sources, !.recovered = ok]

\* A recovery that was asked for has no manifest.
Expected(s) == asked[serving].kind = "recover" \/ file[s] = want[s]
Swap(s) ==
  /\ helper.at = "swap" /\ baseline # Absent /\ Foremost(s)
  /\ helper' = IF Expected(s) THEN [Replacing(s, baseline[s], "swap") EXCEPT !.todo = @ \ {s}]
               ELSE Leave(FALSE)
  /\ OnlyHelper
NothingToRecover == helper.at = "swap" /\ baseline = Absent /\ Fails
Swapped ==
  /\ helper.at = "swap" /\ baseline # Absent /\ helper.todo = {}
  /\ \E h \in {Leave(FALSE), [helper EXCEPT !.at = "rerun"]} : helper' = h
  /\ OnlyHelper

Rerun ==
  /\ helper.at = "rerun"
  /\ \/ rac' = file /\ starter' = "helper" /\ helper' = [helper EXCEPT !.at = "reprove"]
     \/ MaybeDown /\ helper' = Leave(FALSE)
  /\ UNCHANGED <<file, asked, place, status, journal, baseline, saved, proved, lost, outside>>
Reprove ==
  /\ helper.at = "reprove"
  /\ \E ok \in BOOLEAN : (ok => rac = baseline) /\ helper' = Leave(ok)
  /\ OnlyHelper

(* The finally: what was saved goes back, except over an edit.  Sources that *)
(* were not swapped are skipped.                                             *)
Unswap(s) ==
  /\ helper.at = "unswap" /\ Hindmost(s)
  /\ helper' = CASE helper.held[s] = Absent -> [helper EXCEPT !.todo = @ \ {s}]
                 [] helper.held[s] # Absent /\ file[s] = baseline[s] ->
                      [Replacing(s, helper.held[s], "unswap") EXCEPT !.todo = @ \ {s}]
                 [] OTHER -> [helper EXCEPT !.todo = @ \ {s}, !.held[s] = Absent, !.recovered = FALSE]
  /\ OnlyHelper

\* What a recovery ends with, told if it followed a restart
RecoveryEnds(next) ==
  IF helper.crossed
  THEN Progress(IF helper.recovered THEN "recovered" ELSE "recovery-failed", next)
  ELSE helper' = next /\ UNCHANGED <<status, mishaps>>

\* Mutant: the saved bytes go back only after a recovery that worked.
Unswapped_IfRecovered ==
  /\ helper.at = "unswap" /\ (helper.todo = {} \/ ~helper.recovered)
  /\ RecoveryEnds([helper EXCEPT !.at = "report", !.held = Nothing,
                                 !.result = IF helper.recovered THEN @ ELSE "failed"])
  /\ OnlyStatus
Unswapped ==
  /\ helper.at = "unswap" /\ helper.todo = {}
  /\ RecoveryEnds([helper EXCEPT !.at = "report",
                                 !.result = IF helper.recovered THEN @ ELSE "failed"])
  /\ OnlyStatus

(* ----------------------------- specification ----------------------------- *)

HelperWorks ==
  \/ \E r \in Requests : Claim(r)
  \/ Process \/ Report \/ SuccessUnwritten \/ FailureUnwritten \/ RemoveClaim \/ Replace \/ ReplaceFails
  \/ Resume \/ CheckManifest \/ EnsureBaseline \/ Prepare \/ CommitFails \/ Complete \/ Undone
  \/ BoundaryFails \/ CrossBoundary \/ Restart \/ RestartFails \/ Prove \/ ProveFails \/ Capture \/ RecordReceipt
  \/ NothingToRecover \/ Swapped \/ Rerun \/ Reprove \/ Unswapped
  \/ \E s \in Sources : WriteSource(s) \/ Undo(s) \/ Swap(s) \/ Unswap(s)

SettingsNext ==
  \/ \E r \in Requests, kind \in {"commit", "restart", "recover"}, touched \in SUBSET Sources :
       Ask(r, kind, touched)
  \/ \E s \in Sources, e \in Edits : EditSource(s, e)
  \/ HelperStops \/ ServerStarts
  \/ HelperWorks

(* The path unit starts the helper while a request is queued or claimed, and *)
(* its service starts it again after a failure.                              *)
SettingsFairness == WF_settings(HelperWorks)

SettingsAlone == SettingsInit /\ [][SettingsNext]_settings

(* ------------------------------ properties ------------------------------- *)

Settled == claimed = {}
Partial(s) == \E r \in Requests :
  place[r] = "done" /\ journal[r].phase = "committing" /\ s \in journal[r].written

(* Between requests every file holds what its owner last saved: a commit is  *)
(* all or nothing, and neither a restart nor a recovery leaves other bytes   *)
(* behind.  Excepted are a commit whose rollback met foreign bytes, which    *)
(* its journal says, and the bytes counted as lost: those recovery holds in  *)
(* memory only when the helper dies or cannot write them back, and an edit   *)
(* between a check and the replacement it allows.                            *)
SavedSettingsKept == Settled => \A s \in Sources : file[s] = saved[s] \/ s \in lost \/ Partial(s)

(* docs/setup.md: recovery retains the saved settings.  Expected to fail: a *)
(* helper that dies during recovery leaves the baseline in their place, and *)
(* the one that repeats the request calls it recovered.                     *)
RecoveryRetainsSaved ==
  Settled /\ edited = {} /\ (\A r \in Requests : place[r] = "done" => status[r].state = "complete")
    => file = saved

(* What recovery would fall back to has been proved by a boot, whatever was  *)
(* edited, crashed or failed between the proof and the capture.              *)
BaselineIsProved == baseline = Absent \/ baseline \in proved

\* What the status of a request that is over, but not complete, lets the owner know
Admits(r) ==
  /\ status[r].state \in {"running", "failed"}
  /\ \/ status[r].restart \in {"restarting", "recovering", "recovery-failed"}
     \/ asked[r].kind = "recover"

(* When no request is being processed and the helper was the last to change  *)
(* which server runs, that server runs settings a boot has proved, or the    *)
(* status of some request admits that it did not get that far: wherever the  *)
(* helper stops and whichever commands and status writes fail.  A server     *)
(* that the system starts is not covered: it reads committed files that no   *)
(* boot has proved, and no request is there to say so.                       *)
UnprovedIsReported ==
  Settled /\ starter = "helper" /\ rac \notin proved => \E r \in Requests : Admits(r)

(* Every request that was published ends with an outcome, however often the  *)
(* helper dies on it, unless writing that a failure happened failed too.     *)
EveryRequestEnds ==
  (\E r \in Requests : place[r] = "queued") ~>
    \A r \in Requests : place[r] # "none" =>
      place[r] = "done" /\ (Terminal(r) \/ r \in silent)
=============================================================================
