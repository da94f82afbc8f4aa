--------------------------- MODULE PromptDelivery ---------------------------
(***************************************************************************)
(* PromptService (apps/server/src/prompts/service.ts): how queued prompts  *)
(* reach the terminal of their Agent, and where they go when they cannot.  *)
(*                                                                         *)
(* Everything runs on one event loop, so a handler is cut at its awaits.   *)
(* Per Agent there is at most one job that holds `dispatching` (a dispatch *)
(* or a drain into Notes), besides any number of submissions and the       *)
(* observations of the dashboard and of button actions.  An operator       *)
(* cancels, removes and saves prompts, an idle restart replaces the pane,  *)
(* panes die, terminals and storage fail and the server restarts.          *)
(*                                                                         *)
(* The queue's mutations are single steps here: PromptQueue shows that     *)
(* they are atomic.  Time is abstract: a grace period may be over whenever *)
(* the state it waits for has not come.                                    *)
(***************************************************************************)
EXTENDS Naturals, Sequences

CONSTANTS
  Agents,        \* pane ids; a restart moves on to one that was never used
  First,         \* the Agent that is there at first
  Prompts,       \* prompts, each submitted at most once
  Resets,        \* those whose text is the adapter's new-conversation command
  Tracked,       \* those submitted with submitTracked
  Observers,     \* observations that can be in progress together
  MaxPromptsPerScope,
  Scenarios,     \* kinds of Agent, each with the events that occur besides
                 \* submit, dispatch and observe
  MaxCrashes,    \* bound: server restarts
  MaxFailures,   \* bound: terminal and storage failures
  None

Events == {"cancel", "remove", "save", "restart", "death", "crash",
           "storage", "terminal", "external", "question",
           "restartFails",    \* its launch, or a write of its hand-over
           "overlap"}         \* observations in progress at the same time

ASSUME PromptDeliveryAssumption ==
  /\ First \in Agents
  /\ Resets \subseteq Prompts
  /\ Tracked \subseteq Prompts
  /\ MaxPromptsPerScope \in Nat \ {0}
  /\ Scenarios \subseteq [adapter : {"native", "reported"}, happens : SUBSET Events]
  /\ MaxCrashes \in Nat
  /\ MaxFailures \in Nat
  /\ None \notin Agents \union Prompts
  /\ "external" \notin Prompts

VARIABLES
  adapter,       \* "native": Codex family (draft observation, Turn capture)
                 \* "reported": Claude (reported state, best-effort submission)
  happens,       \* the events that occur besides submit, dispatch and observe
  \* durable
  queue,         \* queued prompts by Agent
  boundary,      \* reset boundary: None, "external" or the reset's prompt
  notes,         \* prompts saved as Notes
  unanswered,    \* prompt history: the Agent's entries that have no answer
  \* PromptService memory
  phase,         \* phases
  reset,         \* conversationResets: the state of the Agent's reset
  restored,      \* restoredResets: Agents whose boundary was read
  requests,      \* trackedRequests: the state of each tracked request
  job,           \* the job that holds `dispatching`
  submits,       \* submissions by prompt, each with the Agent it is for
  observer,      \* the observations in progress
  cancelling,    \* cancels whose keys are sent and whose phase is not set
  restart,       \* the idle restart in progress, holding its restart lock
  \* terminals
  pane,
  \* what happened
  delivered,     \* the Agents that took a prompt, in order
  ended,         \* how a prompt's turn ended
  confirmed,     \* prompts that send() reported as submitted
  removed,       \* prompts the operator removed from a queue
  wiped,         \* prompts an observation cleared while a job submitted them
  crashes, failures

store   == <<queue, boundary, notes, unanswered>>
memory  == <<phase, reset, restored, requests>>
actors  == <<job, submits, observer, cancelling, restart>>
world   == <<pane, delivered, ended>>
told    == <<confirmed, removed, wiped>>
bounds  == <<crashes, failures>>
moving == <<store, memory, actors, world, told, bounds>>
vars == <<adapter, happens, moving>>

Native == adapter = "native"

PhaseState == {"none", "awaiting-start", "working", "awaiting-answer", "halted"}
\* `draft` is a prompt of ours that may still stand in the composer.
Phases == [state : PhaseState, prompt : Prompts \union {None}, draft : Prompts \union {None}]
Phase(state, p) == [state |-> state, prompt |-> p, draft |-> None]
NoPhase == Phase("none", None)
Active   == {"queued", "running"}
Terminal == {"complete", "failed", "interrupted"}
Sending  == {"paste", "verify", "keys", "accept", "record", "boundary", "remove", "hold", "fail"}
Idle == [pc |-> "idle", prompt |-> None, owner |-> None, then |-> "nothing"]
Unsent == [pc |-> "unsent", agent |-> None, busy |-> FALSE]
InFlight == {"target", "hold", "adopt", "direct", "handoff", "dispatch"}
NotObserving == [pc |-> "idle", agent |-> None, busy |-> FALSE, seen |-> NoPhase]
NoRestart == [pc |-> "none", from |-> None, to |-> None]
Pane(life) == [life |-> life, attention |-> "finished", composer |-> <<>>, turn |-> {},
               last |-> "no", pressed |-> FALSE]

Jobs == [pc : {"idle", "next", "drain", "external"} \union Sending,
         prompt : Prompts \union {None}, owner : Prompts \union {None},
         then : {"nothing", "clearPhase", "retire"}]
Submits == [pc : {"unsent", "accepted", "refused"} \union InFlight,
            agent : Agents \union {None}, busy : BOOLEAN]
Observations ==
  [pc : {"idle", "scan", "mark", "adopt", "settle", "hold", "answer", "clear", "release"},
   agent : Agents \union {None}, busy : BOOLEAN, seen : Phases]
Restarts == [pc : {"none", "scan", "check", "close", "launch", "handOver", "release"},
             from : Agents \union {None}, to : Agents \union {None}]
\* `pressed`: submit keys were sent, and the terminal has not handled them.
Panes == [life : {"unborn", "alive", "dead"}, attention : {"finished", "working", "question"},
          composer : Seq(Prompts), turn : SUBSET Prompts,
          last : {"no", "completed", "interrupted"}, pressed : BOOLEAN]

TypeOK ==
  /\ [adapter |-> adapter, happens |-> happens] \in Scenarios
  /\ queue \in [Agents -> Seq(Prompts)]
  /\ boundary \in [Agents -> Prompts \union {None, "external"}]
  /\ notes \subseteq Prompts
  /\ unanswered \in [Agents -> SUBSET Prompts]
  /\ phase \in [Agents -> Phases]
  /\ reset \in [Agents -> {"none", "pending", "ready", "expired"}]
  /\ restored \subseteq Agents
  /\ requests \in [Prompts -> {"none"} \union Active \union Terminal]
  /\ job \in [Agents -> Jobs]
  /\ submits \in [Prompts -> Submits]
  /\ observer \in [Observers -> Observations]
  /\ cancelling \subseteq Agents
  /\ restart \in Restarts
  /\ pane \in [Agents -> Panes]
  /\ delivered \in [Prompts -> Seq(Agents)]
  /\ ended \in [Prompts -> {"no", "completed", "interrupted"}]
  /\ confirmed \subseteq Prompts /\ removed \subseteq Prompts /\ wiped \subseteq Prompts
  /\ crashes \in 0 .. MaxCrashes /\ failures \in 0 .. MaxFailures

Init ==
  /\ \E s \in Scenarios : adapter = s.adapter /\ happens = s.happens
  /\ queue = [a \in Agents |-> <<>>]
  /\ boundary = [a \in Agents |-> None]
  /\ notes = {}
  /\ unanswered = [a \in Agents |-> {}]
  /\ phase = [a \in Agents |-> NoPhase]
  /\ reset = [a \in Agents |-> "none"]
  /\ restored = {}
  /\ requests = [p \in Prompts |-> "none"]
  /\ job = [a \in Agents |-> Idle]
  /\ submits = [p \in Prompts |-> Unsent]
  /\ observer = [o \in Observers |-> NotObserving]
  /\ cancelling = {}
  /\ restart = NoRestart
  /\ pane = [a \in Agents |-> Pane(IF a = First THEN "alive" ELSE "unborn")]
  /\ delivered = [p \in Prompts |-> <<>>]
  /\ ended = [p \in Prompts |-> "no"]
  /\ confirmed = {} /\ removed = {} /\ wiped = {}
  /\ crashes = 0 /\ failures = 0

-----------------------------------------------------------------------------
Elements(s) == {s[i] : i \in DOMAIN s}
Queued(a) == Elements(queue[a])
\* findIndex and splice: the first place of the prompt, if it has one
Place(s, p) == CHOOSE i \in DOMAIN s : s[i] = p /\ \A j \in 1 .. i - 1 : s[j] # p
Without(s, p) ==
  IF p \in Elements(s)
  THEN [i \in 1 .. Len(s) - 1 |-> IF i < Place(s, p) THEN s[i] ELSE s[i + 1]]
  ELSE s
Drop(a, p) == [queue EXCEPT ![a] = Without(@, p)]
Alive(a) == pane[a].life = "alive"
Busy(a) == pane[a].attention # "finished"
Dispatching(a) == job[a].pc # "idle"
Locked(a) == restart.pc # "none" /\ restart.from = a
Mutating(a) ==       \* activeMutations
  \E p \in Prompts : submits[p].agent = a /\ submits[p].pc \in InFlight \ {"handoff"}
Failure(kind) == kind \in happens /\ failures < MaxFailures /\ failures' = failures + 1

\* settleTrackedRequest: a request is settled once.
Settle(ps, outcome) ==
  requests' = [p \in Prompts |-> IF p \in ps /\ requests[p] \in Active
                                 THEN outcome ELSE requests[p]]

SetPhase(a, new) == phase' = [phase EXCEPT ![a] = new]
StartJob(a, pc, owner, then) ==
  job' = [job EXCEPT ![a] = [pc |-> pc, prompt |-> None, owner |-> owner, then |-> then]]
Step(a, pc) == job' = [job EXCEPT ![a].pc = pc]
\* The job gives `dispatching` up, and the submission that waits for it returns.
Finish(a, outcome) ==
  /\ job' = [job EXCEPT ![a] = Idle]
  /\ submits' = [p \in Prompts |-> IF p = job[a].owner
                                   THEN [submits[p] EXCEPT !.pc = outcome] ELSE submits[p]]

\* Mutant: the scope may be dispatched twice.
Free_Reentrant(a) == ~ Locked(a) /\ reset[a] # "pending"

\* What dispatch() requires besides that no phase is held.
Free(a) == ~ Dispatching(a) /\ ~ Locked(a) /\ reset[a] # "pending"
Dispatch(a) == IF Free(a) THEN StartJob(a, "next", None, "nothing") ELSE UNCHANGED job
CanDispatch(a) == Free(a) /\ phase[a].state = "none"

-----------------------------------------------------------------------------
(* restoreConversationReset: the first handler to come after a server start *)
(* reads the durable boundary for all that wait with it; a boundary becomes *)
(* a pending reset and its command leaves the queue.                        *)

Restoring(a) ==
  \/ \E o \in Observers : observer[o].pc = "scan" /\ observer[o].agent = a
  \/ \E p \in Prompts : submits[p].pc = "target" /\ submits[p].agent = a
  \/ "restart" \in happens /\ restart = NoRestart /\ Alive(a)

\* Mutant: a recorded reset command stays in the queue.
Restore_KeepsCommand(a) ==
  /\ a \notin restored
  /\ Restoring(a)
  /\ restored' = restored \union {a}
  /\ reset' = IF boundary[a] = None THEN reset ELSE [reset EXCEPT ![a] = "pending"]
  /\ UNCHANGED <<store, phase, requests, actors, world, told, bounds>>

Restore(a) ==
  /\ a \notin restored
  /\ Restoring(a)
  /\ restored' = restored \union {a}
  /\ IF boundary[a] # None
     THEN /\ queue' = Drop(a, boundary[a])
          /\ reset' = [reset EXCEPT ![a] = "pending"]
     ELSE UNCHANGED <<queue, reset>>
  /\ UNCHANGED <<boundary, notes, unanswered, phase, requests, actors, world, told, bounds>>

\* The read or the queue's write fails, for all that wait.
RestoreFails(a) ==
  /\ a \notin restored
  /\ Restoring(a)
  /\ Failure("storage")
  /\ observer' = [o \in Observers |-> IF observer[o].pc = "scan" /\ observer[o].agent = a
                                         THEN NotObserving ELSE observer[o]]
  /\ submits' = [p \in Prompts |-> IF submits[p].pc = "target" /\ submits[p].agent = a
                                   THEN [submits[p] EXCEPT !.pc = "refused"] ELSE submits[p]]
  /\ UNCHANGED <<store, memory, job, cancelling, restart, world, told, crashes>>

-----------------------------------------------------------------------------
(* Submissions: submitRequest *)

(* beginAgentMutation reserves the Agent, whose target is found; behind a    *)
(* restart lock the prompt will only join the queue.                        *)
Submit(p, a) ==
  /\ submits[p] = Unsent
  /\ Alive(a)
  /\ submits' = [submits EXCEPT ![p] =
       IF Locked(a) THEN [Unsent EXCEPT !.pc = "handoff", !.agent = a]
                    ELSE [pc |-> "target", agent |-> a, busy |-> Busy(a)]]
  /\ UNCHANGED <<store, memory, job, observer, cancelling, restart, world, told, bounds>>

\* New input retries the readiness of an expired reset.
SubmitRevives(p) ==
  LET a == submits[p].agent IN
  /\ submits[p].pc = "target"
  /\ reset[a] = "expired"
  /\ reset' = [reset EXCEPT ![a] = "pending"]
  /\ UNCHANGED <<store, phase, restored, requests, actors, world, told, bounds>>

(* Prompts wait behind active or halted work, a pending reset or a queue;   *)
(* work that started outside the prompt flow is adopted with the first.     *)
SubmitDecide(p) ==
  LET a == submits[p].agent
      waits == \/ submits[p].busy \/ phase[a].state # "none"
               \/ reset[a] = "pending" \/ queue[a] # <<>>
      adopts == submits[p].busy /\ phase[a].state = "none" /\ reset[a] = "none"
  IN
  /\ submits[p].pc = "target"
  /\ a \in restored /\ reset[a] # "expired"
  /\ submits' = [submits EXCEPT ![p].busy = FALSE,
                   ![p].pc = IF adopts THEN "adopt" ELSE IF waits THEN "hold" ELSE "direct"]
  /\ UNCHANGED <<store, memory, job, observer, cancelling, restart, world, told, bounds>>

SubmitEnqueue(p) ==
  LET a == submits[p].agent
      how == submits[p].pc
  IN
  /\ how \in {"hold", "adopt", "direct", "handoff"}
  /\ Len(queue[a]) < MaxPromptsPerScope
  /\ queue' = [queue EXCEPT ![a] = Append(@, p)]
  /\ requests' = [requests EXCEPT ![p] = IF p \in Tracked THEN "queued" ELSE @]
  /\ phase' = IF how = "adopt" THEN [phase EXCEPT ![a] = Phase("working", None)] ELSE phase
  /\ IF how = "direct" /\ CanDispatch(a)
     THEN /\ StartJob(a, "next", p, "nothing")
          /\ submits' = [submits EXCEPT ![p].pc = "dispatch"]
     ELSE /\ submits' = [submits EXCEPT ![p].pc = "accepted"]
          /\ UNCHANGED job
  /\ UNCHANGED <<boundary, notes, unanswered, reset, restored, observer, cancelling, restart,
                 world, told, bounds>>

SubmitRefused(p) ==
  /\ submits[p].pc \in {"hold", "adopt", "direct", "handoff"}
  /\ \/ Len(queue[submits[p].agent]) >= MaxPromptsPerScope /\ UNCHANGED failures
     \/ Failure("storage")
  /\ submits' = [submits EXCEPT ![p].pc = "refused"]
  /\ UNCHANGED <<store, memory, job, observer, cancelling, restart, world, told, crashes>>

-----------------------------------------------------------------------------
(* The dispatch job: dispatch() and send() *)

\* Mutant: the next prompt is looked up without the Agent's scope.
JobNext_AnyScope(a) ==
  /\ job[a].pc = "next"
  /\ \E b \in Agents :
       IF queue[b] = <<>>
       THEN Finish(a, "accepted")
       ELSE /\ job' = [job EXCEPT ![a].pc = "paste", ![a].prompt = Head(queue[b])]
            /\ UNCHANGED submits
  /\ UNCHANGED <<store, memory, observer, cancelling, restart, world, told, bounds>>

JobNext(a) ==
  /\ job[a].pc = "next"
  /\ IF queue[a] = <<>>
     THEN Finish(a, "accepted")
     ELSE /\ job' = [job EXCEPT ![a].pc = "paste", ![a].prompt = Head(queue[a])]
          /\ UNCHANGED submits
  /\ UNCHANGED <<store, memory, observer, cancelling, restart, world, told, bounds>>

(* The prompt is pasted into the composer; where drafts can be observed the *)
(* scope is held from here on by a provisional phase.                       *)
JobPaste(a) ==
  /\ job[a].pc = "paste"
  /\ Alive(a) /\ pane[a].attention # "question" /\ ~ pane[a].pressed
  /\ pane' = [pane EXCEPT ![a].composer = Append(@, job[a].prompt)]
  /\ IF Native THEN SetPhase(a, Phase("awaiting-start", job[a].prompt)) ELSE UNCHANGED phase
  /\ Step(a, "verify")
  /\ UNCHANGED <<store, reset, restored, requests, submits, observer, cancelling, restart,
                 delivered, ended, told, bounds>>

(* A dead pane, an open question or a rejected paste end the attempt; so    *)
(* does a pane that cannot be found again after the paste, which an adapter *)
(* that observes drafts holds.                                              *)
JobPasteFails(a) ==
  /\ job[a].pc = "paste"
  /\ \/ /\ ~ Alive(a) \/ pane[a].attention = "question"
        /\ Step(a, "fail")
        /\ UNCHANGED <<pane, failures>>
     \/ /\ Alive(a)
        /\ Failure("terminal")
        /\ Step(a, "fail")
        /\ UNCHANGED pane
     \/ /\ Alive(a) /\ ~ pane[a].pressed
        /\ Failure("terminal")
        /\ pane' = [pane EXCEPT ![a].composer = Append(@, job[a].prompt)]
        /\ Step(a, IF Native THEN "hold" ELSE "fail")
  /\ UNCHANGED <<store, memory, submits, observer, cancelling, restart,
                 delivered, ended, told, crashes>>

(* Send-time checks: the same live pane without a question and, where       *)
(* drafts can be observed, a composer that shows exactly this prompt.       *)
JobVerify(a) ==
  /\ job[a].pc = "verify"
  /\ Alive(a) /\ pane[a].attention # "question"
  /\ Native => pane[a].composer = <<job[a].prompt>>
  /\ Step(a, "keys")
  /\ UNCHANGED <<store, memory, submits, observer, cancelling, restart, world, told, bounds>>

\* A draft that did not render is cleared if it can be; other drafts stay.
JobUnverified(a) ==
  /\ job[a].pc = "verify"
  /\ \/ /\ ~ Alive(a) \/ pane[a].attention = "question"
        /\ UNCHANGED failures
     \/ Native /\ pane[a].composer # <<job[a].prompt>> /\ UNCHANGED failures
     \/ Failure("terminal")
  /\ \/ UNCHANGED pane
     \/ /\ Native /\ Alive(a) /\ pane[a].composer = <<job[a].prompt>>
        /\ pane' = [pane EXCEPT ![a].composer = <<>>]
  /\ Step(a, "hold")
  /\ UNCHANGED <<store, memory, submits, observer, cancelling, restart,
                 delivered, ended, told, crashes>>

\* The pane takes its composer: a reset starts no turn.
TakeComposer(a) ==
  LET taken == Elements(pane[a].composer)
      work == taken \ Resets
  IN
  /\ delivered' = [p \in Prompts |-> IF p \in taken THEN Append(delivered[p], a) ELSE delivered[p]]
  /\ pane' = [pane EXCEPT ![a].composer = <<>>, ![a].turn = @ \union work, ![a].pressed = FALSE,
                          ![a].attention = IF work = {} THEN @ ELSE "working"]

\* The terminal has the keys, and takes the composer when it handles them.
Presses(a) ==
  /\ Alive(a) /\ pane[a].attention # "question"
  /\ pane' = [pane EXCEPT ![a].pressed = TRUE]
  /\ UNCHANGED delivered

(* The submit keys.  Without draft observation the transport's answer       *)
(* decides; with it the composer is inspected next, whatever that answer.   *)
(* Keys may be swallowed or handled late, and an answer may be wrong.        *)
JobKeys(a) ==
  /\ job[a].pc = "keys"
  /\ \/ /\ Alive(a) /\ pane[a].attention # "question"
        /\ TakeComposer(a)
        /\ Step(a, IF Native THEN "accept" ELSE "record")
        /\ UNCHANGED failures
     \/ /\ Failure("terminal")
        /\ \/ UNCHANGED <<pane, delivered>>
           \/ Presses(a)
           \/ Alive(a) /\ pane[a].attention # "question" /\ TakeComposer(a)
        /\ \E sent \in BOOLEAN :
             Step(a, IF Native THEN "accept" ELSE IF sent THEN "record" ELSE "hold")
     \/ /\ ~ Alive(a) \/ pane[a].attention = "question"
        /\ UNCHANGED <<pane, delivered, failures>>
        /\ Step(a, IF Native THEN "accept" ELSE "hold")
  /\ UNCHANGED <<store, memory, submits, observer, cancelling, restart,
                 ended, told, crashes>>

\* Mutant: keys that were sent count as a submission.
JobAccept_Trusts(a) ==
  /\ job[a].pc = "accept"
  /\ Alive(a)
  /\ Step(a, "record")
  /\ UNCHANGED <<store, memory, submits, observer, cancelling, restart, world, told, bounds>>

\* A cleared composer of the same process acknowledges the submission.
JobAccept(a) ==
  /\ job[a].pc = "accept"
  /\ Alive(a)
  /\ job[a].prompt \notin Elements(pane[a].composer)
  /\ Step(a, "record")
  /\ UNCHANGED <<store, memory, submits, observer, cancelling, restart, world, told, bounds>>

(* Keys are sent again while the draft is still owned: the first ones were  *)
(* swallowed, or the terminal has not handled them yet.                     *)
JobRetry(a) ==
  /\ job[a].pc = "accept"
  /\ Alive(a) /\ pane[a].attention # "question"
  /\ pane[a].composer = <<job[a].prompt>>
  /\ \/ TakeComposer(a) /\ UNCHANGED failures
     \/ Failure("terminal") /\ Presses(a)
  /\ UNCHANGED <<store, memory, actors, ended, told, crashes>>

(* No acknowledgement came in time: the pane is gone, a question is open,   *)
(* the draft is still there, or its acceptance could not be observed.  Keys *)
(* that clear the draft come after those that submit it.                     *)
JobUnaccepted(a) ==
  /\ job[a].pc = "accept"
  /\ \/ /\ ~ Alive(a) \/ pane[a].attention = "question"
        /\ UNCHANGED <<pane, failures>>
     \/ /\ Alive(a) /\ pane[a].composer = <<job[a].prompt>>
        /\ pane' = IF pane[a].pressed THEN pane ELSE [pane EXCEPT ![a].composer = <<>>]
        /\ UNCHANGED failures
     \/ /\ Failure("terminal")
        /\ UNCHANGED pane
  /\ Step(a, "hold")
  /\ UNCHANGED <<store, memory, submits, observer, cancelling, restart,
                 delivered, ended, told, crashes>>

(* Submitted.  A reset releases its provisional phase and its request is    *)
(* complete; a real prompt is marked submitted.                             *)
JobRecord(a) ==
  LET p == job[a].prompt IN
  /\ job[a].pc = "record"
  /\ confirmed' = confirmed \union {p}
  /\ IF p \in Resets
     THEN /\ Settle({p}, "complete")
          /\ SetPhase(a, NoPhase)
          /\ Step(a, "boundary")
          /\ UNCHANGED <<boundary, reset, unanswered, submits, failures>>
     ELSE /\ requests' = [requests EXCEPT ![p] = IF @ \in Active THEN "running" ELSE @]
          /\ \/ /\ boundary' = IF reset[a] = "none" THEN boundary
                               ELSE [boundary EXCEPT ![a] = None]
                /\ reset' = [reset EXCEPT ![a] = "none"]
                /\ unanswered' = [unanswered EXCEPT ![a] = @ \union {p}]
                /\ SetPhase(a, Phase("awaiting-start", p))
                /\ Step(a, "remove")
                /\ UNCHANGED <<submits, failures>>
             \/ /\ reset[a] # "none"              \* clearing the boundary throws
                /\ Failure("storage")
                /\ Finish(a, "refused")
                /\ UNCHANGED <<boundary, reset, unanswered, phase>>
  /\ UNCHANGED <<queue, notes, restored, observer, cancelling, restart, world, removed, wiped, crashes>>

\* rememberConversationReset: durable before the reset leaves the queue.
JobBoundary(a) ==
  /\ job[a].pc = "boundary"
  /\ \/ /\ boundary' = [boundary EXCEPT ![a] = job[a].prompt]
        /\ reset' = [reset EXCEPT ![a] = "pending"]
        /\ Step(a, "remove")
        /\ UNCHANGED <<submits, failures>>
     \/ /\ Failure("storage")
        /\ Finish(a, "refused")
        /\ UNCHANGED <<boundary, reset>>
  /\ UNCHANGED <<queue, notes, unanswered, phase, restored, requests, observer, cancelling, restart,
                 world, told, crashes>>

\* Mutant: a submitted prompt is not consumed.
JobRemove_Keeps(a) ==
  /\ job[a].pc = "remove"
  /\ Finish(a, "accepted")
  /\ UNCHANGED <<store, memory, observer, cancelling, restart, world, told, bounds>>

JobRemove(a) ==
  /\ job[a].pc = "remove"
  /\ \/ /\ queue' = Drop(a, job[a].prompt)
        /\ Finish(a, "accepted")
        /\ UNCHANGED failures
     \/ /\ Failure("storage")
        /\ Finish(a, "refused")
        /\ UNCHANGED queue
  /\ UNCHANGED <<boundary, notes, unanswered, memory, observer, cancelling, restart,
                 world, told, crashes>>

\* holdFailedSubmission: what is still queued must not be pasted again.
Hold(a, p, draft) ==
  SetPhase(a, IF queue[a] # <<>> THEN [Phase("halted", p) EXCEPT !.draft = draft] ELSE NoPhase)

JobHold(a) ==
  /\ job[a].pc = "hold"
  /\ Hold(a, phase[a].prompt, IF Native THEN job[a].prompt ELSE None)
  /\ Step(a, "fail")
  /\ UNCHANGED <<store, reset, restored, requests, submits, observer, cancelling, restart,
                 world, told, bounds>>

\* Mutant: a failed dispatch never gives `dispatching` up.
JobFail_Leaks(a) ==
  LET p == job[a].prompt IN
  /\ job[a].pc = "fail"
  /\ requests[p] \in Active
  /\ Settle({p}, "failed")
  /\ SetPhase(a, [phase[a] EXCEPT !.state = "halted", !.prompt = p])
  /\ UNCHANGED <<store, reset, restored, actors, world, told, bounds>>

\* A tracked failure halts the queue even when send() did not.
JobFail(a) ==
  LET p == job[a].prompt IN
  /\ job[a].pc = "fail"
  /\ IF requests[p] # "none"
     THEN /\ Settle({p}, "failed")
          /\ SetPhase(a, [phase[a] EXCEPT !.state = "halted", !.prompt = p])
     ELSE UNCHANGED <<requests, phase>>
  /\ Finish(a, "accepted")
  /\ UNCHANGED <<store, reset, restored, observer, cancelling, restart, world, told, bounds>>

-----------------------------------------------------------------------------
(* Draining a queue into Notes: saveQueued *)

\* The head prompt's Note is durable, then the prompt is consumed.
DrainNote(a) ==
  /\ job[a].pc = "drain"
  /\ queue[a] # <<>>
  /\ LET p == Head(queue[a]) IN
       /\ notes' = notes \union {p}
       /\ queue' = Drop(a, p)
       /\ Settle({p}, "failed")
  /\ UNCHANGED <<boundary, unanswered, phase, reset, restored, actors, world, told, bounds>>

\* Mutant: a prompt whose Note was refused is consumed all the same.
DrainFails_Drops(a) ==
  /\ job[a].pc = "drain"
  /\ queue[a] # <<>>
  /\ Failure("storage")
  /\ queue' = Drop(a, Head(queue[a]))
  /\ Finish(a, "accepted")
  /\ UNCHANGED <<boundary, notes, unanswered, memory, observer, cancelling, restart,
                 world, told, crashes>>

\* The sink refuses, or its Note is durable and the queue's write fails.
DrainFails(a) ==
  /\ job[a].pc = "drain"
  /\ queue[a] # <<>>
  /\ Failure("storage")
  /\ \/ UNCHANGED notes
     \/ notes' = notes \union {Head(queue[a])}
  /\ Finish(a, "accepted")
  /\ UNCHANGED <<queue, boundary, unanswered, memory, observer, cancelling, restart,
                 world, told, crashes>>

\* forget, with the request of the scope's phase
Forget(a) ==
  /\ SetPhase(a, NoPhase)
  /\ reset' = [reset EXCEPT ![a] = "none"]
  /\ restored' = restored \ {a}

\* Everything is durable elsewhere: the halt ends, or the Agent is forgotten.
DrainEnds(a) ==
  /\ job[a].pc = "drain"
  /\ queue[a] = <<>>
  /\ IF job[a].then = "retire"
     THEN /\ Settle({phase[a].prompt}, "interrupted")
          /\ Forget(a)
          /\ boundary' = [boundary EXCEPT ![a] = None]
          /\ unanswered' = [unanswered EXCEPT ![a] = {}]
     ELSE /\ SetPhase(a, NoPhase)
          /\ UNCHANGED <<requests, reset, restored, boundary, unanswered>>
  /\ Finish(a, "accepted")
  /\ UNCHANGED <<queue, notes, observer, cancelling, restart, world, told, bounds>>

\* retireDeparted, once the Agent is gone for the grace period
Retire(a) ==
  /\ pane[a].life = "dead"
  /\ queue[a] # <<>> \/ unanswered[a] # {}
  /\ ~ Locked(a) /\ ~ Dispatching(a)
  /\ StartJob(a, "drain", None, "retire")
  /\ UNCHANGED <<store, memory, submits, observer, cancelling, restart, world, told, bounds>>

-----------------------------------------------------------------------------
(* Observations: observe() and observeTurnless() *)

Watch(o, pc) == observer' = [observer EXCEPT ![o].pc = pc]
Rest(o) == observer' = [observer EXCEPT ![o] = NotObserving]

\* An Agent is observed as a scan saw it.
Observe(o, a) ==
  /\ observer[o] = NotObserving
  /\ "overlap" \in happens \/ o = CHOOSE only \in Observers : TRUE    \* bound
  /\ Alive(a)
  /\ observer' = [observer EXCEPT ![o] = [pc |-> "scan", agent |-> a, busy |-> Busy(a),
                                          seen |-> NoPhase]]
  /\ UNCHANGED <<store, memory, job, submits, cancelling, restart, world, told, bounds>>

(* Where the first look at the scope leads: it is synchronous up to the     *)
(* next await, and keeps the phase it saw across it.                        *)
Route(o) ==
  LET a == observer[o].agent
      busy == observer[o].busy
      state == phase[a].state
  IN IF Locked(a) \/ Dispatching(a) THEN "idle"
     ELSE IF reset[a] = "pending" /\ state = "none" THEN "settle"
     ELSE CASE state = "halted"                     -> IF busy THEN "idle" ELSE "clear"
            [] busy /\ state \in {"awaiting-start", "awaiting-answer"} -> "mark"
            [] busy /\ state = "none"               -> "adopt"
            [] busy /\ state = "working"            -> "idle"
            [] ~ busy /\ state = "none"             -> "release"
            [] OTHER                                -> "answer"

Looking(o) == observer[o].pc = "scan" /\ observer[o].agent \in restored

\* An adapter that captures Turns awaits completion records from here on.
ObserveLooks(o) ==
  LET route == Route(o) IN
  /\ Looking(o)
  /\ Native \/ route \notin {"mark", "answer", "release"}
  /\ observer' = [observer EXCEPT ![o] =
       IF route = "idle" THEN NotObserving
       ELSE [pc |-> route, agent |-> @.agent, busy |-> FALSE, seen |-> phase[@.agent]]]
  /\ UNCHANGED <<store, memory, job, submits, cancelling, restart, world, told, bounds>>

\* One without Turns decides at once: observeTurnless.
TurnlessStarts(o) ==
  LET a == observer[o].agent IN
  /\ Looking(o) /\ ~ Native
  /\ Route(o) = "mark"
  /\ SetPhase(a, [phase[a] EXCEPT !.state = "working"])
  /\ Rest(o)
  /\ UNCHANGED <<store, reset, restored, requests, job, submits, cancelling, restart,
                 world, told, bounds>>

\* saveQueued refuses while the scope is dispatching.
Drain(a) ==
  IF Dispatching(a) THEN UNCHANGED job ELSE StartJob(a, "drain", None, "clearPhase")

\* Halt and save what waits behind the failed prompt.
Halt(a, seen) ==
  /\ SetPhase(a, [seen EXCEPT !.state = "halted"])
  /\ Settle({seen.prompt}, "failed")
  /\ Drain(a)

\* Mutant: work that was never a prompt of ours is put into history.
TurnlessEnds_RecordsAdopted(o) ==
  LET a == observer[o].agent IN
  /\ Looking(o) /\ ~ Native
  /\ Route(o) \in {"answer", "release"}
  /\ unanswered' = [unanswered EXCEPT ![a] = @ \union {phase[a].prompt}]
  /\ SetPhase(a, NoPhase)
  /\ Dispatch(a)
  /\ Rest(o)
  /\ UNCHANGED <<queue, boundary, notes, reset, restored, requests, submits, cancelling, restart,
                 world, told, bounds>>

\* A reported-state Agent must report working before finished counts.
TurnlessEnds(o) ==
  LET a == observer[o].agent IN
  /\ Looking(o) /\ ~ Native
  /\ Route(o) \in {"answer", "release"}
  /\ \/ /\ phase[a].state = "awaiting-start"
        /\ Halt(a, phase[a])
     \/ /\ phase[a].state # "awaiting-start"
        /\ Settle({phase[a].prompt}, "complete")
        /\ SetPhase(a, NoPhase)
        /\ Dispatch(a)
  /\ Rest(o)
  /\ UNCHANGED <<store, reset, restored, submits, cancelling, restart, world, told, bounds>>

\* Within the grace period the working report may still come.
TurnlessWaits(o) ==
  /\ Looking(o) /\ ~ Native
  /\ Route(o) = "answer" /\ phase[observer[o].agent].state = "awaiting-start"
  /\ Rest(o)
  /\ UNCHANGED <<store, memory, job, submits, cancelling, restart, world, told, bounds>>

\* Completion records were read: the phase seen before is now working.
ObserveMarks(o) ==
  /\ observer[o].pc = "mark"
  /\ SetPhase(observer[o].agent, [observer[o].seen EXCEPT !.state = "working"])
  /\ Rest(o)
  /\ UNCHANGED <<store, reset, restored, requests, job, submits, cancelling, restart,
                 world, told, bounds>>

(* Work that started outside the prompt flow is adopted once prompts wait   *)
(* for it; an adapter with Turns also recovers an unanswered history entry. *)
ObserveAdopts(o) ==
  LET a == observer[o].agent
      entries == IF Native THEN unanswered[a] ELSE {}
  IN
  /\ observer[o].pc = "adopt"
  /\ \/ \E p \in entries : SetPhase(a, Phase("working", p))
     \/ queue[a] # <<>> /\ SetPhase(a, Phase("working", None))
     \/ queue[a] = <<>> /\ UNCHANGED phase
  /\ Rest(o)
  /\ UNCHANGED <<store, reset, restored, requests, job, submits, cancelling, restart,
                 world, told, bounds>>

\* settleConversationReset: only a ready pane with an empty composer settles.
ObserveSettles(o) ==
  LET a == observer[o].agent IN
  /\ observer[o].pc = "settle"
  /\ \/ /\ Alive(a) /\ ~ Busy(a) /\ pane[a].composer = <<>>
        /\ reset[a] = "pending"
        /\ reset' = [reset EXCEPT ![a] = "ready"]
        /\ IF phase[a].state = "none" /\ ~ Dispatching(a) /\ ~ Locked(a)
           THEN StartJob(a, "next", None, "nothing") ELSE UNCHANGED job
        /\ Rest(o)
     \/ /\ reset[a] = "pending"
        /\ reset' = [reset EXCEPT ![a] = "expired"]
        /\ Watch(o, "hold")
        /\ UNCHANGED job
  /\ UNCHANGED <<store, phase, restored, requests, submits, cancelling, restart,
                 world, told, bounds>>

\* Still loading, drafting or in a dialog, or another observation was first.
SettleWaits(o) ==
  /\ observer[o].pc = "settle"
  /\ Rest(o)
  /\ UNCHANGED <<store, memory, job, submits, cancelling, restart, world, told, bounds>>

ObserveHolds(o) ==
  LET a == observer[o].agent IN
  /\ observer[o].pc = "hold"
  /\ Hold(a, phase[a].prompt, None)
  /\ Rest(o)
  /\ UNCHANGED <<store, reset, restored, requests, job, submits, cancelling, restart,
                 world, told, bounds>>

(* clearHaltedDraft, then saveQueued: a failed native draft is cleared, if  *)
(* the composer holds it and nothing else, before the queue behind it is    *)
(* drained.  It stays while a question is open, or submit keys that the     *)
(* terminal has not handled come first.  Another observation may meanwhile  *)
(* have ended the halt, and a job have pasted the same prompt.              *)
ObserveClears(o) ==
  LET a == observer[o].agent
      draft == observer[o].seen.draft
      owned == draft # None /\ Alive(a) /\ pane[a].composer = <<draft>>
      stuck == /\ draft # None /\ Alive(a)
               /\ pane[a].attention = "question" \/ (owned /\ pane[a].pressed)
  IN
  /\ observer[o].pc = "clear"
  /\ \/ /\ ~ stuck
        /\ pane' = IF owned THEN [pane EXCEPT ![a].composer = <<>>] ELSE pane
        /\ wiped' = wiped \union (IF owned /\ job[a].prompt = draft /\ job[a].pc \in {"keys", "accept"}
                                  THEN {draft} ELSE {})
        /\ Drain(a)
        /\ UNCHANGED failures
     \/ /\ draft # None
        /\ Failure("terminal") \/ (stuck /\ UNCHANGED failures)
        /\ UNCHANGED <<pane, wiped, job>>
  /\ Rest(o)
  /\ UNCHANGED <<store, memory, submits, cancelling, restart,
                 delivered, ended, confirmed, removed, crashes>>

\* The answer is not there yet, and its grace period is not over.
AnswerPending(o) ==
  LET a == observer[o].agent
      seen == observer[o].seen
  IN
  /\ observer[o].pc = "answer"
  /\ IF seen.state = "working"
     THEN SetPhase(a, [seen EXCEPT !.state = "awaiting-answer"])
     ELSE UNCHANGED phase
  /\ Rest(o)
  /\ UNCHANGED <<store, reset, restored, requests, job, submits, cancelling, restart,
                 world, told, bounds>>

\* A recorded answer releases the queue.
AnswerCompletes(o) ==
  LET a == observer[o].agent
      p == observer[o].seen.prompt
  IN
  /\ observer[o].pc = "answer"
  /\ IF p = None THEN ~ Busy(a) /\ pane[a].last = "completed" ELSE ended[p] = "completed"
  /\ unanswered' = [unanswered EXCEPT ![a] = @ \ {p}]
  /\ Settle({p}, "complete")
  /\ SetPhase(a, NoPhase)
  /\ Dispatch(a)
  /\ Rest(o)
  /\ UNCHANGED <<queue, boundary, notes, reset, restored, submits, cancelling, restart,
                 world, told, bounds>>

\* The turn was aborted, or the grace period of a tracked prompt is over.
AnswerFails(o) ==
  LET a == observer[o].agent
      seen == observer[o].seen
  IN
  /\ observer[o].pc = "answer"
  /\ IF seen.prompt = None THEN pane[a].last = "interrupted" ELSE ended[seen.prompt] # "completed"
  /\ Halt(a, seen)
  /\ Rest(o)
  /\ UNCHANGED <<store, reset, restored, submits, cancelling, restart, world, told, bounds>>

(* Adopted work that never shows an answer was a reset from outside: once   *)
(* the pane is ready, its boundary is written under `dispatching`.          *)
AnswerIsReset(o) ==
  LET a == observer[o].agent
      seen == observer[o].seen
  IN
  /\ observer[o].pc = "answer"
  /\ seen.prompt = None /\ seen.state # "working"
  /\ Alive(a) /\ ~ Busy(a) /\ pane[a].composer = <<>>
  /\ phase[a] = seen /\ ~ Dispatching(a)
  /\ StartJob(a, "external", None, "nothing")
  /\ Rest(o)
  /\ UNCHANGED <<store, memory, submits, cancelling, restart, world, told, bounds>>

ExternalBoundary(a) ==
  /\ job[a].pc = "external"
  /\ \/ /\ boundary' = [boundary EXCEPT ![a] = "external"]
        /\ reset' = [reset EXCEPT ![a] = "ready"]
        /\ SetPhase(a, NoPhase)
        /\ IF Locked(a) THEN Finish(a, "accepted") ELSE Step(a, "next") /\ UNCHANGED submits
        /\ UNCHANGED failures
     \/ /\ Failure("storage")
        /\ Finish(a, "accepted")
        /\ UNCHANGED <<boundary, reset, phase>>
  /\ UNCHANGED <<queue, notes, unanswered, restored, requests, observer, cancelling, restart,
                 world, told, crashes>>

\* History is reconciled; the queue of an idle Agent is dispatched.
ObserveReleases(o) ==
  LET a == observer[o].agent IN
  /\ observer[o].pc = "release"
  /\ IF CanDispatch(a) THEN StartJob(a, "next", None, "nothing") ELSE UNCHANGED job
  /\ Rest(o)
  /\ UNCHANGED <<store, memory, submits, cancelling, restart, world, told, bounds>>

-----------------------------------------------------------------------------
(* The operator *)

WorkEnds(a, how) ==
  /\ pane' = [pane EXCEPT ![a].attention = "finished", ![a].turn = {}, ![a].last = how]
  /\ ended' = [p \in Prompts |-> IF p \in pane[a].turn THEN how ELSE ended[p]]

(* cancel(): the interrupt ends the turn, and a reported state is           *)
(* overwritten.  The terminal handles it after keys that it already has.     *)
CancelSends(a) ==
  /\ "cancel" \in happens
  /\ a \notin cancelling
  /\ Alive(a) /\ Busy(a) /\ ~ pane[a].pressed
  /\ cancelling' = cancelling \union {a}
  /\ WorkEnds(a, "interrupted")
  /\ UNCHANGED <<store, memory, job, submits, observer, restart, delivered, told, bounds>>

\* The keys were sent: the queue is held.
CancelHolds(a) ==
  /\ a \in cancelling
  /\ cancelling' = cancelling \ {a}
  /\ Settle({phase[a].prompt}, "interrupted")
  /\ SetPhase(a, Phase("halted", phase[a].prompt))
  /\ UNCHANGED <<store, reset, restored, job, submits, observer, restart, world, told, bounds>>

\* removeQueued
Remove(a, p) ==
  /\ "remove" \in happens
  /\ Alive(a) /\ p \in Queued(a)
  /\ queue' = Drop(a, p)
  /\ removed' = removed \union {p}
  /\ Settle({p}, "failed")
  /\ UNCHANGED <<boundary, notes, unanswered, phase, reset, restored, actors, world, confirmed,
                 wiped, bounds>>

\* consumeQueuedOnSuccess with a Note: durable before the queue lets go.
Save(a, p) ==
  /\ "save" \in happens
  /\ Alive(a) /\ p \in Queued(a)
  /\ notes' = notes \union {p}
  /\ \/ /\ queue' = Drop(a, p)
        /\ Settle({p}, "failed")
        /\ UNCHANGED failures
     \/ /\ Failure("storage")
        /\ UNCHANGED <<queue, requests>>
  /\ UNCHANGED <<boundary, unanswered, phase, reset, restored, actors, world, told, crashes>>

-----------------------------------------------------------------------------
(* An idle restart: acquireRestartLock, restartIdleConfiguredAgent, handOver *)

\* acquireRestartLock, after the scope's boundary was restored
RestartLocks(a) ==
  /\ "restart" \in happens
  /\ restart = NoRestart
  /\ Alive(a) /\ a \in restored
  /\ phase[a].state = "none" /\ reset[a] # "pending" /\ ~ Mutating(a)
  /\ \E b \in Agents : pane[b].life = "unborn"          \* bound: panes
  /\ restart' = [NoRestart EXCEPT !.pc = "scan", !.from = a]
  /\ UNCHANGED <<store, memory, job, submits, observer, cancelling, world, told, bounds>>

RestartStep(pc) == restart' = IF pc = "release" THEN NoRestart ELSE [restart EXCEPT !.pc = pc]

\* A fresh scan must find the Agent finished.
RestartScans ==
  /\ restart.pc = "scan"
  /\ RestartStep(IF Alive(restart.from) /\ ~ Busy(restart.from) THEN "check" ELSE "release")
  /\ UNCHANGED <<store, memory, job, submits, observer, cancelling, world, told, bounds>>

\* Queued prompts keep the Agent.
RestartChecks ==
  /\ restart.pc = "check"
  /\ RestartStep(IF queue[restart.from] = <<>> THEN "close" ELSE "release")
  /\ UNCHANGED <<store, memory, job, submits, observer, cancelling, world, told, bounds>>

\* The pane is gone with its composer and its turn.
PaneGone(a) ==
  /\ pane' = [pane EXCEPT ![a] = Pane("dead")]
  /\ ended' = [p \in Prompts |-> IF p \in pane[a].turn THEN "interrupted" ELSE ended[p]]

\* close(): every live request of the Agent is interrupted.
RestartCloses ==
  LET a == restart.from IN
  /\ restart.pc = "close"
  /\ IF Alive(a)
     THEN /\ PaneGone(a)
          /\ Settle({p \in Prompts : submits[p].agent = a}, "interrupted")
          /\ RestartStep("launch")
     ELSE RestartStep("release") /\ UNCHANGED <<pane, ended, requests>>
  /\ UNCHANGED <<store, phase, reset, restored, job, submits, observer, cancelling,
                 delivered, told, bounds>>

RestartLaunches ==
  /\ restart.pc = "launch"
  /\ \/ \E b \in Agents :
          /\ pane[b].life = "unborn"
          /\ pane' = [pane EXCEPT ![b] = Pane("alive")]
          /\ restart' = [restart EXCEPT !.pc = "handOver", !.to = b]
          /\ UNCHANGED failures
     \/ /\ Failure("restartFails")
        /\ RestartStep("release")
        /\ UNCHANGED pane
  /\ UNCHANGED <<store, memory, job, submits, observer, cancelling, delivered, ended, told, crashes>>

(* moveScope: the queue goes ahead of what the replacement already has, and *)
(* its prompts belong to the replacement from then on.                      *)
QueueFits(a, b) == queue[a] = <<>> \/ Len(queue[a] \o queue[b]) <= MaxPromptsPerScope
MoveQueue(a, b) ==
  /\ QueueFits(a, b)
  /\ queue' = [queue EXCEPT ![a] = <<>>, ![b] = queue[a] \o @]
  /\ submits' = [p \in Prompts |-> IF p \in Queued(a)
                                   THEN [submits[p] EXCEPT !.agent = b] ELSE submits[p]]
MoveHistory(a, b) ==
  unanswered' = [unanswered EXCEPT ![a] = {}, ![b] = @ \union unanswered[a]]
Running(a) == {p \in Prompts : submits[p].agent = a /\ requests[p] = "running"}

\* Mutant: what the replacement was already sent is overwritten.
RestartHandsOver_Overwrites ==
  LET a == restart.from
      b == restart.to
  IN
  /\ restart.pc = "handOver"
  /\ queue' = [queue EXCEPT ![a] = <<>>, ![b] = queue[a]]
  /\ Forget(a)
  /\ RestartStep("release")
  /\ UNCHANGED <<boundary, notes, unanswered, requests, job, submits, observer, cancelling,
                 world, told, bounds>>

(* handOver(): queue and history follow the Agent and the departed scope is *)
(* forgotten; a queue that cannot move stays behind.                        *)
RestartHandsOver ==
  LET a == restart.from
      b == restart.to
  IN
  /\ restart.pc = "handOver"
  /\ \/ /\ MoveQueue(a, b)
        /\ MoveHistory(a, b)
        /\ boundary' = [boundary EXCEPT ![a] = None]
        /\ Settle(Running(a) \union {phase[a].prompt}, "interrupted")
        /\ Forget(a)
     \/ /\ ~ QueueFits(a, b)
        /\ UNCHANGED <<queue, unanswered, boundary, requests, submits, phase, reset, restored>>
  /\ RestartStep("release")
  /\ UNCHANGED <<notes, job, observer, cancelling, world, told, bounds>>

\* A write fails before the queue, the history or the boundary has moved.
HandOverFails ==
  LET a == restart.from
      b == restart.to
  IN
  /\ restart.pc = "handOver"
  /\ Failure("restartFails")
  /\ \/ UNCHANGED <<queue, submits, requests, unanswered>>
     \/ /\ MoveQueue(a, b)
        /\ Settle(Running(a), "interrupted")
        /\ UNCHANGED unanswered \/ MoveHistory(a, b)
  /\ RestartStep("release")
  /\ UNCHANGED <<boundary, notes, phase, reset, restored, job, observer, cancelling,
                 world, told, crashes>>

-----------------------------------------------------------------------------
(* Terminals, and the server's own end *)

TurnEnds(a, how) ==
  /\ Alive(a) /\ pane[a].attention = "working"
  /\ WorkEnds(a, how)
  /\ UNCHANGED <<store, memory, actors, delivered, told, bounds>>

\* Submit keys are handled late; an open question takes them for its own.
TerminalTakes(a) ==
  /\ Alive(a) /\ pane[a].pressed
  /\ IF pane[a].attention = "question"
     THEN pane' = [pane EXCEPT ![a].pressed = FALSE] /\ UNCHANGED delivered
     ELSE TakeComposer(a)
  /\ UNCHANGED <<store, memory, actors, ended, told, bounds>>

\* Someone types into the pane, or the Agent asks and is answered.
AttentionChanges(a) ==
  /\ Alive(a)
  /\ \E new \in {"working", "question"} :
       /\ pane[a].attention # new
       /\ \/ "question" \in happens
          \/ "external" \in happens /\ new = "working" /\ ~ Busy(a)
       /\ pane' = [pane EXCEPT ![a].attention = new]
  /\ UNCHANGED <<store, memory, actors, delivered, ended, told, bounds>>

PaneDies(a) ==
  /\ "death" \in happens
  /\ Alive(a)
  /\ PaneGone(a)
  /\ UNCHANGED <<store, memory, actors, delivered, told, bounds>>

\* Only the durable stores and the terminals survive; callers get no answer.
Crash ==
  /\ "crash" \in happens
  /\ crashes < MaxCrashes
  /\ crashes' = crashes + 1
  /\ phase' = [a \in Agents |-> NoPhase]
  /\ reset' = [a \in Agents |-> "none"]
  /\ restored' = {}
  /\ requests' = [p \in Prompts |-> "none"]
  /\ job' = [a \in Agents |-> Idle]
  /\ submits' = [p \in Prompts |-> IF submits[p].pc \in InFlight
                                   THEN [submits[p] EXCEPT !.pc = "refused"] ELSE submits[p]]
  /\ observer' = [o \in Observers |-> NotObserving]
  /\ cancelling' = {}
  /\ restart' = NoRestart
  /\ UNCHANGED <<store, world, told, failures>>

Submission(p) ==
  \/ \E a \in Agents : Submit(p, a)
  \/ SubmitRevives(p) \/ SubmitDecide(p) \/ SubmitEnqueue(p) \/ SubmitRefused(p)
Job(a) ==
  \/ JobNext(a) \/ JobPaste(a) \/ JobPasteFails(a) \/ JobVerify(a) \/ JobUnverified(a)
  \/ JobKeys(a) \/ JobAccept(a) \/ JobRetry(a) \/ JobUnaccepted(a) \/ JobRecord(a)
  \/ JobBoundary(a) \/ JobRemove(a) \/ JobHold(a) \/ JobFail(a)
  \/ DrainNote(a) \/ DrainFails(a) \/ DrainEnds(a) \/ ExternalBoundary(a)
Observation(o) ==
  \/ ObserveLooks(o) \/ TurnlessStarts(o) \/ TurnlessEnds(o) \/ TurnlessWaits(o)
  \/ ObserveMarks(o) \/ ObserveAdopts(o) \/ ObserveSettles(o) \/ SettleWaits(o) \/ ObserveHolds(o)
  \/ ObserveClears(o) \/ ObserveReleases(o)
  \/ AnswerPending(o) \/ AnswerCompletes(o) \/ AnswerFails(o) \/ AnswerIsReset(o)
Operator(a) ==
  \/ CancelSends(a) \/ CancelHolds(a)
  \/ \E p \in Prompts : Remove(a, p) \/ Save(a, p)
IdleRestart == RestartScans \/ RestartChecks \/ RestartCloses \/ RestartLaunches
                 \/ RestartHandsOver \/ HandOverFails
Environment(a) ==
  \/ \E how \in {"completed", "interrupted"} : TurnEnds(a, how)
  \/ TerminalTakes(a) \/ AttentionChanges(a) \/ PaneDies(a)

Next ==
  /\ UNCHANGED <<adapter, happens>>
  /\ \/ \E p \in Prompts : Submission(p)
     \/ \E a \in Agents : Restore(a) \/ RestoreFails(a) \/ Job(a) \/ Retire(a) \/ Operator(a) \/ RestartLocks(a) \/ Environment(a)
     \/ \E o \in Observers : Observation(o) \/ \E a \in Agents : Observe(o, a)
     \/ IdleRestart
     \/ Crash

Spec == Init /\ [][Next]_vars

(* Promises and timers always resolve, the dashboard keeps observing every   *)
(* Agent, grace periods end, and a terminal's turn or question does too; it  *)
(* handles the keys it was sent.                                             *)
Fairness ==
  /\ \A p \in Prompts :
       WF_moving(SubmitRevives(p) \/ SubmitDecide(p) \/ SubmitEnqueue(p) \/ SubmitRefused(p))
  /\ \A a \in Agents :
       /\ WF_moving(Restore(a)) /\ WF_moving(Job(a)) /\ WF_moving(CancelHolds(a))
       /\ SF_moving(Retire(a))
       /\ WF_moving(TerminalTakes(a))
       /\ WF_moving(TurnEnds(a, "completed") \/ TurnEnds(a, "interrupted"))
       /\ SF_moving(AttentionChanges(a) /\ pane[a].attention = "question")
  /\ \A o \in Observers :
       /\ \A a \in Agents : SF_moving(Observe(o, a))
       /\ WF_moving(Observation(o))
       /\ SF_moving(AnswerCompletes(o) \/ AnswerFails(o) \/ AnswerIsReset(o))
       /\ SF_moving(ObserveSettles(o)) /\ SF_moving(TurnlessEnds(o))
  /\ WF_moving(IdleRestart)

FairSpec == Spec /\ Fairness

-----------------------------------------------------------------------------
(* Properties *)

Places(p) ==
  {"queue" : x \in {a \in Agents : p \in Queued(a)}}
    \union {"confirmed" : x \in confirmed \intersect {p}}
    \union {"noted" : x \in notes \intersect {p}}
    \union {"removed" : x \in removed \intersect {p}}

\* No prompt is in two queues or twice in one.
QueuedOnce ==
  /\ \A a \in Agents : \A i, j \in DOMAIN queue[a] : queue[a][i] = queue[a][j] => i = j
  /\ \A a, b \in Agents : a # b => Queued(a) \intersect Queued(b) = {}

(* An accepted prompt is somewhere, and queued at most once: it leaves the   *)
(* durable queue only for a confirmed submission, a durable Note or the      *)
(* operator's removal, through crashes, failed writes, restarts, hand-overs  *)
(* that meet late submissions, and every race between them.                  *)
Accounted ==
  /\ \A p \in Prompts : submits[p].pc \in {"dispatch", "accepted"} => Places(p) # {}
  /\ QueuedOnce

\* Delivery keeps the custody protocol step by step.
Custody == INSTANCE PromptCustody WITH places <- [p \in Prompts |-> Places(p)]
KeepsCustody == Custody!Spec

(* send() reports a prompt as submitted only when the terminal took it, where *)
(* the adapter observes its composer, however late it takes it and however   *)
(* many observations are in progress.  Excepted are prompts whose draft an   *)
(* observation cleared while a job was submitting them: two observations at  *)
(* once can do that, and the empty composer counts as an acknowledgement.    *)
ConfirmedWasTaken ==
  Native => \A p \in confirmed : delivered[p] # <<>> \/ p \in wiped

(* A terminal takes only prompts that belong to its Agent: those sent to it, *)
(* and those a restart handed over (ADR 0012).                              *)
OwnAgentOnly ==
  [][\A p \in Prompts : delivered'[p] # delivered[p] =>
       delivered'[p] = Append(delivered[p], submits[p].agent)]_vars

Undisturbed == happens \subseteq {"cancel", "external", "overlap"}

(* No prompt is pasted and submitted a second time, whatever the terminal   *)
(* does: a failed attempt is held until its draft is gone and its queue is  *)
(* saved.  Storage failures and crashes are not excluded by the code.       *)
TakenOnce == Undisturbed => \A p \in Prompts : Len(delivered[p]) <= 1

(* A reset whose boundary is durable is never submitted again, not even by  *)
(* a server that restarted before the reset left its queue.  A write that    *)
(* fails, or an idle restart that overlaps the dispatch and hands the queue *)
(* over before the reset has left it, does repeat it.                       *)
Steady == Native /\ happens \intersect {"storage", "restart"} = {}
RecordedResetIsDone ==
  [][Steady =>
       \A p \in Prompts : (\E a \in Agents : boundary[a] = p) => delivered'[p] = delivered[p]]_vars

(* Only prompts that no terminal took are drained into Notes as undelivered. *)
NotesAreUndelivered == Undisturbed => \A p \in notes : delivered[p] = <<>>

(* Every queued prompt leaves its queue: it is delivered, or it is saved or   *)
(* removed, at the Agent, at its replacement or after the Agent is gone.    *)
QueueMoves ==
  \A p \in Prompts : (\E a \in Agents : p \in Queued(a)) ~> (\A a \in Agents : p \notin Queued(a))

(* What comments and docs say and interleavings break.                      *)

\* service.ts:354 "removed tracked work can never be dispatched"
RemovedIsNeverTaken == [][\A p \in removed : delivered'[p] = delivered[p]]_vars

\* app.ts:2667 "reject overlapping prompt and lifecycle work": a restart
\* never closes a pane that works on a prompt it was sent.
RestartSparesPrompts ==
  restart.pc = "close" => pane[restart.from].turn = {}

\* service.ts:1416 "hold its queue rather than releasing it"
CancelHoldsQueue ==
  [][\A a \in cancelling : ~ Dispatching(a) => job'[a].pc # "next"]_vars
=============================================================================
