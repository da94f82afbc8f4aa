-------------------------- MODULE PromptOnceProofs --------------------------
(***************************************************************************)
(* Proofs that PromptDelivery sends a prompt once: undisturbed             *)
(* (DeliveryCalm), and for a reset whose boundary is recorded (OwnJobs and *)
(* Recorded); and that what it confirms was taken or wiped (Acknowledged): *)
(* for any number of Agents, prompts and observations.                     *)
(***************************************************************************)
EXTENDS PromptDeliveryProofs
-----------------------------------------------------------------------------
(* Why TakenOnce and NotesAreUndelivered hold besides: undisturbed, no pane  *)
(* is lost, asks or is late and no draft is left, a composer holds just the *)
(* prompt that is being sent, and what is still queued was not taken, except *)
(* the prompt that its job is about to remove.                              *)
Undrafted ==
  /\ \A a \in Agents : phase[a].draft = None
  /\ \A o \in Observers : observer[o].seen.draft = None
Sent == {"accept", "record", "boundary", "remove"}
OneDraft ==
  \A a \in Agents :
    /\ job[a].pc # "hold"
    /\ job[a].pc \in {"verify", "keys", "accept"} => Alive(a)
    /\ pane[a].composer = IF job[a].pc \in {"verify", "keys"} THEN <<job[a].prompt>> ELSE <<>>
    /\ job[a].pc \in {"paste", "verify", "keys"} => delivered[job[a].prompt] = <<>>
Untaken ==
  /\ \A a \in Agents : \A p \in Queued(a) :
       delivered[p] = <<>> \/ (job[a].pc \in Sent /\ job[a].prompt = p)
  /\ \A p \in Prompts : submits[p].pc \in Outside => delivered[p] = <<>>
  /\ \A p \in Prompts : Len(delivered[p]) <= 1
Noted ==
  \A p \in notes :
    /\ delivered[p] = <<>>
    /\ \A a \in Agents : p \notin Queued(a) /\ (job[a].pc \in Sending => job[a].prompt # p)
DeliveryCalm ==
  /\ restart.pc = "none"
  /\ \A a \in Agents : pane[a].life # "dead" /\ pane[a].attention # "question" /\ ~ pane[a].pressed
  /\ Undrafted /\ OneDraft /\ Untaken /\ Noted
CalmHolds == Undisturbed => DeliveryCalm

(* Why RecordedResetIsDone holds besides: a recorded reset is in no composer *)
(* and in no job but the one that removes it, and while it is still queued  *)
(* nothing can start a dispatch before the boundary is read again.          *)
Unread(a) ==
  /\ a \notin restored /\ job[a].pc \in {"idle", "drain"}
  /\ \A p \in Prompts : submits[p].agent = a => submits[p].pc # "direct"
  /\ \A o \in Observers : observer[o].agent = a => observer[o].pc \in {"idle", "scan"}
Removing(a) == job[a].pc = "remove" /\ job[a].prompt = boundary[a]
Recorded ==
  \A a \in Agents : boundary[a] \in Prompts =>
    /\ submits[boundary[a]].agent = a
    /\ boundary[a] \notin Elements(pane[a].composer)
    /\ job[a].pc \in Sending /\ job[a].prompt = boundary[a] => job[a].pc = "remove"
    /\ boundary[a] \in Queued(a) => Unread(a) \/ Removing(a)
OwnJobs ==
  \A a \in Agents :
    /\ job[a].pc \in Sending => submits[job[a].prompt].agent = a
    /\ job[a].pc \in {"record", "boundary", "remove"}
         => job[a].prompt \notin Elements(pane[a].composer)
ResetsRecorded == Steady => restart.pc = "none" /\ OwnJobs /\ Recorded

(* Why ConfirmedWasTaken holds: a prompt that is being submitted leaves the  *)
(* composer for its terminal, however late that handles the keys, or for an *)
(* observation that clears it as a draft it saw failed before.              *)
Reached(p) == delivered[p] # <<>> \/ p \in wiped
Submitting ==
  \A a \in Agents :
    /\ job[a].pc \in {"keys", "accept"} => pane[a].life # "unborn"
    /\ job[a].pc \in {"keys", "accept"} /\ Alive(a) =>
         job[a].prompt \in Elements(pane[a].composer) \/ Reached(job[a].prompt)
    /\ job[a].pc = "record" => Reached(job[a].prompt)
Acknowledged == Native => Submitting /\ ConfirmedWasTaken
-----------------------------------------------------------------------------
(* Undisturbed, no draft is left behind                                     *)

\* What does not happen undisturbed.
LEMMA UndisturbedEvents ==
  ASSUME Undisturbed
  PROVE  /\ ~ Failure("terminal") /\ ~ Failure("storage") /\ ~ Failure("restartFails")
         /\ "death" \notin happens /\ "restart" \notin happens /\ "crash" \notin happens
         /\ "remove" \notin happens /\ "save" \notin happens /\ "question" \notin happens
  BY DEF Undisturbed, Failure

\* No draft is left behind by a step that sets a phase without one.
LEMMA SetDraft ==
  ASSUME Typed, Undrafted, NEW a \in Agents, NEW new \in Phases, SetPhase(a, new), new.draft = None
  PROVE  \A b \in Agents : phase'[b].draft = None
  BY DEF SetPhase, Typed, MemoryOK, Undrafted

LEMMA DraftsOfPhases ==
  /\ NoPhase.draft = None
  /\ \A state, p : Phase(state, p).draft = None
  /\ \A old \in Phases : \A state : [old EXCEPT !.state = state].draft = old.draft
  /\ \A old \in Phases : \A state, p : [old EXCEPT !.state = state, !.prompt = p].draft = old.draft
  /\ \A state, p : [Phase(state, p) EXCEPT !.draft = None].draft = None
  BY DEF NoPhase, Phase, Phases

LEMMA RestDraft ==
  ASSUME Typed, Undrafted, NEW o \in Observers, Rest(o)
  PROVE  \A x \in Observers : observer'[x].seen.draft = None
  BY DEF Rest, Typed, ObserversOK, Undrafted, NotObserving, NoPhase, Phase

LEMMA SubmissionUndrafted ==
  ASSUME Typed, Undrafted, NEW p \in Prompts, Submission(p)
  PROVE  Undrafted'
<1>1. UNCHANGED observer
  BY DEF Submission, Submit, SubmitRevives, SubmitDecide, SubmitEnqueue, SubmitRefused, actors
<1>2. CASE UNCHANGED phase
  BY <1>1, <1>2 DEF Undrafted
<1>3. CASE SubmitEnqueue(p) /\ ~ UNCHANGED phase
  <2>1. submits[p].agent \in Agents /\ SetPhase(submits[p].agent, Phase("working", None))
    BY <1>3 DEF SubmitEnqueue, SetPhase, Typed, SendersOK
  <2>2. Phase("working", None) \in Phases
    BY PhaseLemma DEF PhaseState
  <2> QED BY <1>1, <2>1, <2>2, SetDraft, DraftsOfPhases DEF Undrafted
<1> QED BY <1>2, <1>3 DEF Submission, Submit, SubmitRevives, SubmitDecide, SubmitRefused, memory

LEMMA JobUndrafted ==
  ASSUME Typed, Undrafted, Undisturbed, OneDraft, NEW a \in Agents, Job(a)
  PROVE  Undrafted'
<1>1. UNCHANGED observer
  BY DEF Job, JobNext, JobPaste, JobPasteFails, JobVerify, JobUnverified, JobKeys, JobAccept,
         JobRetry, JobUnaccepted, JobRecord, JobBoundary, JobRemove, JobHold, JobFail,
         DrainNote, DrainFails, DrainEnds, ExternalBoundary, actors
<1>2. \/ UNCHANGED phase
      \/ SetPhase(a, NoPhase)
      \/ job[a].pc \in Sending /\ SetPhase(a, Phase("awaiting-start", job[a].prompt))
      \/ job[a].pc \in Sending /\ SetPhase(a, [phase[a] EXCEPT !.state = "halted", !.prompt = job[a].prompt])
  BY DEF Job, JobNext, JobPaste, JobPasteFails, JobVerify, JobUnverified, JobKeys, JobAccept,
         JobRetry, JobUnaccepted, JobRecord, JobBoundary, JobRemove, JobHold, JobFail,
         DrainNote, DrainFails, DrainEnds, ExternalBoundary, Forget, memory, OneDraft, Sending
<1>3. job[a].pc \in Sending => job[a].prompt \in Prompts
  BY DEF Typed, SendersOK
<1>4. phase[a] \in Phases /\ phase[a].draft = None
  BY DEF Typed, MemoryOK, Undrafted
<1>5. ASSUME NEW new \in Phases, SetPhase(a, new), new.draft = None  PROVE Undrafted'
  BY <1>1, <1>5, SetDraft DEF Undrafted
<1>6. CASE UNCHANGED phase
  BY <1>1, <1>6 DEF Undrafted
<1>7. CASE SetPhase(a, NoPhase)
  BY <1>5, <1>7, PhaseLemma, DraftsOfPhases
<1>8. CASE job[a].pc \in Sending /\ SetPhase(a, Phase("awaiting-start", job[a].prompt))
  BY <1>3, <1>5, <1>8, PhaseLemma, DraftsOfPhases DEF PhaseState
<1>9. CASE job[a].pc \in Sending /\ SetPhase(a, [phase[a] EXCEPT !.state = "halted", !.prompt = job[a].prompt])
  <2> DEFINE new == [phase[a] EXCEPT !.state = "halted", !.prompt = job[a].prompt]
  <2>1. "halted" \in PhaseState /\ job[a].prompt \in Prompts
    BY <1>3, <1>9 DEF PhaseState
  <2>2. new \in Phases
    BY <1>4, <2>1, PhaseLemma
  <2>3. new.draft = phase[a].draft
    BY <1>4 DEF Phases
  <2> HIDE DEF new
  <2> QED BY <1>4, <1>5, <1>9, <2>2, <2>3 DEF new
<1> QED BY <1>2, <1>6, <1>7, <1>8, <1>9

LEMMA ObservationUndrafted ==
  ASSUME Typed, Undrafted, NEW o \in Observers, Observation(o) \/ \E a \in Agents : Observe(o, a)
  PROVE  Undrafted'
<1> DEFINE a == observer[o].agent
           seen == observer[o].seen
<1>1. CASE \E b \in Agents : Observe(o, b)
  BY <1>1 DEF Observe, Undrafted, Typed, ObserversOK, NoPhase, Phase, memory
<1>2. CASE ObserveLooks(o)
  <2>1. a \in Agents /\ UNCHANGED phase /\ phase[a].draft = None
    BY <1>2, SeenLemma DEF ObserveLooks, Looking, memory, Undrafted
  <2>2. PICK route : observer' = [observer EXCEPT ![o] =
            IF route = "idle" THEN NotObserving
            ELSE [pc |-> route, agent |-> a, busy |-> FALSE, seen |-> phase[a]]]
    BY <1>2 DEF ObserveLooks
  <2>3. \A x \in Observers \ {o} : observer'[x] = observer[x]
    BY <2>2 DEF Typed, ObserversOK
  <2>4. observer'[o].seen.draft = None
    BY <2>1, <2>2 DEF Typed, ObserversOK, NotObserving, NoPhase, Phase
  <2> QED BY <2>1, <2>3, <2>4 DEF Undrafted
<1>3. CASE Observation(o) /\ ~ ObserveLooks(o)
  <2>1. observer[o].pc # "idle"
    BY <1>3 DEF Observation, TurnlessStarts, TurnlessEnds, TurnlessWaits, ObserveMarks,
           ObserveAdopts, ObserveSettles, SettleWaits, ObserveHolds, ObserveClears,
           ObserveReleases, AnswerPending, AnswerCompletes, AnswerFails, AnswerIsReset, Looking
  <2>2. /\ a \in Agents /\ seen \in Phases /\ phase[a] \in Phases
        /\ seen.draft = None /\ phase[a].draft = None
        /\ seen.prompt \in Prompts \union {None} /\ phase[a].prompt \in Prompts \union {None}
    BY <2>1, SeenLemma, PhaseLemma DEF Undrafted
  <2>3. \/ UNCHANGED phase
        \/ SetPhase(a, NoPhase)
        \/ \E state \in PhaseState :
             \/ SetPhase(a, [seen EXCEPT !.state = state])
             \/ SetPhase(a, [phase[a] EXCEPT !.state = state])
             \/ \E p \in Prompts \union {None} : SetPhase(a, Phase(state, p))
             \/ SetPhase(a, [Phase(state, phase[a].prompt) EXCEPT !.draft = None])
    <3>1. CASE TurnlessStarts(o) \/ TurnlessEnds(o) \/ TurnlessWaits(o) \/ ObserveMarks(o)
      BY <3>1 DEF TurnlessStarts, TurnlessEnds, TurnlessWaits, ObserveMarks, Halt, memory, PhaseState
    <3>2. CASE ObserveAdopts(o)
      <4>1. \A p \in unanswered[a] : p \in Prompts
        BY <2>2 DEF Typed, StoreOK
      <4> QED BY <3>2, <4>1 DEF ObserveAdopts, PhaseState
    <3>3. CASE ObserveSettles(o) \/ SettleWaits(o) \/ ObserveClears(o) \/ ObserveReleases(o)
      BY <3>3 DEF ObserveSettles, SettleWaits, ObserveClears, ObserveReleases, memory
    <3>4. CASE ObserveHolds(o)
      BY <3>4 DEF ObserveHolds, Hold, PhaseState
    <3>5. CASE AnswerPending(o) \/ AnswerCompletes(o) \/ AnswerFails(o) \/ AnswerIsReset(o)
      BY <3>5 DEF AnswerPending, AnswerCompletes, AnswerFails, AnswerIsReset, Halt, memory, PhaseState
    <3> QED BY <1>3, <3>1, <3>2, <3>3, <3>4, <3>5 DEF Observation
  <2>4. \A b \in Agents : phase'[b].draft = None
    <3>1. ASSUME NEW new \in Phases, SetPhase(a, new), new.draft = None  PROVE \A b \in Agents : phase'[b].draft = None
      BY <2>2, <3>1, SetDraft
    <3>2. CASE UNCHANGED phase
      BY <3>2 DEF Undrafted
    <3>3. CASE SetPhase(a, NoPhase)
      <4>1. NoPhase \in Phases /\ NoPhase.draft = None
        BY PhaseLemma, DraftsOfPhases
      <4> QED BY <3>1, <3>3, <4>1
    <3>4. ASSUME NEW state \in PhaseState, SetPhase(a, [seen EXCEPT !.state = state])
          PROVE  \A b \in Agents : phase'[b].draft = None
      <4>1. [seen EXCEPT !.state = state] \in Phases /\ [seen EXCEPT !.state = state].draft = None
        BY <2>2, PhaseLemma, DraftsOfPhases
      <4> QED BY <3>1, <3>4, <4>1
    <3>5. ASSUME NEW state \in PhaseState, SetPhase(a, [phase[a] EXCEPT !.state = state])
          PROVE  \A b \in Agents : phase'[b].draft = None
      <4>1. [phase[a] EXCEPT !.state = state] \in Phases /\ [phase[a] EXCEPT !.state = state].draft = None
        BY <2>2, PhaseLemma, DraftsOfPhases
      <4> QED BY <3>1, <3>5, <4>1
    <3>6. ASSUME NEW state \in PhaseState, NEW p \in Prompts \union {None}, SetPhase(a, Phase(state, p))
          PROVE  \A b \in Agents : phase'[b].draft = None
      <4>1. Phase(state, p) \in Phases /\ Phase(state, p).draft = None
        BY PhaseLemma, DraftsOfPhases
      <4> QED BY <3>1, <3>6, <4>1
    <3>7. ASSUME NEW state \in PhaseState,
                 SetPhase(a, [Phase(state, phase[a].prompt) EXCEPT !.draft = None])
          PROVE  \A b \in Agents : phase'[b].draft = None
      <4> DEFINE new == [Phase(state, phase[a].prompt) EXCEPT !.draft = None]
      <4>1. Phase(state, phase[a].prompt) \in Phases
        BY <2>2, PhaseLemma
      <4>2. new \in Phases
        BY <4>1, PhaseLemma
      <4>3. new.draft = None
        BY DraftsOfPhases
      <4> HIDE DEF new
      <4> QED BY <3>1, <3>7, <4>2, <4>3 DEF new
    <3> QED BY <2>3, <3>2, <3>3, <3>4, <3>5, <3>6, <3>7
  <2>5. Rest(o) \/ Watch(o, "hold")
    BY <1>3 DEF Observation, TurnlessStarts, TurnlessEnds, TurnlessWaits, ObserveMarks,
           ObserveAdopts, ObserveSettles, SettleWaits, ObserveHolds, ObserveClears,
           ObserveReleases, AnswerPending, AnswerCompletes, AnswerFails, AnswerIsReset
  <2>6. \A x \in Observers : observer'[x].seen.draft = None
    <3>1. CASE Rest(o)
      BY <3>1, RestDraft
    <3>2. CASE Watch(o, "hold")
      BY <3>2 DEF Watch, Typed, ObserversOK, Observations, Undrafted
    <3> QED BY <2>5, <3>1, <3>2
  <2> QED BY <2>4, <2>6 DEF Undrafted
<1> QED BY <1>1, <1>2, <1>3

\* The steps of one Agent that belong to no job, undisturbed.
LEMMA AgentUndrafted ==
  ASSUME Typed, Undrafted, Undisturbed, NEW a \in Agents,
         Restore(a) \/ RestoreFails(a) \/ Retire(a) \/ Operator(a) \/ Environment(a)
  PROVE  Undrafted'
<1>1. CASE CancelHolds(a)
  <2>1. Phase("halted", phase[a].prompt) \in Phases
    BY PhaseLemma DEF Typed, MemoryOK, PhaseState
  <2> QED BY <1>1, <2>1, SetDraft, DraftsOfPhases DEF CancelHolds, Undrafted
<1>2. CASE ~ CancelHolds(a)
  <2>1. UNCHANGED <<phase, observer>>
    <3>1. ~ RestoreFails(a)
      BY UndisturbedEvents DEF RestoreFails
    <3>2. CASE Restore(a) \/ Retire(a)
      BY <3>2 DEF Restore, Retire, actors, memory
    <3>3. CASE Operator(a)
      BY <1>2, <3>3 DEF Operator, CancelSends, Remove, Save, memory, actors
    <3>4. CASE Environment(a)
      BY <3>4 DEF Environment, TurnEnds, TerminalTakes, AttentionChanges, PaneDies, memory, actors
    <3> QED BY <3>1, <3>2, <3>3, <3>4
  <2> QED BY <2>1 DEF Undrafted
<1> QED BY <1>1, <1>2
-----------------------------------------------------------------------------
(* What a step may do to the calm, and the steps that do no more            *)

\* What a step may do that neither pastes, sends nor enqueues a prompt.
PanesCalm == \A a \in Agents :
  /\ pane'[a].composer = pane[a].composer /\ pane'[a].life = pane[a].life
  /\ pane'[a].attention # "question" /\ ~ pane'[a].pressed
JobsCalm == \A a \in Agents :
  /\ job'[a].pc # "hold"
  /\ job'[a].pc \in {"verify", "keys"} <=> job[a].pc \in {"verify", "keys"}
  /\ job'[a].pc = "accept" => job[a].pc = "accept"
  /\ job'[a].pc = "paste" => job[a].pc = "paste"
  /\ job'[a].pc \in Sending => job[a].pc \in Sending /\ job'[a].prompt = job[a].prompt
  /\ job[a].pc \in Sent => \/ job'[a].pc \in Sent /\ job'[a].prompt = job[a].prompt
                           \/ job[a].prompt \notin Queued(a)'
SubmitsCalm == \A p \in Prompts : submits'[p].pc \in Outside => submits[p].pc \in Outside

LEMMA CalmKeeps ==
  ASSUME Typed, DeliveryCalm, Undrafted', UNCHANGED <<restart, delivered, notes>>,
         QueuesShrink, PanesCalm, JobsCalm, SubmitsCalm
  PROVE  DeliveryCalm'
<1>1. OneDraft'
  <2> SUFFICES ASSUME NEW a \in Agents
      PROVE  /\ job'[a].pc # "hold"
             /\ job'[a].pc \in {"verify", "keys", "accept"} => pane'[a].life = "alive"
             /\ pane'[a].composer = IF job'[a].pc \in {"verify", "keys"} THEN <<job'[a].prompt>> ELSE <<>>
             /\ job'[a].pc \in {"paste", "verify", "keys"} => delivered'[job'[a].prompt] = <<>>
    BY DEF OneDraft, Alive
  <2>1. job'[a].pc # "hold"
    BY DEF JobsCalm
  <2>2. job'[a].pc \in {"verify", "keys", "accept"} => pane'[a].life = "alive"
    BY DEF JobsCalm, PanesCalm, DeliveryCalm, OneDraft, Alive
  <2>3. CASE job'[a].pc \in {"verify", "keys"}
    <3>1. job[a].pc \in {"verify", "keys"} /\ job'[a].prompt = job[a].prompt
      BY <2>3 DEF JobsCalm, Sending
    <3> QED BY <2>1, <2>2, <2>3, <3>1 DEF PanesCalm, DeliveryCalm, OneDraft
  <2>4. CASE job'[a].pc \notin {"verify", "keys"}
    <3>1. job[a].pc \notin {"verify", "keys"}
      BY <2>4 DEF JobsCalm
    <3>2. pane'[a].composer = <<>>
      BY <3>1 DEF PanesCalm, DeliveryCalm, OneDraft
    <3>3. job'[a].pc = "paste" => delivered'[job'[a].prompt] = <<>>
      BY DEF JobsCalm, DeliveryCalm, OneDraft, Sending
    <3> QED BY <2>1, <2>2, <2>4, <3>2, <3>3
  <2> QED BY <2>3, <2>4
<1>2. Untaken'
  <2>1. ASSUME NEW a \in Agents, NEW p \in Queued(a)'
        PROVE  delivered'[p] = <<>> \/ (job'[a].pc \in Sent /\ job'[a].prompt = p)
    BY <2>1 DEF QueuesShrink, JobsCalm, DeliveryCalm, Untaken
  <2>2. \A p \in Prompts : submits'[p].pc \in Outside => delivered'[p] = <<>>
    BY DEF SubmitsCalm, DeliveryCalm, Untaken
  <2> QED BY <2>1, <2>2 DEF Untaken, DeliveryCalm
<1>3. Noted'
  BY DEF DeliveryCalm, Noted, QueuesShrink, JobsCalm
<1>4. \A a \in Agents : pane'[a].life # "dead" /\ pane'[a].attention # "question" /\ ~ pane'[a].pressed
  BY DEF PanesCalm, DeliveryCalm
<1> QED BY <1>1, <1>2, <1>3, <1>4 DEF DeliveryCalm

LEMMA Undone ==
  /\ UNCHANGED queue => QueuesShrink
  /\ UNCHANGED pane /\ DeliveryCalm => PanesCalm
  /\ UNCHANGED <<queue, job>> /\ DeliveryCalm => JobsCalm
  /\ UNCHANGED submits => SubmitsCalm
  BY DEF QueuesShrink, PanesCalm, JobsCalm, SubmitsCalm, DeliveryCalm, OneDraft, Queued

LEMMA StartCalm ==
  ASSUME Typed, DeliveryCalm, NEW a \in Agents, NEW pc \in {"next", "drain", "external"},
         NEW owner \in Prompts \union {None}, NEW then \in {"nothing", "clearPhase", "retire"},
         job[a].pc = "idle", StartJob(a, pc, owner, then)
  PROVE  JobsCalm
<1>1. /\ job'[a] = [pc |-> pc, prompt |-> None, owner |-> owner, then |-> then]
      /\ job'[a].pc \notin Sending
      /\ \A b \in Agents \ {a} : job'[b] = job[b]
  BY StartJobLemma, ZenonT(60) DEF Typed
<1>2. job'[a].pc \in {"next", "drain", "external"}
  BY <1>1
<1> QED BY <1>1, <1>2 DEF JobsCalm, DeliveryCalm, OneDraft, Sent, Sending

LEMMA StepCalm ==
  ASSUME Typed, DeliveryCalm, NEW a \in Agents, NEW pc, Step(a, pc), UNCHANGED submits,
         \/ job[a].pc = "verify" /\ pc = "keys"
         \/ job[a].pc = "accept" /\ pc = "record"
         \/ job[a].pc = "record" /\ pc \in {"boundary", "remove"}
         \/ job[a].pc = "boundary" /\ pc = "remove"
         \/ job[a].pc = "paste" /\ pc = "fail"
         \/ job[a].pc = "external" /\ pc = "next"
  PROVE  JobsCalm
<1>1. pc \in JobPc /\ (pc \in Sending => job[a].pc \in Sending)
  BY DEF JobPc, Sending
<1>2. /\ job'[a].pc = pc /\ job'[a].prompt = job[a].prompt
      /\ \A b \in Agents \ {a} : job'[b] = job[b]
  BY <1>1, StepLemma DEF Typed, SendersOK
<1> QED BY <1>1, <1>2 DEF JobsCalm, DeliveryCalm, OneDraft, Sent

LEMMA FinishCalm ==
  ASSUME Typed, DeliveryCalm, NEW a \in Agents, NEW outcome \in {"accepted", "refused"}, Finish(a, outcome),
         job[a].pc \in {"next", "drain", "external", "fail"}
           \/ (job[a].pc \in Sent /\ job[a].prompt \notin Queued(a)')
  PROVE  JobsCalm /\ SubmitsCalm
<1>1. /\ job'[a] = Idle
      /\ \A b \in Agents \ {a} : job'[b] = job[b]
      /\ \A p \in Prompts \ {job[a].owner} : submits'[p] = submits[p]
      /\ job[a].owner \in Prompts => submits'[job[a].owner].pc = outcome
  BY FinishLemma DEF Typed
<1>2. Idle.pc = "idle"
  BY DEF Idle
<1>3. JobsCalm
  BY <1>1, <1>2 DEF JobsCalm, DeliveryCalm, OneDraft, Sent, Sending
<1>4. SubmitsCalm
  BY <1>1 DEF SubmitsCalm, Outside, InFlight
<1> QED BY <1>3, <1>4

\* Observations start a job only where none is.
LEMMA ObservationCalm ==
  ASSUME Typed, DeliveryCalm, Undisturbed, NEW o \in Observers,
         Observation(o) \/ \E a \in Agents : Observe(o, a)
  PROVE  DeliveryCalm'
<1> DEFINE a == observer[o].agent
<1>1. Undrafted'
  BY ObservationUndrafted DEF DeliveryCalm
<1>2. UNCHANGED <<restart, delivered, notes, queue, submits>>
  BY DEF Observation, Observe, ObserveLooks, TurnlessStarts, TurnlessEnds, TurnlessWaits,
         ObserveMarks, ObserveAdopts, ObserveSettles, SettleWaits, ObserveHolds, ObserveClears,
         ObserveReleases, AnswerPending, AnswerCompletes, AnswerFails, AnswerIsReset, store, world
<1>3. UNCHANGED pane
  <2>1. CASE ObserveClears(o)
    BY <2>1 DEF ObserveClears, DeliveryCalm, Undrafted
  <2>2. CASE ~ ObserveClears(o)
    BY <2>2 DEF Observation, Observe, ObserveLooks, TurnlessStarts, TurnlessEnds, TurnlessWaits,
         ObserveMarks, ObserveAdopts, ObserveSettles, SettleWaits, ObserveHolds,
         ObserveReleases, AnswerPending, AnswerCompletes, AnswerFails, AnswerIsReset, world
  <2> QED BY <2>1, <2>2
<1>4. \/ UNCHANGED job
      \/ /\ observer[o].pc # "idle" /\ job[a].pc = "idle"
         /\ \E pc \in {"next", "drain", "external"}, then \in {"nothing", "clearPhase"} :
              StartJob(a, pc, None, then)
  <2>1. CASE TurnlessEnds(o) \/ ObserveSettles(o) \/ AnswerCompletes(o) \/ AnswerFails(o)
    BY <2>1 DEF TurnlessEnds, ObserveSettles, AnswerCompletes, AnswerFails, Halt, Drain, Dispatch,
                Free, Dispatching, Looking
  <2>2. CASE AnswerIsReset(o) \/ ObserveReleases(o) \/ ObserveClears(o)
    BY <2>2 DEF AnswerIsReset, ObserveReleases, ObserveClears, Drain, CanDispatch, Free, Dispatching
  <2>3. CASE \/ \E b \in Agents : Observe(o, b)
             \/ ObserveLooks(o) \/ TurnlessStarts(o) \/ TurnlessWaits(o) \/ ObserveMarks(o)
             \/ ObserveAdopts(o) \/ SettleWaits(o) \/ ObserveHolds(o) \/ AnswerPending(o)
    BY <2>3 DEF Observe, ObserveLooks, TurnlessStarts, TurnlessWaits, ObserveMarks, ObserveAdopts,
                SettleWaits, ObserveHolds, AnswerPending
  <2> QED BY <2>1, <2>2, <2>3 DEF Observation
<1>5. JobsCalm
  BY <1>2, <1>4, SeenLemma, StartCalm, Undone
<1> QED BY <1>1, <1>2, <1>3, <1>5, CalmKeeps, Undone

\* Submissions before and after the queue.
LEMMA SubmissionCalm ==
  ASSUME Typed, Safekept, DeliveryCalm, NEW p \in Prompts,
         (\E a \in Agents : Submit(p, a)) \/ SubmitRevives(p) \/ SubmitDecide(p) \/ SubmitRefused(p)
  PROVE  DeliveryCalm'
<1>1. Undrafted'
  BY SubmissionUndrafted DEF Submission, DeliveryCalm
<1>2. UNCHANGED <<restart, delivered, notes, queue, job, pane>>
  BY DEF Submit, SubmitRevives, SubmitDecide, SubmitRefused, store, world, actors
<1>3. SubmitsCalm
  BY SubmissionQuiet DEF Quiet, SubmitsKept, SubmitsCalm
<1> QED BY <1>1, <1>2, <1>3, CalmKeeps, Undone

LEMMA SubmitEnqueueCalm ==
  ASSUME Typed, Safekept, DeliveryCalm, NEW p \in Prompts, SubmitEnqueue(p)
  PROVE  DeliveryCalm'
<1>0. PICK a \in Agents : a = submits[p].agent
  BY DEF SubmitEnqueue, Typed, SendersOK
<1>1. /\ submits[p].pc \in Outside /\ submits[p].agent = a
      /\ UNCHANGED <<notes, delivered, restart, pane>>
      /\ queue' = [queue EXCEPT ![a] = Append(@, p)]
  BY <1>0 DEF SubmitEnqueue, Outside, InFlight, world
<1>2. Undrafted'
  BY SubmissionUndrafted DEF Submission, DeliveryCalm
<1>3. /\ submits'[p].pc \in {"dispatch", "accepted"}
      /\ \A q \in Prompts \ {p} : submits'[q] = submits[q]
  <2>1. \E pc \in {"dispatch", "accepted"} : submits' = [submits EXCEPT ![p].pc = pc]
    BY DEF SubmitEnqueue
  <2> QED BY <2>1, SubmitPcLemma DEF Typed, SubmitPc, InFlight
<1>4. \A b \in Agents :
        /\ \/ job'[b] = job[b]
           \/ job[b].pc = "idle" /\ job'[b].pc = "next"
  <2>1. CASE UNCHANGED job
    BY <2>1
  <2>2. CASE job[a].pc = "idle" /\ StartJob(a, "next", p, "nothing")
    <3>1. /\ job'[a] = [pc |-> "next", prompt |-> None, owner |-> p, then |-> "nothing"]
          /\ \A b \in Agents \ {a} : job'[b] = job[b]
      BY <2>2, StartJobLemma DEF Typed
    <3>2. job'[a].pc = "next"
      BY <3>1
    <3> QED BY <2>2, <3>1, <3>2
  <2> QED BY <1>0, <2>1, <2>2 DEF SubmitEnqueue, CanDispatch, Free, Dispatching
<1>5. /\ Queued(a)' = Queued(a) \union {p}
      /\ \A b \in Agents \ {a} : Queued(b)' = Queued(b)
      /\ p \notin notes /\ delivered[p] = <<>>
  <2>1. Places(p) = {}
    BY <1>1 DEF Safekept, Kept
  <2>2. Injective(queue[a]) /\ queue[a] \in Seq(Prompts) /\ p \notin Elements(queue[a])
    BY <2>1, PlacesLemma DEF Safekept, QueuedOnce, Injective, Typed, StoreOK, Queued
  <2>3. Elements(Append(queue[a], p)) = Elements(queue[a]) \union {p}
    BY <2>2, AppendLemma
  <2>4. queue'[a] = Append(queue[a], p) /\ \A b \in Agents \ {a} : queue'[b] = queue[b]
    BY <1>1 DEF Typed, StoreOK
  <2> QED BY <1>1, <2>1, <2>3, <2>4, PlacesLemma DEF Queued, DeliveryCalm, Untaken
<1>6. OneDraft'
  BY <1>1, <1>4 DEF DeliveryCalm, OneDraft, Alive
<1>7. Untaken'
  <2>1. ASSUME NEW b \in Agents, NEW q \in Queued(b)'
        PROVE  delivered'[q] = <<>> \/ (job'[b].pc \in Sent /\ job'[b].prompt = q)
    BY <1>1, <1>4, <1>5 DEF DeliveryCalm, Untaken, Sent
  <2>2. \A q \in Prompts : submits'[q].pc \in Outside => delivered'[q] = <<>>
    BY <1>1, <1>3, <1>5 DEF DeliveryCalm, Untaken
  <2> QED BY <1>1, <2>1, <2>2 DEF DeliveryCalm, Untaken
<1>8. Noted'
  BY <1>1, <1>4, <1>5 DEF DeliveryCalm, Noted, Sending
<1> QED BY <1>1, <1>2, <1>6, <1>7, <1>8 DEF DeliveryCalm
-----------------------------------------------------------------------------
(* The steps of a job that send a prompt                                    *)

\* Attempts that cannot fail, undisturbed: no terminal or storage failure,
\* no pane that is gone or asks, no foreign draft.
LEMMA NoAttemptFails ==
  ASSUME Undisturbed, DeliveryCalm, NEW a \in Agents
  PROVE  /\ ~ JobUnverified(a) /\ ~ JobUnaccepted(a) /\ ~ JobRetry(a) /\ ~ JobHold(a)
         /\ ~ DrainFails(a) /\ ~ RestoreFails(a) /\ ~ Retire(a)
         /\ \A p \in Prompts : ~ Remove(a, p) /\ ~ Save(a, p)
         /\ ~ RestartLocks(a) /\ ~ TerminalTakes(a) /\ ~ PaneDies(a) /\ ~ IdleRestart /\ ~ Crash
<1> USE UndisturbedEvents
<1>0. /\ pane[a].attention # "question" /\ ~ pane[a].pressed
      /\ job[a].pc \in {"verify", "accept"} => Alive(a)
      /\ job[a].pc = "verify" => pane[a].composer = <<job[a].prompt>>
      /\ job[a].pc = "accept" => pane[a].composer = <<>>
      /\ job[a].pc # "hold"
      /\ <<>> # <<job[a].prompt>>
  BY DEF DeliveryCalm, OneDraft
<1>1. ~ JobUnverified(a)
  BY <1>0 DEF JobUnverified
<1>2. ~ JobUnaccepted(a)
  BY <1>0 DEF JobUnaccepted
<1>3. ~ JobRetry(a)
  BY <1>0 DEF JobRetry
<1>4. ~ JobHold(a)
  BY <1>0 DEF JobHold
<1>5. ~ DrainFails(a) /\ ~ RestoreFails(a) /\ ~ Retire(a)
  BY DEF DrainFails, RestoreFails, Retire, DeliveryCalm
<1>6. \A p \in Prompts : ~ Remove(a, p) /\ ~ Save(a, p)
  BY DEF Remove, Save
<1>7. ~ RestartLocks(a) /\ ~ TerminalTakes(a) /\ ~ PaneDies(a) /\ ~ Crash
  BY <1>0 DEF RestartLocks, TerminalTakes, PaneDies, Crash
<1>8. ~ IdleRestart
  BY DEF IdleRestart, RestartScans, RestartChecks, RestartCloses, RestartLaunches,
         RestartHandsOver, HandOverFails, DeliveryCalm
<1> QED BY <1>1, <1>2, <1>3, <1>4, <1>5, <1>6, <1>7, <1>8

LEMMA JobNextCalm ==
  ASSUME Typed, Safekept, Undisturbed, DeliveryCalm, NEW a \in Agents, JobNext(a)
  PROVE  DeliveryCalm'
<1>1. Undrafted'
  BY JobUndrafted DEF Job, DeliveryCalm
<1>2. UNCHANGED <<restart, delivered, notes, queue, pane>>
  BY DEF JobNext, store, world
<1>3. CASE queue[a] = <<>>
  <2>1. JobsCalm /\ SubmitsCalm
    BY <1>3, FinishCalm DEF JobNext
  <2> QED BY <1>1, <1>2, <2>1, CalmKeeps, Undone
<1>4. CASE queue[a] # <<>>
  <2> DEFINE p == Head(queue[a])
  <2>1. p \in Prompts /\ p \in Queued(a)
    BY <1>4, HeadQueued
  <2>2. delivered[p] = <<>> /\ p \notin notes
    BY <2>1 DEF JobNext, DeliveryCalm, Untaken, Sent, Noted
  <2>3. /\ job'[a].pc = "paste" /\ job'[a].prompt = p
        /\ \A b \in Agents \ {a} : job'[b] = job[b]
        /\ UNCHANGED submits
    BY <1>4 DEF JobNext, Typed, SendersOK, Jobs
  <2>4. OneDraft'
    <3>1. pane[a].composer = <<>>
      BY DEF DeliveryCalm, OneDraft, JobNext
    <3> QED BY <1>2, <2>2, <2>3, <3>1 DEF DeliveryCalm, OneDraft, Alive
  <2>5. Untaken'
    <3>1. ASSUME NEW b \in Agents, NEW q \in Queued(b)'
          PROVE  delivered'[q] = <<>> \/ (job'[b].pc \in Sent /\ job'[b].prompt = q)
      <4>1. q \in Queued(b) /\ delivered'[q] = delivered[q]
        BY <1>2 DEF Queued
      <4>2. b = a => delivered[q] = <<>>
        BY <4>1 DEF JobNext, DeliveryCalm, Untaken, Sent
      <4> QED BY <2>3, <4>1, <4>2 DEF DeliveryCalm, Untaken
    <3> QED BY <1>2, <2>3, <3>1 DEF DeliveryCalm, Untaken
  <2>6. Noted'
    BY <1>2, <2>2, <2>3 DEF DeliveryCalm, Noted, Queued
  <2> QED BY <1>1, <1>2, <2>4, <2>5, <2>6 DEF DeliveryCalm
<1> QED BY <1>3, <1>4

LEMMA JobPasteCalm ==
  ASSUME Typed, Undisturbed, DeliveryCalm, NEW a \in Agents, JobPaste(a)
  PROVE  DeliveryCalm'
<1> DEFINE p == job[a].prompt
<1>1. Undrafted'
  BY JobUndrafted DEF Job, DeliveryCalm
<1>2. UNCHANGED <<restart, delivered, notes, queue, submits>> /\ job[a].pc = "paste" /\ p \in Prompts
  BY DEF JobPaste, store, Typed, SendersOK, Sending
<1>3. /\ job'[a].pc = "verify" /\ job'[a].prompt = p
      /\ \A b \in Agents \ {a} : job'[b] = job[b]
  BY <1>2, StepLemma DEF JobPaste, Typed, JobPc, Sending
<1>4. /\ pane'[a].composer = <<p>>
      /\ \A b \in Agents \ {a} : pane'[b] = pane[b]
      /\ \A b \in Agents : pane'[b].life = pane[b].life
      /\ pane'[a].attention = pane[a].attention /\ pane'[a].pressed = pane[a].pressed
  <2>1. pane[a].composer = <<>>
    BY <1>2 DEF DeliveryCalm, OneDraft
  <2>2. pane' = [pane EXCEPT ![a].composer = <<p>>]
    BY <2>1 DEF JobPaste
  <2>3. <<p>> \in Seq(Prompts)
    BY <1>2
  <2>4. pane'[a].attention = pane[a].attention /\ pane'[a].pressed = pane[a].pressed
    BY <2>2 DEF Typed, WorldOK, Panes
  <2> QED BY <2>2, <2>3, <2>4, ComposerLemma DEF Typed
<1>5. OneDraft'
  <2>1. Alive(a) /\ delivered[p] = <<>>
    BY <1>2 DEF JobPaste, DeliveryCalm, OneDraft
  <2>2. \A b \in Agents \ {a} :
          /\ job'[b] = job[b] /\ pane'[b] = pane[b] /\ delivered'[job[b].prompt] = delivered[job[b].prompt]
    BY <1>2, <1>3, <1>4
  <2>3. \A b \in Agents \ {a} :
          /\ job'[b].pc # "hold"
          /\ job'[b].pc \in {"verify", "keys", "accept"} => pane'[b].life = "alive"
          /\ pane'[b].composer = IF job'[b].pc \in {"verify", "keys"} THEN <<job'[b].prompt>> ELSE <<>>
          /\ job'[b].pc \in {"paste", "verify", "keys"} => delivered'[job'[b].prompt] = <<>>
    BY <2>2 DEF DeliveryCalm, OneDraft, Alive
  <2>4. /\ job'[a].pc # "hold" /\ pane'[a].life = "alive"
        /\ pane'[a].composer = <<job'[a].prompt>> /\ delivered'[job'[a].prompt] = <<>>
    BY <1>2, <1>3, <1>4, <2>1 DEF Alive
  <2> QED BY <1>3, <2>3, <2>4 DEF OneDraft, Alive
<1>6. Untaken'
  <2>1. ASSUME NEW b \in Agents, NEW q \in Queued(b)'
        PROVE  delivered'[q] = <<>> \/ (job'[b].pc \in Sent /\ job'[b].prompt = q)
    <3>1. q \in Queued(b) /\ delivered'[q] = delivered[q]
      BY <1>2 DEF Queued
    <3>2. b = a => delivered[q] = <<>>
      BY <1>2, <3>1 DEF DeliveryCalm, Untaken, Sent
    <3> QED BY <1>3, <3>1, <3>2 DEF DeliveryCalm, Untaken
  <2> QED BY <1>2, <2>1 DEF DeliveryCalm, Untaken
<1>7. Noted'
  BY <1>2, <1>3 DEF DeliveryCalm, Noted, Queued, Sending
<1>8. \A b \in Agents : pane'[b].life # "dead" /\ pane'[b].attention # "question" /\ ~ pane'[b].pressed
  BY <1>4 DEF DeliveryCalm
<1> QED BY <1>1, <1>2, <1>5, <1>6, <1>7, <1>8 DEF DeliveryCalm

\* The pane takes the one prompt of its composer, which no pane took before.
LEMMA JobKeysCalm ==
  ASSUME Typed, Safekept, Owned, Undisturbed, DeliveryCalm, NEW a \in Agents, JobKeys(a)
  PROVE  DeliveryCalm'
<1> DEFINE p == job[a].prompt
<1>1. Undrafted'
  BY JobUndrafted DEF Job, DeliveryCalm
<1>2. /\ UNCHANGED <<restart, notes, queue, submits>> /\ job[a].pc = "keys" /\ p \in Prompts
      /\ pane[a].composer = <<p>> /\ delivered[p] = <<>> /\ pane[a].attention # "question"
      /\ Alive(a)
  BY DEF JobKeys, store, Typed, SendersOK, Sending, DeliveryCalm, OneDraft
<1>3. TakeComposer(a) /\ (Step(a, "accept") \/ Step(a, "record"))
  BY <1>2, UndisturbedEvents DEF JobKeys
<1>4. /\ job'[a].pc \in {"accept", "record"} /\ job'[a].prompt = p
      /\ \A b \in Agents \ {a} : job'[b] = job[b]
  BY <1>2, <1>3, StepLemma DEF Typed, JobPc, Sending
<1>5. /\ pane'[a].composer = <<>>
      /\ \A b \in Agents \ {a} : pane'[b] = pane[b]
      /\ \A b \in Agents : pane'[b].life = pane[b].life
      /\ pane'[a].attention # "question" /\ ~ pane'[a].pressed
  <2>1. pane'[a].attention \in {pane[a].attention, "working"} /\ ~ pane'[a].pressed
    BY <1>3 DEF TakeComposer, Typed, WorldOK, Panes
  <2> QED BY <1>2, <1>3, <2>1, TakeLemma DEF Typed
<1>6. delivered'[p] = <<a>> /\ \A q \in Prompts \ {p} : delivered'[q] = delivered[q]
  <2>1. Elements(pane[a].composer) = {p}
    BY <1>2 DEF Elements
  <2>2. \A q \in Prompts : delivered'[q] = IF q = p THEN Append(delivered[q], a) ELSE delivered[q]
    BY <1>3, <2>1, TakenLemma
  <2>3. Append(<<>>, a) = <<a>>
    OBVIOUS
  <2> QED BY <1>2, <2>2, <2>3
<1>7. \A b \in Agents \ {a} : p \notin Queued(b) /\ (job[b].pc \in Sending => job[b].prompt # p)
  <2>1. submits[p].agent = a
    BY <1>2 DEF Owned, DeliveryCalm, Sending
  <2> QED BY <2>1 DEF Owned, DeliveryCalm
<1>8. OneDraft'
  <2>1. ASSUME NEW b \in Agents \ {a}, job[b].pc \in {"paste", "verify", "keys"}
        PROVE  delivered'[job[b].prompt] = <<>>
    BY <1>6, <1>7, <2>1 DEF DeliveryCalm, OneDraft, Sending, Typed, SendersOK
  <2>2. \A b \in Agents \ {a} :
          /\ job'[b].pc # "hold"
          /\ job'[b].pc \in {"verify", "keys", "accept"} => pane'[b].life = "alive"
          /\ pane'[b].composer = IF job'[b].pc \in {"verify", "keys"} THEN <<job'[b].prompt>> ELSE <<>>
          /\ job'[b].pc \in {"paste", "verify", "keys"} => delivered'[job'[b].prompt] = <<>>
    BY <1>4, <1>5, <2>1 DEF DeliveryCalm, OneDraft, Alive
  <2>3. pane'[a].life = "alive" /\ pane'[a].composer = <<>>
    BY <1>2, <1>5 DEF Alive
  <2> QED BY <1>4, <2>2, <2>3 DEF OneDraft, Alive
<1>9. Untaken'
  <2>1. ASSUME NEW b \in Agents, NEW q \in Queued(b)'
        PROVE  delivered'[q] = <<>> \/ (job'[b].pc \in Sent /\ job'[b].prompt = q)
    <3>1. q \in Queued(b) /\ q \in Prompts
      BY <1>2 DEF Queued, Typed, StoreOK, Elements
    <3>2. CASE q = p
      BY <1>4, <1>7, <3>1, <3>2 DEF Sent
    <3>3. CASE q # p
      BY <1>2, <1>4, <1>6, <3>1, <3>3 DEF DeliveryCalm, Untaken, Sent
    <3> QED BY <3>2, <3>3
  <2>2. submits[p].pc \notin Outside
    <3>1. Places(p) # {}
      BY <1>2 DEF Safekept, Kept, Sending
    <3> QED BY <1>2, <3>1 DEF Safekept, Kept
  <2>3. Len(delivered'[p]) = 1
    BY <1>6
  <2>4. \A q \in Prompts : submits'[q].pc \in Outside => delivered'[q] = <<>>
    BY <1>2, <1>6, <2>2 DEF DeliveryCalm, Untaken
  <2>5. ASSUME NEW q \in Prompts  PROVE Len(delivered'[q]) <= 1
    <3>1. CASE q = p
      <4>1. Len(delivered'[q]) = 1
        BY <2>3, <3>1
      <4> QED BY <4>1
    <3>2. CASE q # p
      BY <1>6, <3>2 DEF DeliveryCalm, Untaken
    <3> QED BY <3>1, <3>2
  <2> QED BY <2>1, <2>4, <2>5 DEF Untaken
<1>10. Noted'
  <2>1. p \notin notes
    BY <1>2 DEF DeliveryCalm, Noted, Sending
  <2>2. notes \subseteq Prompts
    BY DEF Typed, StoreOK
  <2>3. \A q \in notes : delivered'[q] = <<>>
    BY <1>6, <2>1, <2>2 DEF DeliveryCalm, Noted
  <2>4. ASSUME NEW q \in notes, NEW b \in Agents
        PROVE  q \notin Queued(b)' /\ (job'[b].pc \in Sending => job'[b].prompt # q)
    <3>1. Queued(b)' = Queued(b)
      BY <1>2 DEF Queued
    <3>2. q \notin Queued(b) /\ (job[b].pc \in Sending => job[b].prompt # q)
      BY DEF DeliveryCalm, Noted
    <3>3. b = a => job'[b].prompt # q
      BY <1>4, <2>1
    <3> QED BY <1>4, <3>1, <3>2, <3>3
  <2> QED BY <1>2, <2>3, <2>4 DEF Noted
<1>11. \A b \in Agents : pane'[b].life # "dead" /\ pane'[b].attention # "question" /\ ~ pane'[b].pressed
  BY <1>5 DEF DeliveryCalm
<1> QED BY <1>1, <1>2, <1>8, <1>9, <1>10, <1>11 DEF DeliveryCalm
-----------------------------------------------------------------------------
(* Drains, the other steps, and what follows                                *)

LEMMA DrainNoteCalm ==
  ASSUME Typed, Safekept, Owned, Undisturbed, DeliveryCalm, NEW a \in Agents, DrainNote(a)
  PROVE  DeliveryCalm'
<1> DEFINE p == Head(queue[a])
<1>1. Undrafted'
  BY JobUndrafted DEF Job, DeliveryCalm
<1>2. /\ UNCHANGED <<restart, delivered, job, pane, submits>>
      /\ notes' = notes \union {p} /\ queue' = Drop(a, p)
      /\ p \in Prompts /\ p \in Queued(a) /\ job[a].pc = "drain"
  BY HeadQueued DEF DrainNote, actors, world
<1>3. /\ Queued(a)' = Queued(a) \ {p}
      /\ \A b \in Agents \ {a} : Queued(b)' = Queued(b) /\ p \notin Queued(b)
  BY <1>2, DropLemma DEF Typed, StoreOK, Safekept, Queued, QueuedOnce
<1>4. delivered[p] = <<>>
  BY <1>2 DEF DeliveryCalm, Untaken, Sent
<1>5. OneDraft'
  BY <1>2 DEF DeliveryCalm, OneDraft, Alive
<1>6. Untaken'
  <2>1. \A b \in Agents : Queued(b)' \subseteq Queued(b)
    BY <1>3
  <2>2. \A b \in Agents : \A q \in Queued(b)' :
          delivered[q] = <<>> \/ (job[b].pc \in Sent /\ job[b].prompt = q)
    BY <2>1 DEF DeliveryCalm, Untaken
  <2> QED BY <1>2, <2>2 DEF DeliveryCalm, Untaken
<1>7. Noted'
  <2>1. ASSUME NEW b \in Agents, job[b].pc \in Sending  PROVE job[b].prompt # p
    <3>1. b # a
      BY <1>2, <2>1 DEF Sending
    <3>2. submits[job[b].prompt].agent = b /\ submits[p].agent = a
      BY <1>2, <2>1 DEF Owned, DeliveryCalm
    <3> QED BY <3>1, <3>2
  <2>2. \A b \in Agents : p \notin Queued(b)' /\ Queued(b)' \subseteq Queued(b)
    BY <1>3
  <2> QED BY <1>2, <1>4, <2>1, <2>2 DEF DeliveryCalm, Noted
<1> QED BY <1>1, <1>2, <1>5, <1>6, <1>7 DEF DeliveryCalm

\* The steps of a job that neither paste nor send nor save.
LEMMA JobOtherCalm ==
  ASSUME Typed, Safekept, Undisturbed, DeliveryCalm, NEW a \in Agents,
         \/ JobPasteFails(a) \/ JobVerify(a) \/ JobAccept(a) \/ JobRecord(a) \/ JobBoundary(a)
         \/ JobRemove(a) \/ JobFail(a) \/ DrainEnds(a) \/ ExternalBoundary(a)
  PROVE  DeliveryCalm'
<1>1. Undrafted'
  BY JobUndrafted DEF Job, DeliveryCalm
<1>2. UNCHANGED <<restart, delivered, notes>>
  BY DEF JobPasteFails, JobVerify, JobAccept, JobRecord, JobBoundary, JobRemove, JobFail,
         DrainEnds, ExternalBoundary, store, world
<1>3. UNCHANGED pane
  <2>1. CASE JobPasteFails(a)
    BY <2>1, UndisturbedEvents DEF JobPasteFails
  <2>2. CASE ~ JobPasteFails(a)
    BY <2>2 DEF JobVerify, JobAccept, JobRecord, JobBoundary, JobRemove, JobFail,
                DrainEnds, ExternalBoundary, world
  <2> QED BY <2>1, <2>2
<1>4. CASE JobRemove(a)
  <2>1. queue' = Drop(a, job[a].prompt) /\ Finish(a, "accepted") /\ job[a].pc = "remove"
    BY <1>4, UndisturbedEvents DEF JobRemove
  <2>2. QueuesShrink /\ job[a].prompt \notin Queued(a)'
    <3>1. /\ Queued(a)' = Queued(a) \ {job[a].prompt}
          /\ \A b \in Agents \ {a} : Queued(b)' = Queued(b)
      BY <2>1, DropLemma DEF Typed, StoreOK, Safekept, Queued
    <3> QED BY <3>1 DEF QueuesShrink
  <2>3. JobsCalm /\ SubmitsCalm
    BY <2>1, <2>2, FinishCalm DEF Sent
  <2> QED BY <1>1, <1>2, <1>3, <2>2, <2>3, CalmKeeps, Undone
<1>5. CASE ~ JobRemove(a)
  <2>1. UNCHANGED queue
    BY <1>5 DEF JobPasteFails, JobVerify, JobAccept, JobRecord, JobBoundary, JobFail,
                DrainEnds, ExternalBoundary, store
  <2>2. CASE JobPasteFails(a) \/ JobVerify(a) \/ JobAccept(a)
    <3>1. JobsCalm /\ UNCHANGED submits
      BY <2>2, StepCalm, UndisturbedEvents DEF JobPasteFails, JobVerify, JobAccept
    <3> QED BY <1>1, <1>2, <1>3, <2>1, <3>1, CalmKeeps, Undone
  <2>3. CASE JobRecord(a) \/ JobBoundary(a)
    <3>1. JobsCalm /\ UNCHANGED submits
      BY <2>3, StepCalm, UndisturbedEvents DEF JobRecord, JobBoundary
    <3> QED BY <1>1, <1>2, <1>3, <2>1, <3>1, CalmKeeps, Undone
  <2>4. CASE JobFail(a) \/ DrainEnds(a)
    <3>1. JobsCalm /\ SubmitsCalm
      BY <2>4, FinishCalm DEF JobFail, DrainEnds
    <3> QED BY <1>1, <1>2, <1>3, <2>1, <3>1, CalmKeeps, Undone
  <2>5. CASE ExternalBoundary(a)
    <3>1. JobsCalm /\ SubmitsCalm
      <4>1. CASE Finish(a, "accepted")
        BY <2>5, <4>1, FinishCalm DEF ExternalBoundary
      <4>2. CASE Step(a, "next") /\ UNCHANGED submits
        BY <2>5, <4>2, StepCalm, Undone DEF ExternalBoundary
      <4> QED BY <2>5, <4>1, <4>2 DEF ExternalBoundary
    <3> QED BY <1>1, <1>2, <1>3, <2>1, <3>1, CalmKeeps, Undone
  <2> QED BY <1>5, <2>2, <2>3, <2>4, <2>5
<1> QED BY <1>4, <1>5

LEMMA AgentCalm ==
  ASSUME Typed, Safekept, Undisturbed, DeliveryCalm, NEW a \in Agents,
         Restore(a) \/ Operator(a) \/ Environment(a)
  PROVE  DeliveryCalm'
<1>1. Undrafted'
  BY AgentUndrafted DEF DeliveryCalm
<1>2. UNCHANGED <<restart, delivered, notes, job, submits>>
  BY NoAttemptFails DEF Restore, Operator, CancelSends, CancelHolds, Environment, TurnEnds,
         AttentionChanges, store, world, actors
<1>3. QueuesShrink
  <2>1. CASE UNCHANGED queue
    BY <2>1, Undone
  <2>2. CASE queue' = Drop(a, boundary[a])
    <3>1. /\ Queued(a)' = Queued(a) \ {boundary[a]}
          /\ \A b \in Agents \ {a} : Queued(b)' = Queued(b)
      BY <2>2, DropLemma DEF Typed, StoreOK, Safekept, Queued
    <3> QED BY <3>1 DEF QueuesShrink
  <2> QED BY <2>1, <2>2, NoAttemptFails DEF Restore, Operator, CancelSends, CancelHolds,
             Environment, TurnEnds, AttentionChanges, store
<1>4. PanesCalm
  <2>1. CASE UNCHANGED pane
    BY <2>1, Undone
  <2>2. ASSUME NEW how \in {"completed", "interrupted"}, WorkEnds(a, how)
        PROVE  PanesCalm
    <3>1. /\ \A b \in Agents \ {a} : pane'[b] = pane[b]
          /\ pane'[a].composer = pane[a].composer /\ pane'[a].life = pane[a].life
          /\ pane'[a].attention = "finished" /\ pane'[a].pressed = pane[a].pressed
      BY <2>2 DEF WorkEnds, Typed, WorldOK, Panes
    <3> QED BY <3>1 DEF PanesCalm, DeliveryCalm
  <2>3. CASE pane' = [pane EXCEPT ![a].attention = "working"]
    <3>1. /\ \A b \in Agents \ {a} : pane'[b] = pane[b]
          /\ pane'[a].composer = pane[a].composer /\ pane'[a].life = pane[a].life
          /\ pane'[a].attention = "working" /\ pane'[a].pressed = pane[a].pressed
      BY <2>3 DEF Typed, WorldOK, Panes
    <3> QED BY <3>1 DEF PanesCalm, DeliveryCalm
  <2>4. AttentionChanges(a) => pane' = [pane EXCEPT ![a].attention = "working"]
    BY UndisturbedEvents DEF AttentionChanges
  <2> QED BY <2>1, <2>2, <2>3, <2>4, NoAttemptFails DEF Restore, Operator, CancelSends,
             CancelHolds, Environment, TurnEnds, world
<1>5. JobsCalm
  BY <1>2 DEF JobsCalm, DeliveryCalm, OneDraft, QueuesShrink, Sending
<1> QED BY <1>1, <1>2, <1>3, <1>4, <1>5, CalmKeeps, Undone

LEMMA CalmStep ==
  ASSUME Inductive, Undisturbed, DeliveryCalm, Next
  PROVE  DeliveryCalm'
<1>1. Typed /\ Safekept /\ Owned
  BY InductiveParts
<1>2. CASE \E p \in Prompts : Submission(p)
  BY <1>1, <1>2, SubmissionCalm, SubmitEnqueueCalm DEF Submission
<1>3. ASSUME NEW a \in Agents, Job(a)  PROVE DeliveryCalm'
  <2>1. CASE JobNext(a) \/ JobPaste(a) \/ JobKeys(a) \/ DrainNote(a)
    BY <1>1, <2>1, JobNextCalm, JobPasteCalm, JobKeysCalm, DrainNoteCalm
  <2>2. CASE ~ (JobNext(a) \/ JobPaste(a) \/ JobKeys(a) \/ DrainNote(a))
    BY <1>1, <1>3, <2>2, JobOtherCalm, NoAttemptFails DEF Job
  <2> QED BY <2>1, <2>2
<1>4. ASSUME NEW a \in Agents,
             Restore(a) \/ RestoreFails(a) \/ Retire(a) \/ Operator(a) \/ RestartLocks(a) \/ Environment(a)
      PROVE  DeliveryCalm'
  BY <1>1, <1>4, AgentCalm, NoAttemptFails
<1>5. ASSUME NEW o \in Observers, Observation(o) \/ \E a \in Agents : Observe(o, a)
      PROVE  DeliveryCalm'
  BY <1>1, <1>5, ObservationCalm
<1>6. ~ IdleRestart /\ ~ Crash
  BY NoAttemptFails, PromptDeliveryAssumption
<1> QED BY <1>2, <1>3, <1>4, <1>5, <1>6 DEF Next

LEMMA CalmInit == Init => CalmHolds
<1> SUFFICES ASSUME Init  PROVE DeliveryCalm
  BY DEF CalmHolds
<1>1. /\ restart.pc = "none" /\ Undrafted
      /\ \A a \in Agents : pane[a].life # "dead" /\ pane[a].attention # "question" /\ ~ pane[a].pressed
  BY DEF Init, NoRestart, Undrafted, NoPhase, Phase, NotObserving, Pane
<1>2. OneDraft
  BY DEF Init, OneDraft, Pane, Idle
<1>3. Untaken
  BY DEF Init, Untaken, Queued, Elements
<1>4. Noted
  BY DEF Init, Noted
<1> QED BY <1>1, <1>2, <1>3, <1>4 DEF DeliveryCalm

LEMMA CalmAlways == Spec => []CalmHolds
<1>1. Inductive /\ CalmHolds /\ [Next]_vars => CalmHolds'
  <2> SUFFICES ASSUME Inductive, CalmHolds, [Next]_vars, Undisturbed'  PROVE DeliveryCalm'
    BY DEF CalmHolds
  <2>1. CASE Next
    <3>1. Undisturbed
      BY <2>1 DEF Next, Undisturbed
    <3> QED BY <2>1, <3>1, CalmStep DEF CalmHolds
  <2>2. CASE UNCHANGED vars
    <3>1. UNCHANGED <<happens, store, memory, actors, world>>
      BY <2>2 DEF vars, moving
    <3>2. DeliveryCalm
      BY <3>1 DEF CalmHolds, Undisturbed
    <3>3. Undrafted' /\ OneDraft' /\ Untaken' /\ Noted'
      BY <3>1, <3>2 DEF DeliveryCalm, Undrafted, OneDraft, Untaken, Noted, Queued, Alive,
                        store, memory, actors, world
    <3> QED BY <3>1, <3>2, <3>3 DEF DeliveryCalm, actors, world
  <2> QED BY <2>1, <2>2
<1> QED BY InvariantHolds, CalmInit, <1>1, PTL DEF Spec

(* Undisturbed, no prompt is submitted to a terminal twice.                 *)
THEOREM SentOnce == Spec => []TakenOnce
<1>1. CalmHolds => TakenOnce
  BY DEF CalmHolds, DeliveryCalm, Untaken, TakenOnce
<1> QED BY CalmAlways, <1>1, PTL

(* Undisturbed, a prompt that was saved as an undelivered Note was not      *)
(* taken by any terminal.                                                   *)
THEOREM OnlyUndeliveredNotes == Spec => []NotesAreUndelivered
<1>1. CalmHolds => NotesAreUndelivered
  BY DEF CalmHolds, DeliveryCalm, Noted, NotesAreUndelivered
<1> QED BY CalmAlways, <1>1, PTL
-----------------------------------------------------------------------------
(* Recorded resets: what a step may do to them                              *)

Steadily == restart.pc = "none" /\ OwnJobs /\ Recorded
Confirming == {"record", "boundary", "remove"}

\* What does not happen where resets stay recorded.
LEMMA SteadyEvents ==
  ASSUME Steady
  PROVE  Native /\ ~ Failure("storage") /\ "restart" \notin happens
  BY DEF Steady, Failure

\* What a step may do to the parts of the invariant.
AgentsStay == \A p \in Prompts : submits'[p].agent = submits[p].agent \/ submits[p] = Unsent
BoundariesStay == \A a \in Agents : boundary'[a] \in Prompts => boundary'[a] = boundary[a]
JobsGo == \A a \in Agents : job'[a].pc \in Sending =>
  /\ job[a].pc \in Sending /\ job'[a].prompt = job[a].prompt
  /\ job[a].pc = "remove" => job'[a].pc = "remove"
  /\ job'[a].pc \in Confirming
       => job[a].pc \in Confirming \/ job[a].prompt \notin Elements(pane[a].composer)
StillUnread == \A a \in Agents :
  boundary[a] \in Prompts /\ boundary'[a] = boundary[a] /\ boundary[a] \in Queued(a)'
    => Unread(a)' \/ Removing(a)'

LEMMA SteadyKeeps ==
  ASSUME Typed, Steadily, restart'.pc = "none", AgentsStay, BoundariesStay, PanesKept, JobsGo, StillUnread
  PROVE  Steadily'
<1>1. ASSUME NEW p \in Prompts, submits[p].agent \in Agents  PROVE submits'[p].agent = submits[p].agent
  BY <1>1, PromptDeliveryAssumption DEF AgentsStay, Unsent
<1>2. \A a \in Agents : Elements(pane'[a].composer) \subseteq Elements(pane[a].composer)
  BY DEF PanesKept, Elements
<1>3. OwnJobs'
  <2>1. ASSUME NEW a \in Agents, job'[a].pc \in Sending
        PROVE  submits'[job'[a].prompt].agent = a
    <3>1. job[a].pc \in Sending /\ job'[a].prompt = job[a].prompt /\ job[a].prompt \in Prompts
      BY <2>1 DEF JobsGo, Typed, SendersOK
    <3> QED BY <1>1, <3>1 DEF Steadily, OwnJobs
  <2>2. ASSUME NEW a \in Agents, job'[a].pc \in Confirming
        PROVE  job'[a].prompt \notin Elements(pane'[a].composer)
    BY <1>2, <2>2 DEF JobsGo, Steadily, OwnJobs, Confirming, Sending
  <2> QED BY <2>1, <2>2 DEF OwnJobs, Confirming
<1>4. Recorded'
  <2> SUFFICES ASSUME NEW a \in Agents, boundary'[a] \in Prompts
               PROVE  /\ submits'[boundary'[a]].agent = a
                      /\ boundary'[a] \notin Elements(pane'[a].composer)
                      /\ job'[a].pc \in Sending /\ job'[a].prompt = boundary'[a]
                           => job'[a].pc = "remove"
                      /\ boundary'[a] \in Queued(a)' => Unread(a)' \/ Removing(a)'
    BY DEF Recorded
  <2>1. boundary'[a] = boundary[a] /\ boundary[a] \in Prompts
    BY DEF BoundariesStay
  <2>2. submits'[boundary'[a]].agent = a
    BY <1>1, <2>1 DEF Steadily, Recorded
  <2>3. boundary'[a] \notin Elements(pane'[a].composer)
    BY <1>2, <2>1 DEF Steadily, Recorded
  <2>4. job'[a].pc \in Sending /\ job'[a].prompt = boundary'[a] => job'[a].pc = "remove"
    BY <2>1 DEF JobsGo, Steadily, Recorded
  <2>5. boundary'[a] \in Queued(a)' => Unread(a)' \/ Removing(a)'
    BY <2>1 DEF StillUnread
  <2> QED BY <2>2, <2>3, <2>4, <2>5
<1> QED BY <1>3, <1>4 DEF Steadily

\* Nothing but the reading of the boundary ends that it is unread.
UnreadStays == \A a \in Agents : Unread(a) => Unread(a)'
RemovalsStay == \A a \in Agents : job[a].pc = "remove" => job'[a] = job[a]

LEMMA StayUnread ==
  ASSUME Steadily, QueuesShrink, UnreadStays, RemovalsStay
  PROVE  StillUnread
  BY DEF StillUnread, Steadily, Recorded, QueuesShrink, UnreadStays, RemovalsStay, Removing

LEMMA Stays ==
  /\ UNCHANGED submits => AgentsStay
  /\ SubmitsKept => AgentsStay
  /\ UNCHANGED boundary => BoundariesStay
  /\ UNCHANGED queue => QueuesShrink
  /\ UNCHANGED job => JobsGo /\ RemovalsStay
  /\ UNCHANGED restart /\ Steadily => restart'.pc = "none"
  BY DEF AgentsStay, SubmitsKept, BoundariesStay, QueuesShrink, Queued, JobsGo, RemovalsStay, Steadily

\* A job that starts, moves on or ends.
LEMMA StartGoes ==
  ASSUME Typed, NEW a \in Agents, job[a].pc = "idle",
         NEW pc \in {"next", "drain", "external"}, NEW then \in {"nothing", "clearPhase", "retire"},
         NEW owner \in Prompts \union {None}, StartJob(a, pc, owner, then)
  PROVE  /\ JobsGo /\ RemovalsStay /\ job'[a].pc = pc
         /\ \A b \in Agents \ {a} : job'[b] = job[b]
<1>1. /\ job'[a] = [pc |-> pc, prompt |-> None, owner |-> owner, then |-> then]
      /\ job'[a].pc \notin Sending
      /\ \A b \in Agents \ {a} : job'[b] = job[b]
  BY StartJobLemma DEF Typed
<1>2. job'[a].pc = pc
  BY <1>1
<1> QED BY <1>1, <1>2 DEF JobsGo, RemovalsStay

LEMMA StepGoes ==
  ASSUME Typed, NEW a \in Agents, NEW pc \in JobPc, Step(a, pc), UNCHANGED submits,
         job[a].pc # "remove", pc \in Sending => job[a].pc \in Sending,
         pc \in Confirming => job[a].pc \in Confirming \/ job[a].prompt \notin Elements(pane[a].composer)
  PROVE  /\ JobsGo /\ RemovalsStay /\ job'[a].pc = pc /\ job'[a].prompt = job[a].prompt
         /\ \A b \in Agents \ {a} : job'[b] = job[b]
<1>1. /\ job'[a].pc = pc /\ job'[a].prompt = job[a].prompt
      /\ \A b \in Agents \ {a} : job'[b] = job[b]
  BY StepLemma DEF Typed, SendersOK
<1> QED BY <1>1 DEF JobsGo, RemovalsStay

LEMMA FinishGoes ==
  ASSUME Typed, NEW a \in Agents, NEW outcome \in {"accepted", "refused"}, Finish(a, outcome)
  PROVE  /\ JobsGo /\ AgentsStay
         /\ job'[a].pc = "idle"
         /\ \A b \in Agents \ {a} : job'[b] = job[b]
         /\ \A p \in Prompts : submits'[p].pc = "direct" => submits[p].pc = "direct"
         /\ \A p \in Prompts : submits'[p].agent = submits[p].agent
<1>1. /\ job'[a] = Idle
      /\ \A b \in Agents \ {a} : job'[b] = job[b]
      /\ \A p \in Prompts : submits'[p].agent = submits[p].agent
      /\ \A p \in Prompts \ {job[a].owner} : submits'[p] = submits[p]
      /\ job[a].owner \in Prompts => submits'[job[a].owner].pc = outcome
  BY FinishLemma DEF Typed
<1>2. Idle.pc = "idle" /\ Idle.pc \notin Sending
  BY DEF Idle, Sending
<1>3. \A p \in Prompts : submits'[p].pc = "direct" => submits[p].pc = "direct"
  BY <1>1
<1> QED BY <1>1, <1>2, <1>3 DEF JobsGo, AgentsStay

\* A job that is not idle or draining leaves what is unread as it is.
LEMMA OwnJobUnread ==
  ASSUME NEW a \in Agents, UNCHANGED <<restored, observer>>,
         \A b \in Agents \ {a} : job'[b] = job[b],
         job[a].pc \in {"idle", "drain"} => job'[a].pc \in {"idle", "drain"},
         \A p \in Prompts : submits'[p].pc = "direct" => submits[p].pc = "direct",
         \A p \in Prompts : submits'[p].agent = submits[p].agent
  PROVE  UnreadStays
  BY DEF UnreadStays, Unread
-----------------------------------------------------------------------------
(* Recorded resets: observations, submissions, the reading of the boundary  *)
(* and the server's start                                                   *)

LEMMA ObservationSteady ==
  ASSUME Typed, Safekept, Steadily, NEW o \in Observers, Observation(o) \/ \E b \in Agents : Observe(o, b)
  PROVE  Steadily'
<1>1. Quiet
  BY ObservationQuiet
<1>2. UNCHANGED <<boundary, restored, submits, restart, queue>>
  BY DEF Observation, Observe, ObserveLooks, TurnlessStarts, TurnlessEnds, TurnlessWaits,
         ObserveMarks, ObserveAdopts, ObserveSettles, SettleWaits, ObserveHolds, ObserveClears,
         ObserveReleases, AnswerPending, AnswerCompletes, AnswerFails, AnswerIsReset,
         store, memory, told
<1>3. CASE \E b \in Agents : Observe(o, b)
  <2>1. PICK b \in Agents : Observe(o, b)
    BY <1>3
  <2>2. /\ observer'[o].pc = "scan" /\ \A x \in Observers \ {o} : observer'[x] = observer[x]
        /\ UNCHANGED job
    BY <2>1 DEF Observe, Typed, ObserversOK
  <2>3. UnreadStays
    BY <1>2, <2>2 DEF UnreadStays, Unread
  <2> QED BY <1>1, <1>2, <2>2, <2>3, Stays, StayUnread, SteadyKeeps DEF Quiet
<1>4. CASE Observation(o)
  <2> DEFINE a == observer[o].agent
  <2>1. a \in Agents /\ observer[o].pc # "idle" /\ (observer[o].pc = "scan" => a \in restored)
    BY <1>4, SeenLemma DEF Observation, ObserveLooks, TurnlessStarts, TurnlessEnds, TurnlessWaits,
         ObserveMarks, ObserveAdopts, ObserveSettles, SettleWaits, ObserveHolds, ObserveClears,
         ObserveReleases, AnswerPending, AnswerCompletes, AnswerFails, AnswerIsReset, Looking
  <2>2. ~ Unread(a)
    BY <2>1 DEF Unread
  <2>3. \/ UNCHANGED job
        \/ /\ job[a].pc = "idle"
           /\ \E pc \in {"next", "drain", "external"}, then \in {"nothing", "clearPhase"} :
                StartJob(a, pc, None, then)
    <3>1. CASE TurnlessEnds(o) \/ ObserveSettles(o) \/ AnswerCompletes(o) \/ AnswerFails(o)
      BY <3>1 DEF TurnlessEnds, ObserveSettles, AnswerCompletes, AnswerFails, Halt, Drain, Dispatch,
                  Free, Dispatching, Looking
    <3>2. CASE AnswerIsReset(o) \/ ObserveReleases(o) \/ ObserveClears(o)
      BY <3>2 DEF AnswerIsReset, ObserveReleases, ObserveClears, Drain, CanDispatch, Free, Dispatching
    <3>3. CASE \/ ObserveLooks(o) \/ TurnlessStarts(o) \/ TurnlessWaits(o) \/ ObserveMarks(o)
               \/ ObserveAdopts(o) \/ SettleWaits(o) \/ ObserveHolds(o) \/ AnswerPending(o)
      BY <3>3 DEF ObserveLooks, TurnlessStarts, TurnlessWaits, ObserveMarks, ObserveAdopts,
                  SettleWaits, ObserveHolds, AnswerPending
    <3> QED BY <1>4, <3>1, <3>2, <3>3 DEF Observation
  <2>4. /\ JobsGo /\ RemovalsStay
        /\ \A b \in Agents \ {a} : job'[b] = job[b]
    BY <2>1, <2>3, StartGoes, Stays
  <2>5. /\ \A x \in Observers \ {o} : observer'[x] = observer[x]
        /\ observer'[o].agent \in {a, None}
    <3>1. observer[o] \in Observations
      BY DEF Typed, ObserversOK
    <3>2. CASE Rest(o)
      BY <3>2 DEF Rest, Typed, ObserversOK, NotObserving
    <3>3. CASE Watch(o, "hold")
      BY <3>1, <3>3 DEF Watch, Typed, ObserversOK, Observations
    <3>4. CASE ObserveLooks(o)
      BY <3>1, <3>4 DEF ObserveLooks, Typed, ObserversOK, NotObserving
    <3> QED BY <1>4, <3>2, <3>3, <3>4 DEF Observation, TurnlessStarts, TurnlessEnds, TurnlessWaits,
           ObserveMarks, ObserveAdopts, ObserveSettles, SettleWaits, ObserveHolds, ObserveClears,
           ObserveReleases, AnswerPending, AnswerCompletes, AnswerFails, AnswerIsReset
  <2>6. UnreadStays
    BY <1>2, <2>2, <2>4, <2>5, PromptDeliveryAssumption DEF UnreadStays, Unread
  <2> QED BY <1>1, <1>2, <2>4, <2>6, Stays, StayUnread, SteadyKeeps DEF Quiet
<1> QED BY <1>3, <1>4

LEMMA SubmissionSteady ==
  ASSUME Typed, Safekept, Steadily, NEW p \in Prompts,
         (\E a \in Agents : Submit(p, a)) \/ SubmitRevives(p) \/ SubmitDecide(p) \/ SubmitRefused(p)
  PROVE  Steadily'
<1>1. Quiet
  BY SubmissionQuiet
<1>2. UNCHANGED <<boundary, restored, job, observer, restart, queue>>
  BY DEF Submit, SubmitRevives, SubmitDecide, SubmitRefused, store, memory, actors
<1>3. /\ \A q \in Prompts \ {p} : submits'[q] = submits[q]
      /\ submits'[p].pc = "direct" => submits'[p] = submits[p] \/ submits'[p].agent \in restored
  <2>1. CASE \E a \in Agents : Submit(p, a)
    <3>1. PICK a \in Agents : Submit(p, a)
      BY <2>1
    <3>2. \A q \in Prompts \ {p} : submits'[q] = submits[q]
      BY <3>1 DEF Submit, Typed, SendersOK
    <3>3. submits'[p].pc # "direct"
      BY <3>1 DEF Submit, Typed, SendersOK, Unsent
    <3> QED BY <3>2, <3>3
  <2>2. CASE SubmitRevives(p)
    BY <2>2 DEF SubmitRevives, actors
  <2>3. CASE SubmitDecide(p)
    <3>1. submits[p] \in Submits
      BY DEF Typed, SendersOK
    <3>2. /\ \A q \in Prompts \ {p} : submits'[q] = submits[q]
          /\ submits'[p].agent = submits[p].agent
      BY <2>3, <3>1 DEF SubmitDecide, Typed, SendersOK, Submits
    <3> QED BY <2>3, <3>2 DEF SubmitDecide
  <2>4. CASE SubmitRefused(p)
    BY <2>4, SubmitPcLemma DEF SubmitRefused, Typed, SubmitPc
  <2> QED BY <2>1, <2>2, <2>3, <2>4
<1>4. UnreadStays
  BY <1>2, <1>3 DEF UnreadStays, Unread
<1> QED BY <1>1, <1>2, <1>4, Stays, StayUnread, SteadyKeeps DEF Quiet

LEMMA SubmitEnqueueSteady ==
  ASSUME Typed, Safekept, Owned, Steadily, NEW p \in Prompts, SubmitEnqueue(p)
  PROVE  Steadily'
<1>0. PICK a \in Agents : a = submits[p].agent
  BY DEF SubmitEnqueue, Typed, SendersOK
<1>1. /\ submits[p].pc \in Outside
      /\ UNCHANGED <<boundary, restored, observer, restart, pane>>
      /\ queue' = [queue EXCEPT ![a] = Append(@, p)]
  BY <1>0 DEF SubmitEnqueue, Outside, InFlight, world
<1>2. /\ submits'[p].pc \in {"dispatch", "accepted"} /\ submits'[p].agent = submits[p].agent
      /\ \A q \in Prompts \ {p} : submits'[q] = submits[q]
  <2>1. \E pc \in {"dispatch", "accepted"} : submits' = [submits EXCEPT ![p].pc = pc]
    BY DEF SubmitEnqueue
  <2> QED BY <2>1, SubmitPcLemma DEF Typed, SubmitPc, InFlight
<1>3. \/ UNCHANGED job
      \/ submits[p].pc = "direct" /\ job[a].pc = "idle" /\ StartJob(a, "next", p, "nothing")
  BY <1>0 DEF SubmitEnqueue, CanDispatch, Free, Dispatching
<1>4. JobsGo /\ RemovalsStay /\ \A b \in Agents \ {a} : job'[b] = job[b]
  BY <1>3, StartGoes, Stays
<1>5. UnreadStays
  BY <1>0, <1>1, <1>2, <1>3, <1>4 DEF UnreadStays, Unread
<1>6. \A b \in Agents : boundary[b] # p
  BY <1>1, PlacesLemma DEF Safekept, Kept, ConfirmedFirst
<1>7. \A b \in Agents : Queued(b)' \subseteq Queued(b) \union {p}
  <2>1. p \notin Elements(queue[a]) /\ Injective(queue[a]) /\ queue[a] \in Seq(Prompts)
    BY <1>1, PlacesLemma DEF Safekept, Kept, QueuedOnce, Injective, Typed, StoreOK, Queued
  <2>2. Elements(Append(queue[a], p)) = Elements(queue[a]) \union {p}
    BY <2>1, AppendLemma
  <2>3. queue'[a] = Append(queue[a], p) /\ \A b \in Agents \ {a} : queue'[b] = queue[b]
    BY <1>1 DEF Typed, StoreOK
  <2> QED BY <2>2, <2>3 DEF Queued
<1>8. StillUnread
  BY <1>4, <1>5, <1>6, <1>7
     DEF StillUnread, Steadily, Recorded, UnreadStays, RemovalsStay, Removing
<1>9. AgentsStay
  BY <1>2 DEF AgentsStay
<1> QED BY <1>1, <1>4, <1>8, <1>9, Stays, Untouched, SteadyKeeps

LEMMA DropShrinks ==
  ASSUME Typed, Safekept, NEW a \in Agents, NEW p, queue' = Drop(a, p)
  PROVE  QueuesShrink /\ p \notin Queued(a)' /\ \A b \in Agents \ {a} : Queued(b)' = Queued(b)
<1>1. /\ Queued(a)' = Queued(a) \ {p}
      /\ \A b \in Agents \ {a} : queue'[b] = queue[b]
  BY DropLemma DEF Typed, StoreOK, Safekept
<1>2. \A b \in Agents \ {a} : Queued(b)' = Queued(b)
  BY <1>1 DEF Queued
<1> QED BY <1>1, <1>2 DEF QueuesShrink

\* The steps of one Agent that belong to no job.
LEMMA AgentSteady ==
  ASSUME Typed, Safekept, Steady, Steadily, NEW a \in Agents,
         Retire(a) \/ Operator(a) \/ Environment(a)
  PROVE  Steadily'
<1>1. UNCHANGED <<boundary, restored, submits, observer, restart>>
  BY DEF Retire, Operator, CancelSends, CancelHolds, Remove, Save, Environment, TurnEnds,
         TerminalTakes, AttentionChanges, PaneDies, store, memory, actors
<1>2. QueuesShrink
  <2>1. ASSUME NEW p \in Prompts, queue' = Drop(a, p)  PROVE QueuesShrink
    BY <2>1, DropShrinks
  <2> QED BY <2>1, Stays DEF Retire, Operator, CancelSends, CancelHolds, Remove, Save, Environment,
         TurnEnds, TerminalTakes, AttentionChanges, PaneDies, store
<1>3. PanesKept
  <2>1. CASE UNCHANGED pane
    BY <2>1, Untouched
  <2>2. CASE CancelSends(a) \/ CancelHolds(a) \/ Environment(a)
    BY <2>2, OperatorQuiet, EnvironmentQuiet DEF Quiet
  <2> QED BY <2>1, <2>2 DEF Retire, Operator, Remove, Save, world
<1>4. /\ UNCHANGED job \/ (job[a].pc = "idle" /\ StartJob(a, "drain", None, "retire"))
  BY DEF Retire, Dispatching, Operator, CancelSends, CancelHolds, Remove, Save, Environment, TurnEnds,
         TerminalTakes, AttentionChanges, PaneDies, actors
<1>5. /\ JobsGo /\ RemovalsStay
      /\ \A b \in Agents : job'[b] = job[b] \/ job'[b].pc = "drain"
  BY <1>4, StartGoes, Stays
<1>6. UnreadStays
  BY <1>1, <1>5 DEF UnreadStays, Unread
<1> QED BY <1>1, <1>2, <1>3, <1>5, <1>6, Stays, StayUnread, SteadyKeeps

LEMMA RestoreSteady ==
  ASSUME Typed, Safekept, Steadily, NEW a \in Agents, Restore(a)
  PROVE  Steadily'
<1>1. UNCHANGED <<boundary, submits, observer, restart, job, pane>>
  BY DEF Restore, actors, world
<1>2. restored' = restored \union {a}
  BY DEF Restore
<1>3. CASE boundary[a] # None
  <2>1. QueuesShrink /\ boundary[a] \notin Queued(a)'
    BY <1>3, DropShrinks DEF Restore
  <2>2. \A b \in Agents \ {a} : Unread(b) => Unread(b)'
    BY <1>1, <1>2 DEF Unread
  <2>3. StillUnread
    BY <1>1, <2>1, <2>2 DEF StillUnread, Steadily, Recorded, QueuesShrink, Removing
  <2> QED BY <1>1, <2>3, Stays, Untouched, SteadyKeeps
<1>4. CASE boundary[a] = None
  <2>1. UNCHANGED queue
    BY <1>4 DEF Restore
  <2>2. \A b \in Agents \ {a} : Unread(b) => Unread(b)'
    BY <1>1, <1>2 DEF Unread
  <2>3. StillUnread
    BY <1>1, <1>4, <2>1, <2>2, PromptDeliveryAssumption
       DEF StillUnread, Steadily, Recorded, Queued, Removing
  <2> QED BY <1>1, <2>3, Stays, Untouched, SteadyKeeps
<1> QED BY <1>3, <1>4

\* After a server start every boundary is unread.
LEMMA CrashSteady ==
  ASSUME Typed, Safekept, Steadily, Crash
  PROVE  Steadily'
<1>1. Quiet
  BY CrashQuiet
<1>2. UNCHANGED <<queue, boundary, pane>> /\ restored' = {} /\ restart' = NoRestart
  BY DEF Crash, store, world
<1>3. \A a \in Agents : job'[a].pc = "idle"
  BY DEF Crash, Idle
<1>4. \A p \in Prompts : [submits[p] EXCEPT !.pc = "refused"].pc = "refused"
  BY DEF Typed, SendersOK, Submits
<1>5. \A p \in Prompts : submits'[p].pc # "direct"
  BY <1>4 DEF Crash, InFlight
<1>6. \A o \in Observers : observer'[o].pc = "idle"
  BY DEF Crash, NotObserving
<1>7. \A a \in Agents : Unread(a)'
  BY <1>2, <1>3, <1>5, <1>6 DEF Unread
<1>8. JobsGo
  BY <1>3 DEF JobsGo, Sending
<1>9. restart'.pc = "none"
  BY <1>2 DEF NoRestart
<1> QED BY <1>1, <1>2, <1>7, <1>8, <1>9, Stays, SteadyKeeps DEF Quiet, StillUnread
-----------------------------------------------------------------------------
(* Recorded resets: jobs that paste and submit                              *)

\* The steps of a job that only move it on.
LEMMA JobStepSteady ==
  ASSUME Typed, Safekept, Steady, Steadily, NEW a \in Agents,
         JobVerify(a) \/ JobUnverified(a) \/ JobAccept(a) \/ JobUnaccepted(a) \/ JobHold(a) \/ JobKeys(a)
  PROVE  Steadily'
<1>1. Quiet
  BY JobStepQuiet, JobKeysQuiet
<1>2. UNCHANGED <<queue, boundary, restored, submits, observer, restart>>
  BY DEF JobVerify, JobUnverified, JobAccept, JobUnaccepted, JobHold, JobKeys, store, memory
<1>3. job[a].pc \in {"verify", "accept", "hold", "keys"}
  BY DEF JobVerify, JobUnverified, JobAccept, JobUnaccepted, JobHold, JobKeys
<1>4. \E pc \in {"keys", "hold", "record", "fail", "accept"} :
        /\ Step(a, pc)
        /\ pc = "record" => job[a].prompt \notin Elements(pane[a].composer)
  BY SteadyEvents DEF JobVerify, JobUnverified, JobAccept, JobUnaccepted, JobHold, JobKeys
<1>5. /\ JobsGo /\ RemovalsStay /\ job'[a].pc \in {"keys", "hold", "record", "fail", "accept"}
      /\ \A b \in Agents \ {a} : job'[b] = job[b]
  BY <1>2, <1>3, <1>4, StepGoes DEF JobPc, Sending, Confirming
<1>6. UnreadStays
  BY <1>2, <1>3, <1>5, OwnJobUnread
<1> QED BY <1>1, <1>2, <1>5, <1>6, Stays, StayUnread, SteadyKeeps DEF Quiet

LEMMA JobRetrySteady ==
  ASSUME Typed, Safekept, Steadily, NEW a \in Agents, JobRetry(a)
  PROVE  Steadily'
<1>1. Quiet
  BY JobRetryQuiet
<1>2. UNCHANGED <<queue, boundary, restored, submits, observer, restart, job>>
  BY DEF JobRetry, store, memory, actors
<1>3. UnreadStays
  BY <1>2 DEF UnreadStays, Unread
<1> QED BY <1>1, <1>2, <1>3, Stays, StayUnread, SteadyKeeps DEF Quiet

\* The head of the queue is not a recorded reset: that one is being removed.
LEMMA JobNextSteady ==
  ASSUME Typed, Safekept, Owned, Steadily, NEW a \in Agents, JobNext(a)
  PROVE  Steadily'
<1>1. UNCHANGED <<queue, boundary, restored, observer, restart, pane>> /\ job[a].pc = "next"
  BY DEF JobNext, store, memory, world
<1>2. CASE queue[a] = <<>>
  <2>1. /\ JobsGo /\ AgentsStay /\ job'[a].pc = "idle"
        /\ \A b \in Agents \ {a} : job'[b] = job[b]
        /\ \A p \in Prompts : submits'[p].pc = "direct" => submits[p].pc = "direct"
        /\ \A p \in Prompts : submits'[p].agent = submits[p].agent
    BY <1>2, FinishGoes DEF JobNext
  <2>2. UnreadStays
    BY <1>1, <2>1, OwnJobUnread
  <2>3. RemovalsStay
    BY <1>1, <2>1 DEF RemovalsStay
  <2> QED BY <1>1, <2>1, <2>2, <2>3, Stays, Untouched, StayUnread, SteadyKeeps
<1>3. CASE queue[a] # <<>>
  <2> DEFINE p == Head(queue[a])
  <2>1. p \in Prompts /\ p \in Queued(a)
    BY <1>3, HeadQueued
  <2>2. UNCHANGED submits /\ job' = [job EXCEPT ![a].pc = "paste", ![a].prompt = p]
    BY <1>3 DEF JobNext
  <2>3. /\ job'[a].pc = "paste" /\ job'[a].prompt = p
        /\ \A b \in Agents \ {a} : job'[b] = job[b]
    <3>1. job[a] \in Jobs
      BY DEF Typed, SendersOK
    <3> QED BY <2>2, <3>1 DEF Typed, SendersOK, Jobs
  <2>4. ~ Unread(a) /\ ~ Removing(a)
    BY <1>1 DEF Unread, Removing
  <2>5. boundary[a] # p
    BY <2>1, <2>4 DEF Steadily, Recorded
  <2>6. submits[p].agent = a
    BY <2>1 DEF Owned
  <2>7. OwnJobs'
    BY <1>1, <2>2, <2>3, <2>6 DEF Steadily, OwnJobs
  <2>8. \A b \in Agents \ {a} : Unread(b) => Unread(b)'
    BY <1>1, <2>2, <2>3 DEF Unread
  <2>9. \A b \in Agents : Queued(b)' = Queued(b)
    BY <1>1 DEF Queued
  <2>10. Recorded'
    <3>1. ASSUME NEW b \in Agents \ {a}, boundary'[b] \in Prompts
          PROVE  /\ submits'[boundary'[b]].agent = b
                 /\ boundary'[b] \notin Elements(pane'[b].composer)
                 /\ job'[b].pc \in Sending /\ job'[b].prompt = boundary'[b] => job'[b].pc = "remove"
                 /\ boundary'[b] \in Queued(b)' => Unread(b)' \/ Removing(b)'
      <4>1. job'[b] = job[b] /\ UNCHANGED submits
        BY <2>2, <2>3
      <4> QED BY <1>1, <2>8, <2>9, <3>1, <4>1 DEF Steadily, Recorded, Removing
    <3>2. ASSUME boundary'[a] \in Prompts
          PROVE  /\ submits'[boundary'[a]].agent = a
                 /\ boundary'[a] \notin Elements(pane'[a].composer)
                 /\ job'[a].pc \in Sending /\ job'[a].prompt = boundary'[a] => job'[a].pc = "remove"
                 /\ boundary'[a] \in Queued(a)' => Unread(a)' \/ Removing(a)'
      BY <1>1, <2>2, <2>3, <2>4, <2>5, <2>9, <3>2 DEF Steadily, Recorded
    <3> QED BY <3>1, <3>2 DEF Recorded
  <2> QED BY <1>1, <2>7, <2>10 DEF Steadily
<1> QED BY <1>2, <1>3

\* What is pasted is no recorded reset either.
LEMMA PasteSteady ==
  ASSUME Typed, Steadily, NEW a \in Agents, job[a].pc = "paste", Alive(a),
         pane' = [pane EXCEPT ![a].composer = Append(@, job[a].prompt)],
         NEW pc \in {"verify", "hold", "fail"}, Step(a, pc),
         UNCHANGED <<queue, boundary, restored, submits, observer, restart>>
  PROVE  Steadily'
<1> DEFINE p == job[a].prompt
<1>1. p \in Prompts /\ submits[p].agent = a
  BY DEF Typed, SendersOK, Steadily, OwnJobs, Sending
<1>2. /\ job'[a].pc = pc /\ job'[a].prompt = p
      /\ \A b \in Agents \ {a} : job'[b] = job[b]
  BY <1>1, StepLemma DEF Typed, JobPc, Sending
<1>3. boundary[a] # p
  BY <1>1 DEF Steadily, Recorded, Sending
<1>4. pane[a].composer \in Seq(Prompts)
  BY DEF Typed, WorldOK, Panes
<1>5. /\ pane'[a].composer = Append(pane[a].composer, p)
      /\ \A b \in Agents \ {a} : pane'[b] = pane[b]
  <2>1. Append(pane[a].composer, p) \in Seq(Prompts)
    BY <1>1, <1>4
  <2> QED BY <2>1, ComposerLemma DEF Typed
<1>6. Elements(pane'[a].composer) = Elements(pane[a].composer) \union {p}
  <2>1. \A i \in 1 .. Len(pane[a].composer) : Append(pane[a].composer, p)[i] = pane[a].composer[i]
    BY <1>1, <1>4
  <2>2. /\ DOMAIN Append(pane[a].composer, p) = 1 .. Len(pane[a].composer) + 1
        /\ DOMAIN pane[a].composer = 1 .. Len(pane[a].composer)
        /\ Append(pane[a].composer, p)[Len(pane[a].composer) + 1] = p
        /\ Len(pane[a].composer) \in Nat
    BY <1>1, <1>4
  <2> QED BY <1>5, <2>1, <2>2 DEF Elements
<1>7. OwnJobs'
  BY <1>1, <1>2, <1>5 DEF Steadily, OwnJobs
<1>8. ~ Unread(a) /\ ~ Removing(a) /\ \A b \in Agents \ {a} : Unread(b) => Unread(b)'
  BY <1>2 DEF Unread, Removing
<1>9. \A b \in Agents : Queued(b)' = Queued(b)
  BY DEF Queued
<1>10. Recorded'
  <2>1. ASSUME NEW b \in Agents \ {a}, boundary'[b] \in Prompts
        PROVE  /\ submits'[boundary'[b]].agent = b
               /\ boundary'[b] \notin Elements(pane'[b].composer)
               /\ job'[b].pc \in Sending /\ job'[b].prompt = boundary'[b] => job'[b].pc = "remove"
               /\ boundary'[b] \in Queued(b)' => Unread(b)' \/ Removing(b)'
    BY <1>2, <1>5, <1>8, <1>9, <2>1 DEF Steadily, Recorded, Removing
  <2>2. ASSUME boundary'[a] \in Prompts
        PROVE  /\ submits'[boundary'[a]].agent = a
               /\ boundary'[a] \notin Elements(pane'[a].composer)
               /\ job'[a].pc \in Sending /\ job'[a].prompt = boundary'[a] => job'[a].pc = "remove"
               /\ boundary'[a] \in Queued(a)' => Unread(a)' \/ Removing(a)'
    BY <1>2, <1>3, <1>6, <1>8, <1>9, <2>2 DEF Steadily, Recorded
  <2> QED BY <2>1, <2>2 DEF Recorded
<1> QED BY <1>7, <1>10 DEF Steadily

LEMMA JobPasteSteady ==
  ASSUME Typed, Steadily, NEW a \in Agents, JobPaste(a) \/ JobPasteFails(a)
  PROVE  Steadily'
<1>1. UNCHANGED <<queue, boundary, restored, submits, observer, restart>> /\ job[a].pc = "paste"
  BY DEF JobPaste, JobPasteFails, store, memory
<1>2. ASSUME NEW pc \in {"verify", "hold", "fail"}, Step(a, pc), Alive(a),
             pane' = [pane EXCEPT ![a].composer = Append(@, job[a].prompt)]
      PROVE  Steadily'
  BY <1>1, <1>2, PasteSteady
<1>3. CASE Step(a, "fail") /\ UNCHANGED pane
  <2>1. /\ JobsGo /\ RemovalsStay /\ job'[a].pc = "fail"
        /\ \A b \in Agents \ {a} : job'[b] = job[b]
    BY <1>1, <1>3, StepGoes DEF JobPc, Sending, Confirming
  <2>2. UnreadStays
    BY <1>1, <2>1, OwnJobUnread
  <2> QED BY <1>1, <1>3, <2>1, <2>2, Stays, Untouched, StayUnread, SteadyKeeps
<1> QED BY <1>2, <1>3 DEF JobPaste, JobPasteFails
-----------------------------------------------------------------------------
(* Recorded resets: the boundary, the removal, and what follows             *)

\* A submitted reset becomes the boundary, and its job removes it.
LEMMA JobBoundarySteady ==
  ASSUME Typed, Safekept, Steady, Steadily, NEW a \in Agents, JobBoundary(a)
  PROVE  Steadily'
<1> DEFINE p == job[a].prompt
<1>1. /\ UNCHANGED <<queue, restored, submits, observer, restart, pane>>
      /\ job[a].pc = "boundary" /\ Step(a, "remove")
      /\ boundary' = [boundary EXCEPT ![a] = p]
  BY SteadyEvents DEF JobBoundary, world
<1>2. p \in Prompts /\ submits[p].agent = a /\ p \notin Elements(pane[a].composer)
  BY <1>1 DEF Typed, SendersOK, Steadily, OwnJobs, Sending
<1>3. /\ job'[a].pc = "remove" /\ job'[a].prompt = p
      /\ \A b \in Agents \ {a} : job'[b] = job[b]
  BY <1>1, <1>2, StepLemma DEF Typed, JobPc, Sending
<1>4. boundary'[a] = p /\ \A b \in Agents \ {a} : boundary'[b] = boundary[b]
  BY <1>1 DEF Typed, StoreOK
<1>5. OwnJobs'
  BY <1>1, <1>2, <1>3 DEF Steadily, OwnJobs
<1>6. \A b \in Agents \ {a} : Unread(b) => Unread(b)'
  BY <1>1, <1>3 DEF Unread
<1>7. \A b \in Agents : Queued(b)' = Queued(b)
  BY <1>1 DEF Queued
<1>8. Recorded'
  <2>1. ASSUME NEW b \in Agents \ {a}, boundary'[b] \in Prompts
        PROVE  /\ submits'[boundary'[b]].agent = b
               /\ boundary'[b] \notin Elements(pane'[b].composer)
               /\ job'[b].pc \in Sending /\ job'[b].prompt = boundary'[b] => job'[b].pc = "remove"
               /\ boundary'[b] \in Queued(b)' => Unread(b)' \/ Removing(b)'
    <3>1. job'[b] = job[b] /\ boundary'[b] = boundary[b] /\ UNCHANGED <<submits, pane>>
      BY <1>1, <1>3, <1>4
    <3> QED BY <1>6, <1>7, <2>1, <3>1 DEF Steadily, Recorded, Removing
  <2>2. submits'[boundary'[a]].agent = a /\ boundary'[a] \notin Elements(pane'[a].composer)
    BY <1>1, <1>2, <1>4
  <2>3. Removing(a)'
    BY <1>3, <1>4 DEF Removing
  <2> QED BY <1>3, <2>1, <2>2, <2>3 DEF Recorded
<1> QED BY <1>1, <1>5, <1>8 DEF Steadily

LEMMA JobRecordSteady ==
  ASSUME Typed, Safekept, Steady, Steadily, NEW a \in Agents, JobRecord(a)
  PROVE  Steadily'
<1>1. /\ UNCHANGED <<queue, restored, submits, observer, restart, pane>>
      /\ job[a].pc = "record"
      /\ \E pc \in {"boundary", "remove"} : Step(a, pc)
      /\ boundary' \in {boundary, [boundary EXCEPT ![a] = None]}
  BY SteadyEvents DEF JobRecord, world
<1>2. /\ JobsGo /\ RemovalsStay /\ job'[a].pc \in {"boundary", "remove"}
      /\ \A b \in Agents \ {a} : job'[b] = job[b]
  BY <1>1, StepGoes DEF JobPc, Sending, Confirming
<1>3. BoundariesStay
  BY <1>1, PromptDeliveryAssumption DEF BoundariesStay, Typed, StoreOK
<1>4. UnreadStays
  BY <1>1, <1>2, OwnJobUnread
<1> QED BY <1>1, <1>2, <1>3, <1>4, Stays, Untouched, StayUnread, SteadyKeeps

\* The removal that a boundary was written for takes it out of the queue.
LEMMA JobRemoveSteady ==
  ASSUME Typed, Safekept, Steady, Steadily, NEW a \in Agents, JobRemove(a)
  PROVE  Steadily'
<1>1. /\ UNCHANGED <<boundary, restored, observer, restart, pane>>
      /\ job[a].pc = "remove" /\ Finish(a, "accepted") /\ queue' = Drop(a, job[a].prompt)
  BY SteadyEvents DEF JobRemove, memory, world
<1>2. /\ JobsGo /\ AgentsStay /\ job'[a].pc = "idle"
      /\ \A b \in Agents \ {a} : job'[b] = job[b]
      /\ \A p \in Prompts : submits'[p].pc = "direct" => submits[p].pc = "direct"
      /\ \A p \in Prompts : submits'[p].agent = submits[p].agent
  BY <1>1, FinishGoes
<1>3. UnreadStays
  BY <1>1, <1>2, OwnJobUnread
<1>4. /\ QueuesShrink /\ job[a].prompt \notin Queued(a)'
      /\ \A b \in Agents \ {a} : Queued(b)' = Queued(b)
  BY <1>1, DropShrinks
<1>5. ASSUME NEW b \in Agents, boundary[b] \in Prompts, boundary[b] \in Queued(b)',
             boundary'[b] = boundary[b]
      PROVE  Unread(b)' \/ Removing(b)'
  <2>1. boundary[b] \in Queued(b)
    BY <1>4, <1>5 DEF QueuesShrink
  <2>2. CASE Unread(b)
    BY <1>3, <2>2 DEF UnreadStays
  <2>3. CASE Removing(b)
    <3>1. b # a
      BY <1>4, <1>5, <2>3 DEF Removing
    <3>2. job'[b] = job[b]
      BY <1>2, <3>1
    <3> QED BY <1>5, <2>3, <3>2 DEF Removing
  <2> QED BY <1>5, <2>1, <2>2, <2>3 DEF Steadily, Recorded
<1>6. StillUnread
  BY <1>5 DEF StillUnread
<1> QED BY <1>1, <1>2, <1>6, Stays, Untouched, SteadyKeeps

\* The other steps of a job that is not sending.
LEMMA JobOtherSteady ==
  ASSUME Typed, Safekept, Steady, Steadily, NEW a \in Agents,
         JobFail(a) \/ DrainNote(a) \/ DrainEnds(a) \/ ExternalBoundary(a)
  PROVE  Steadily'
<1>1. /\ UNCHANGED <<observer, restart, pane>> /\ restored' \subseteq restored
      /\ job[a].pc \in {"fail", "drain", "external"}
  BY DEF JobFail, DrainNote, DrainEnds, ExternalBoundary, memory, actors, world, Forget
<1>2. BoundariesStay
  <2>1. \E b \in {None, "external"} : boundary' \in {boundary, [boundary EXCEPT ![a] = b]}
    BY DEF JobFail, DrainNote, DrainEnds, ExternalBoundary, store
  <2> QED BY <2>1, PromptDeliveryAssumption DEF BoundariesStay, Typed, StoreOK
<1>3. QueuesShrink
  BY DropShrinks, Stays DEF JobFail, DrainNote, DrainEnds, ExternalBoundary, store
<1>4. /\ JobsGo /\ AgentsStay /\ RemovalsStay
      /\ \A b \in Agents \ {a} : job'[b] = job[b]
      /\ job[a].pc = "drain" => job'[a].pc \in {"idle", "drain"}
      /\ \A p \in Prompts : submits'[p].pc = "direct" => submits[p].pc = "direct"
      /\ \A p \in Prompts : submits'[p].agent = submits[p].agent
  <2>1. CASE Finish(a, "accepted")
    <3>1. RemovalsStay
      BY <1>1, <2>1, FinishGoes DEF RemovalsStay
    <3> QED BY <2>1, <3>1, FinishGoes
  <2>2. CASE ExternalBoundary(a) /\ Step(a, "next") /\ UNCHANGED submits
    <3>1. /\ JobsGo /\ RemovalsStay /\ \A b \in Agents \ {a} : job'[b] = job[b]
      BY <2>2, StepGoes DEF ExternalBoundary, JobPc, Sending, Confirming
    <3> QED BY <2>2, <3>1, Stays DEF ExternalBoundary
  <2>3. CASE UNCHANGED <<job, submits>>
    BY <2>3, Stays
  <2> QED BY <2>1, <2>2, <2>3, SteadyEvents DEF JobFail, DrainNote, DrainEnds, ExternalBoundary, actors
<1>5. UnreadStays
  BY <1>1, <1>4 DEF UnreadStays, Unread
<1> QED BY <1>1, <1>2, <1>3, <1>4, <1>5, Stays, Untouched, StayUnread, SteadyKeeps

LEMMA SteadyStep ==
  ASSUME Inductive, Steady, Steadily, Next
  PROVE  Steadily'
<1>1. Typed /\ Safekept /\ Owned
  BY InductiveParts
<1>2. ASSUME NEW p \in Prompts, Submission(p)  PROVE Steadily'
  BY <1>1, <1>2, SubmissionSteady, SubmitEnqueueSteady DEF Submission
<1>3. ASSUME NEW a \in Agents, Job(a)  PROVE Steadily'
  <2>1. ~ DrainFails(a)
    BY SteadyEvents DEF DrainFails
  <2>2. CASE JobNext(a) \/ JobPaste(a) \/ JobPasteFails(a) \/ JobRetry(a)
    BY <1>1, <2>2, JobNextSteady, JobPasteSteady, JobRetrySteady
  <2>3. CASE JobVerify(a) \/ JobUnverified(a) \/ JobAccept(a) \/ JobUnaccepted(a) \/ JobHold(a) \/ JobKeys(a)
    BY <1>1, <2>3, JobStepSteady
  <2>4. CASE JobRecord(a) \/ JobBoundary(a) \/ JobRemove(a)
    BY <1>1, <2>4, JobRecordSteady, JobBoundarySteady, JobRemoveSteady
  <2>5. CASE JobFail(a) \/ DrainNote(a) \/ DrainEnds(a) \/ ExternalBoundary(a)
    BY <1>1, <2>5, JobOtherSteady
  <2> QED BY <1>3, <2>1, <2>2, <2>3, <2>4, <2>5 DEF Job
<1>4. ASSUME NEW a \in Agents,
             Restore(a) \/ RestoreFails(a) \/ Retire(a) \/ Operator(a) \/ RestartLocks(a) \/ Environment(a)
      PROVE  Steadily'
  <2>1. ~ RestoreFails(a) /\ ~ RestartLocks(a)
    BY SteadyEvents DEF RestoreFails, RestartLocks
  <2> QED BY <1>1, <1>4, <2>1, RestoreSteady, AgentSteady
<1>5. ASSUME NEW o \in Observers, Observation(o) \/ \E a \in Agents : Observe(o, a)
      PROVE  Steadily'
  BY <1>1, <1>5, ObservationSteady
<1>6. ~ IdleRestart
  BY DEF Steadily, IdleRestart, RestartScans, RestartChecks, RestartCloses, RestartLaunches,
         RestartHandsOver, HandOverFails
<1>7. CASE Crash
  BY <1>1, <1>7, CrashSteady
<1> QED BY <1>2, <1>3, <1>4, <1>5, <1>6, <1>7 DEF Next

LEMMA ResetsRecordedAlways == Spec => []ResetsRecorded
<1>1. Init => ResetsRecorded
  <2> SUFFICES ASSUME Init  PROVE Steadily
    BY DEF ResetsRecorded, Steadily
  <2>1. restart.pc = "none" /\ OwnJobs
    BY DEF Init, NoRestart, OwnJobs, Idle, Sending
  <2>2. Recorded
    BY PromptDeliveryAssumption DEF Init, Recorded
  <2> QED BY <2>1, <2>2 DEF Steadily
<1>2. Inductive /\ ResetsRecorded /\ [Next]_vars => ResetsRecorded'
  <2> SUFFICES ASSUME Inductive, ResetsRecorded, [Next]_vars, Steady'  PROVE Steadily'
    BY DEF ResetsRecorded, Steadily
  <2>1. CASE Next
    <3>1. Steady
      BY <2>1 DEF Next, Steady, Native
    <3>2. Steadily
      BY <3>1 DEF ResetsRecorded, Steadily
    <3> QED BY <2>1, <3>1, <3>2, SteadyStep
  <2>2. CASE UNCHANGED vars
    <3>1. UNCHANGED <<adapter, happens, store, memory, actors, world>>
      BY <2>2 DEF vars, moving
    <3>2. Steadily
      BY <3>1 DEF ResetsRecorded, Steadily, Steady, Native
    <3> QED BY <3>1, <3>2 DEF Steadily, OwnJobs, Recorded, Unread, Removing, Queued,
                               store, memory, actors, world
  <2> QED BY <2>1, <2>2
<1> QED BY InvariantHolds, <1>1, <1>2, PTL DEF Spec

(* A reset whose boundary is durable is not submitted again, through        *)
(* server starts, deaths of panes and terminal failures, while writes       *)
(* succeed and no idle restart overlaps: the boundary is in no composer,    *)
(* and a composer holds only prompts of its own Agent.                      *)
THEOREM RecordedResets == Spec => RecordedResetIsDone
<1>1. ASSUME Inductive, ResetsRecorded, Next, Steady,
             NEW p \in Prompts, NEW a \in Agents, boundary[a] = p
      PROVE  delivered'[p] = delivered[p]
  <2>1. CASE UNCHANGED delivered
    BY <2>1
  <2>2. ASSUME NEW b \in Agents, TakeComposer(b)  PROVE delivered'[p] = delivered[p]
    <3>1. p \notin Elements(pane[b].composer)
      BY <1>1 DEF Inductive, Owned, ResetsRecorded, Recorded
    <3> QED BY <1>1, <2>2, <3>1, TakenLemma, InductiveParts
  <2> QED BY <1>1, <2>1, <2>2, OnlyKeysTake
<1>2. Inductive /\ ResetsRecorded /\ [Next]_vars
        => [Steady => \A p \in Prompts :
              (\E a \in Agents : boundary[a] = p) => delivered'[p] = delivered[p]]_vars
  BY <1>1
<1> QED BY InvariantHolds, ResetsRecordedAlways, <1>2, PTL DEF Spec, RecordedResetIsDone
-----------------------------------------------------------------------------
(* Confirmed submissions: what is being submitted is in the composer, or    *)
(* was taken or wiped                                                       *)

\* What a job does to other Agents: nothing.
LEMMA OthersUntouched ==
  ASSUME Typed, NEW a \in Agents, Job(a)
  PROVE  /\ job[a].pc # "idle" /\ UNCHANGED <<observer, restart>>
         /\ \A b \in Agents \ {a} : job'[b] = job[b] /\ phase'[b] = phase[b]
<1>1. job[a].pc # "idle" /\ UNCHANGED <<observer, restart>>
  BY DEF Job, JobNext, JobPaste, JobPasteFails, JobVerify, JobUnverified, JobKeys, JobAccept,
         JobRetry, JobUnaccepted, JobRecord, JobBoundary, JobRemove, JobHold, JobFail,
         DrainNote, DrainFails, DrainEnds, ExternalBoundary, actors
<1>2. \/ UNCHANGED phase
      \/ \E new : SetPhase(a, new)
  BY DEF Job, JobNext, JobPaste, JobPasteFails, JobVerify, JobUnverified, JobKeys, JobAccept,
         JobRetry, JobUnaccepted, JobRecord, JobBoundary, JobRemove, JobHold, JobFail,
         DrainNote, DrainFails, DrainEnds, ExternalBoundary, memory, Hold, Forget
<1>3. \/ UNCHANGED job
      \/ \E new : job' = [job EXCEPT ![a] = new]
  <2>1. \A outcome : Finish(a, outcome) => job' = [job EXCEPT ![a] = Idle]
    BY DEF Finish
  <2>2. \A pc : Step(a, pc) => job' = [job EXCEPT ![a] = [job[a] EXCEPT !.pc = pc]]
    BY DEF Step
  <2>3. CASE JobNext(a)
    BY <2>1, <2>3 DEF JobNext
  <2>4. CASE ~ JobNext(a)
    BY <2>1, <2>2, <2>4
       DEF Job, JobPaste, JobPasteFails, JobVerify, JobUnverified, JobKeys, JobAccept,
           JobRetry, JobUnaccepted, JobRecord, JobBoundary, JobRemove, JobHold, JobFail,
           DrainNote, DrainFails, DrainEnds, ExternalBoundary, actors
  <2> QED BY <2>3, <2>4
<1>4. \A b \in Agents \ {a} : phase'[b] = phase[b]
  BY <1>2 DEF SetPhase, Typed, MemoryOK
<1>5. \A b \in Agents \ {a} : job'[b] = job[b]
  BY <1>3 DEF Typed, SendersOK
<1> QED BY <1>1, <1>4, <1>5

SubmittingAt(a) ==
  /\ job[a].pc \in {"keys", "accept"} => pane[a].life # "unborn"
  /\ job[a].pc \in {"keys", "accept"} /\ Alive(a) =>
       job[a].prompt \in Elements(pane[a].composer) \/ Reached(job[a].prompt)
  /\ job[a].pc = "record" => Reached(job[a].prompt)

\* What most steps leave alone, and what a prompt does that leaves a composer.
Reaches(p) == delivered'[p] # <<>> \/ p \in wiped'
JobRests(a) == job'[a] = job[a] \/ job'[a].pc \notin {"keys", "accept", "record"}
PaneRests(a) ==
  \/ pane'[a].life = "dead" \/ pane[a].life = "unborn"
  \/ /\ pane'[a].life = pane[a].life
     /\ job[a].pc \in {"keys", "accept"} /\ job[a].prompt \in Elements(pane[a].composer)
          => job[a].prompt \in Elements(pane'[a].composer) \/ Reaches(job[a].prompt)
ReachedStays == \A p \in Prompts : Reached(p) => Reaches(p)

LEMMA SamePaneRests ==
  ASSUME NEW a \in Agents, pane'[a].life = pane[a].life, pane'[a].composer = pane[a].composer
  PROVE  PaneRests(a)
<1>1. Elements(pane'[a].composer) = Elements(pane[a].composer)
  OBVIOUS
<1> QED BY <1>1 DEF PaneRests

LEMMA SubmittingRests ==
  ASSUME Typed, Submitting, ReachedStays, NEW a \in Agents, JobRests(a), PaneRests(a)
  PROVE  SubmittingAt(a)'
<1>1. CASE job'[a].pc \notin {"keys", "accept", "record"}
  BY <1>1 DEF SubmittingAt
<1>2. CASE job'[a] = job[a] /\ job[a].pc = "record"
  <2>1. job[a].prompt \in Prompts /\ Reached(job[a].prompt)
    BY <1>2 DEF Typed, SendersOK, Sending, Submitting
  <2>2. Reaches(job[a].prompt)
    BY <2>1 DEF ReachedStays
  <2> QED BY <1>2, <2>2 DEF SubmittingAt, Reached, Reaches
<1>3. CASE job'[a] = job[a] /\ job[a].pc \in {"keys", "accept"}
  <2>1. job[a].prompt \in Prompts /\ pane[a].life # "unborn"
    BY <1>3 DEF Typed, SendersOK, Sending, Submitting
  <2>2. CASE pane'[a].life = "dead"
    BY <1>3, <2>2 DEF SubmittingAt, Alive
  <2>3. CASE /\ pane'[a].life = pane[a].life
             /\ job[a].prompt \in Elements(pane[a].composer)
                  => job[a].prompt \in Elements(pane'[a].composer) \/ Reaches(job[a].prompt)
    <3>1. Alive(a)' => job[a].prompt \in Elements(pane[a].composer) \/ Reached(job[a].prompt)
      BY <1>3, <2>3 DEF Submitting, Alive
    <3>2. Reached(job[a].prompt) => Reaches(job'[a].prompt)
      BY <1>3, <2>1 DEF ReachedStays, Reached, Reaches
    <3>3. Reaches(job[a].prompt) => Reaches(job'[a].prompt)
      BY <1>3 DEF Reached, Reaches
    <3>4. Alive(a)' => job'[a].prompt \in Elements(pane'[a].composer) \/ Reaches(job'[a].prompt)
      BY <1>3, <2>3, <3>1, <3>2, <3>3
    <3> QED BY <1>3, <2>1, <2>3, <3>4 DEF SubmittingAt, Reached, Reaches, Alive, Elements
  <2> QED BY <1>3, <2>1, <2>2, <2>3 DEF PaneRests
<1> QED BY <1>1, <1>2, <1>3 DEF JobRests

\* What a terminal takes or took, it has taken.
LEMMA TakesComposer ==
  ASSUME Typed, NEW a \in Agents, TakeComposer(a), NEW p \in Prompts,
         p \in Elements(pane[a].composer) \/ delivered[p] # <<>>
  PROVE  delivered'[p] # <<>>
<1>1. delivered[p] \in Seq(Agents)
  BY DEF Typed, WorldOK
<1>2. Append(delivered[p], a) # <<>>
  BY <1>1
<1> QED BY <1>2, TakenLemma

\* Only an observation that clears a draft wipes.
LEMMA WipedGrows ==
  ASSUME Next
  PROVE  wiped \subseteq wiped'
<1>1. ASSUME NEW p \in Prompts, Submission(p)  PROVE UNCHANGED wiped
  BY <1>1 DEF Submission, Submit, SubmitRevives, SubmitDecide, SubmitEnqueue, SubmitRefused, told
<1>2. ASSUME NEW a \in Agents, Job(a)  PROVE UNCHANGED wiped
  BY <1>2 DEF Job, JobNext, JobPaste, JobPasteFails, JobVerify, JobUnverified, JobKeys, JobAccept,
         JobRetry, JobUnaccepted, JobRecord, JobBoundary, JobRemove, JobHold, JobFail,
         DrainNote, DrainFails, DrainEnds, ExternalBoundary, told
<1>3. ASSUME NEW a \in Agents,
             Restore(a) \/ RestoreFails(a) \/ Retire(a) \/ Operator(a) \/ RestartLocks(a) \/ Environment(a)
      PROVE  UNCHANGED wiped
  BY <1>3 DEF Restore, RestoreFails, Retire, Operator, CancelSends, CancelHolds, Remove, Save,
         RestartLocks, Environment, TurnEnds, TerminalTakes, AttentionChanges, PaneDies, told
<1>4. ASSUME NEW o \in Observers, Observation(o) \/ \E a \in Agents : Observe(o, a)
      PROVE  wiped \subseteq wiped'
  BY <1>4 DEF Observation, Observe, ObserveLooks, TurnlessStarts, TurnlessEnds, TurnlessWaits,
         ObserveMarks, ObserveAdopts, ObserveSettles, SettleWaits, ObserveHolds,
         ObserveClears, ObserveReleases, AnswerPending, AnswerCompletes, AnswerFails,
         AnswerIsReset, told
<1>5. IdleRestart \/ Crash => UNCHANGED wiped
  BY DEF IdleRestart, RestartScans, RestartChecks, RestartCloses, RestartLaunches,
         RestartHandsOver, HandOverFails, Crash, told
<1> QED BY <1>1, <1>2, <1>3, <1>4, <1>5 DEF Next

LEMMA StaysReached ==
  ASSUME Typed, Next
  PROVE  ReachedStays
<1>1. ASSUME NEW p \in Prompts, delivered[p] # <<>>  PROVE delivered'[p] # <<>>
  <2>1. CASE UNCHANGED delivered
    BY <1>1, <2>1
  <2> QED BY <1>1, <2>1, OnlyKeysTake, TakesComposer
<1> QED BY <1>1, WipedGrows DEF ReachedStays, Reached, Reaches

LEMMA AgentRests ==
  ASSUME Typed, NEW a \in Agents,
         Restore(a) \/ RestoreFails(a) \/ Retire(a) \/ Operator(a) \/ RestartLocks(a) \/ Environment(a)
  PROVE  /\ \A b \in Agents : JobRests(b) /\ PaneRests(b)
         /\ UNCHANGED confirmed
<1>1. CASE Restore(a) \/ RestoreFails(a) \/ RestartLocks(a)
  <2>1. UNCHANGED <<job, pane, confirmed>>
    BY <1>1 DEF Restore, RestoreFails, RestartLocks, actors, world, told
  <2> QED BY <2>1, SamePaneRests DEF JobRests
<1>2. CASE Retire(a)
  <2>1. /\ UNCHANGED <<pane, confirmed>>
        /\ StartJob(a, "drain", None, "retire")
    BY <1>2 DEF Retire, world, told
  <2>2. job'[a].pc \notin {"keys", "accept", "record"} /\ \A b \in Agents \ {a} : job'[b] = job[b]
    BY <2>1 DEF StartJob, Typed, SendersOK
  <2> QED BY <2>1, <2>2, SamePaneRests DEF JobRests
<1>3. CASE Operator(a)
  <2>1. UNCHANGED <<job, confirmed>>
    BY <1>3 DEF Operator, CancelSends, CancelHolds, Remove, Save, actors, told
  <2>2. \A b \in Agents : pane'[b].life = pane[b].life /\ pane'[b].composer = pane[b].composer
    <3>1. CASE CancelSends(a)
      BY <3>1, WorkEndsLemma DEF CancelSends, Typed
    <3>2. CASE ~ CancelSends(a)
      BY <1>3, <3>2 DEF Operator, CancelHolds, Remove, Save, world
    <3> QED BY <3>1, <3>2
  <2> QED BY <2>1, <2>2, SamePaneRests DEF JobRests
<1>4. CASE Environment(a)
  <2>1. UNCHANGED <<job, confirmed>>
    BY <1>4 DEF Environment, TurnEnds, TerminalTakes, AttentionChanges, PaneDies, actors, told
  <2>2. \A b \in Agents : PaneRests(b)
    <3>1. CASE PaneDies(a)
      <4>1. pane'[a].life = "dead" /\ \A b \in Agents \ {a} : pane'[b] = pane[b]
        BY <3>1, PaneGoneLemma DEF PaneDies, Typed
      <4> QED BY <4>1, SamePaneRests DEF PaneRests
    <3>2. ASSUME NEW how \in {"completed", "interrupted"}, TurnEnds(a, how)
          PROVE  \A b \in Agents : PaneRests(b)
      BY <3>2, WorkEndsLemma, SamePaneRests DEF TurnEnds, Typed
    <3>3. CASE AttentionChanges(a)
      BY <3>3, AttentionLemma, SamePaneRests DEF AttentionChanges, Typed
    <3>4. CASE TerminalTakes(a)
      <4>1. CASE TakeComposer(a)
        <5>1. /\ \A b \in Agents \ {a} : pane'[b] = pane[b]
              /\ pane'[a].life = pane[a].life
          BY <4>1, TakeLemma DEF Typed
        <5>2. job[a].pc \in {"keys", "accept"} => job[a].prompt \in Prompts
          BY DEF Typed, SendersOK, Sending
        <5>3. job[a].pc \in {"keys", "accept"} /\ job[a].prompt \in Elements(pane[a].composer)
                => Reaches(job[a].prompt)
          <6>1. job[a].pc \in {"keys", "accept"} /\ job[a].prompt \in Elements(pane[a].composer)
                  => delivered'[job[a].prompt] # <<>>
            BY <4>1, <5>2, TakesComposer
          <6>2. UNCHANGED job
            BY <2>1
          <6> QED BY <6>1, <6>2 DEF Reached, Reaches
        <5>4. PaneRests(a)
          BY <5>1, <5>3 DEF PaneRests
        <5> QED BY <5>1, <5>4, SamePaneRests
      <4>2. CASE pane' = [pane EXCEPT ![a].pressed = FALSE]
        BY <4>2, PressesLemma, SamePaneRests DEF Typed
      <4> QED BY <3>4, <4>1, <4>2 DEF TerminalTakes
    <3> QED BY <1>4, <3>1, <3>2, <3>3, <3>4 DEF Environment
  <2> QED BY <2>1, <2>2 DEF JobRests
<1> QED BY <1>1, <1>2, <1>3, <1>4

LEMMA SubmissionRests ==
  ASSUME Typed, NEW p \in Prompts, Submission(p)
  PROVE  /\ \A b \in Agents : JobRests(b) /\ PaneRests(b)
         /\ UNCHANGED confirmed
<1>1. UNCHANGED <<pane, confirmed>>
  BY DEF Submission, Submit, SubmitRevives, SubmitDecide, SubmitEnqueue, SubmitRefused, actors, world, told
<1>2. UNCHANGED job \/ \E a : StartJob(a, "next", p, "nothing")
  BY DEF Submission, Submit, SubmitRevives, SubmitDecide, SubmitEnqueue, SubmitRefused, actors
<1>3. \A b \in Agents : JobRests(b)
  BY <1>2 DEF StartJob, Typed, SendersOK, JobRests
<1> QED BY <1>1, <1>3, SamePaneRests

LEMMA RestartRests ==
  ASSUME Typed, IdleRestart
  PROVE  /\ \A b \in Agents : JobRests(b) /\ PaneRests(b)
         /\ UNCHANGED confirmed
<1>1. UNCHANGED <<job, confirmed>>
  BY DEF IdleRestart, RestartScans, RestartChecks, RestartCloses, RestartLaunches,
         RestartHandsOver, HandOverFails, told
<1>2. \/ UNCHANGED pane
      \/ restart.from \in Agents /\ PaneGone(restart.from) /\ UNCHANGED delivered
      \/ \E b \in Agents : pane[b].life = "unborn" /\ pane' = [pane EXCEPT ![b] = Pane("alive")]
  BY DEF IdleRestart, RestartScans, RestartChecks, RestartCloses, RestartLaunches,
         RestartHandsOver, HandOverFails, world, Typed, RestartOK
<1>3. \A b \in Agents : PaneRests(b)
  <2>1. CASE UNCHANGED pane
    BY <2>1, SamePaneRests
  <2>2. CASE restart.from \in Agents /\ PaneGone(restart.from) /\ UNCHANGED delivered
    <3>1. /\ pane'[restart.from].life = "dead"
          /\ \A b \in Agents \ {restart.from} : pane'[b] = pane[b]
      BY <2>2, PaneGoneLemma DEF Typed
    <3> QED BY <3>1, SamePaneRests DEF PaneRests
  <2>3. ASSUME NEW c \in Agents, pane[c].life = "unborn", pane' = [pane EXCEPT ![c] = Pane("alive")]
        PROVE  \A b \in Agents : PaneRests(b)
    <3>1. \A b \in Agents \ {c} : pane'[b] = pane[b]
      BY <2>3 DEF Typed, WorldOK
    <3> QED BY <2>3, <3>1, SamePaneRests DEF PaneRests
  <2> QED BY <1>2, <2>1, <2>2, <2>3
<1> QED BY <1>1, <1>3 DEF JobRests

\* A draft that is cleared while a job submits it is wiped.
LEMMA ObservationRests ==
  ASSUME Typed, NEW o \in Observers, Observation(o) \/ \E a \in Agents : Observe(o, a)
  PROVE  /\ \A b \in Agents : JobRests(b) /\ PaneRests(b)
         /\ UNCHANGED confirmed
<1>1. UNCHANGED confirmed
  BY DEF Observation, Observe, ObserveLooks, TurnlessStarts, TurnlessEnds, TurnlessWaits,
         ObserveMarks, ObserveAdopts, ObserveSettles, SettleWaits, ObserveHolds,
         ObserveClears, ObserveReleases, AnswerPending, AnswerCompletes, AnswerFails,
         AnswerIsReset, told
<1>2. \/ UNCHANGED job
      \/ \E a, then : \E pc \in {"next", "drain", "external"} : StartJob(a, pc, None, then)
  BY DEF Observation, Observe, ObserveLooks, TurnlessStarts, TurnlessEnds, TurnlessWaits,
         ObserveMarks, ObserveAdopts, ObserveSettles, SettleWaits, ObserveHolds,
         ObserveClears, ObserveReleases, AnswerPending, AnswerCompletes, AnswerFails,
         AnswerIsReset, Halt, Drain, Dispatch
<1>3. \A b \in Agents : JobRests(b)
  BY <1>2 DEF StartJob, Typed, SendersOK, JobRests
<1>4. CASE ~ ObserveClears(o)
  <2>1. UNCHANGED pane
    BY <1>4 DEF Observation, Observe, ObserveLooks, TurnlessStarts, TurnlessEnds, TurnlessWaits,
         ObserveMarks, ObserveAdopts, ObserveSettles, SettleWaits, ObserveHolds,
         ObserveReleases, AnswerPending, AnswerCompletes, AnswerFails, AnswerIsReset, world
  <2> QED BY <1>1, <1>3, <2>1, SamePaneRests
<1>5. CASE ObserveClears(o)
  <2>1. observer[o].pc = "clear" /\ observer[o].agent \in Agents
    BY <1>5, SeenLemma DEF ObserveClears
  <2> PICK a \in Agents : a = observer[o].agent
    BY <2>1
  <2>2. CASE UNCHANGED pane
    BY <1>1, <1>3, <2>2, SamePaneRests
  <2>3. CASE ~ UNCHANGED pane
    <3> DEFINE draft == observer[o].seen.draft
    <3>1. /\ pane[a].composer = <<draft>> /\ pane' = [pane EXCEPT ![a].composer = <<>>]
          /\ job[a].prompt = draft /\ job[a].pc \in {"keys", "accept"} => draft \in wiped'
      BY <1>5, <2>3 DEF ObserveClears
    <3>2. <<>> \in Seq(Prompts)
      OBVIOUS
    <3>3. /\ \A b \in Agents : pane'[b].life = pane[b].life
          /\ \A b \in Agents \ {a} : pane'[b] = pane[b]
      BY <3>1, <3>2, ComposerLemma DEF Typed
    <3>4. Elements(pane[a].composer) = {draft}
      BY <3>1 DEF Elements
    <3>5. \/ job'[a].prompt = job[a].prompt
          \/ job[a].pc = "idle"
      BY <1>5 DEF ObserveClears, Drain, Dispatching
    <3>6. job[a].pc \in {"keys", "accept"} /\ job[a].prompt \in Elements(pane[a].composer)
            => Reaches(job[a].prompt)
      BY <3>1, <3>4, <3>5 DEF Reached, Reaches
    <3>7. PaneRests(a)
      BY <3>3, <3>6 DEF PaneRests
    <3> QED BY <1>1, <1>3, <3>3, <3>7, SamePaneRests
  <2> QED BY <2>2, <2>3
<1> QED BY <1>4, <1>5

LEMMA CrashRests ==
  ASSUME Typed, Crash
  PROVE  /\ \A b \in Agents : JobRests(b) /\ PaneRests(b)
         /\ UNCHANGED confirmed
  BY SamePaneRests DEF Crash, Idle, world, told, JobRests

\* The pane of another Agent is none of a job's business.
LEMMA OtherPanesUntouched ==
  ASSUME Typed, NEW a \in Agents, Job(a)
  PROVE  /\ \A b \in Agents \ {a} : pane'[b] = pane[b]
         /\ \A b \in Agents : pane'[b].life = pane[b].life
<1>1. \/ UNCHANGED pane \/ TakeComposer(a) \/ Presses(a)
      \/ pane' = [pane EXCEPT ![a].composer = <<>>]
      \/ job[a].pc = "paste" /\ pane' = [pane EXCEPT ![a].composer = Append(@, job[a].prompt)]
  BY DEF Job, JobNext, JobPaste, JobPasteFails, JobVerify, JobUnverified, JobKeys, JobAccept,
         JobRetry, JobUnaccepted, JobRecord, JobBoundary, JobRemove, JobHold, JobFail,
         DrainNote, DrainFails, DrainEnds, ExternalBoundary, world
<1>2. CASE TakeComposer(a)
  BY <1>2, TakeLemma DEF Typed
<1>3. ASSUME NEW new \in Seq(Prompts), pane' = [pane EXCEPT ![a].composer = new]
      PROVE  /\ \A b \in Agents \ {a} : pane'[b] = pane[b]
             /\ \A b \in Agents : pane'[b].life = pane[b].life
  BY <1>3, ComposerLemma DEF Typed
<1>4. <<>> \in Seq(Prompts)
  OBVIOUS
<1>5. job[a].pc = "paste" => Append(pane[a].composer, job[a].prompt) \in Seq(Prompts)
  <2>1. job[a].pc = "paste" => job[a].prompt \in Prompts
    BY DEF Typed, SendersOK, Sending
  <2>2. pane[a].composer \in Seq(Prompts)
    BY DEF Typed, WorldOK, Panes
  <2> QED BY <2>1, <2>2
<1>6. CASE Presses(a)
  <2>1. pane' = [pane EXCEPT ![a].pressed = TRUE]
    BY <1>6 DEF Presses
  <2>2. \A b \in Agents \ {a} : pane'[b] = pane[b]
    BY <2>1 DEF Typed, WorldOK
  <2> QED BY <2>1, <2>2, PressesLemma DEF Typed
<1> QED BY <1>1, <1>2, <1>3, <1>4, <1>5, <1>6

LEMMA JobSubmitting ==
  ASSUME Typed, Native, Submitting, ReachedStays, NEW a \in Agents, Job(a)
  PROVE  Submitting'
<1>1. ASSUME NEW b \in Agents \ {a}  PROVE SubmittingAt(b)'
  <2>1. JobRests(b) /\ PaneRests(b)
    BY OthersUntouched, OtherPanesUntouched, SamePaneRests DEF JobRests
  <2> QED BY <2>1, SubmittingRests
<1>2. SubmittingAt(a)'
  <2>1. ASSUME NEW pc \in JobPc, Step(a, pc)  PROVE job'[a].pc = pc /\ job'[a].prompt = job[a].prompt
    BY <2>1 DEF Step, Typed, SendersOK, Jobs
  <2>2. ASSUME job'[a].pc \notin {"keys", "accept", "record"}  PROVE SubmittingAt(a)'
    BY <2>2 DEF SubmittingAt
  <2>3. CASE JobVerify(a)
    <3>1. /\ UNCHANGED pane /\ Alive(a) /\ pane[a].composer = <<job[a].prompt>>
          /\ job'[a].pc = "keys" /\ job'[a].prompt = job[a].prompt
      BY <2>1, <2>3 DEF JobVerify, world, JobPc, Sending
    <3>2. job[a].prompt \in Elements(pane[a].composer)
      BY <3>1 DEF Elements
    <3> QED BY <3>1, <3>2 DEF SubmittingAt, Alive
  <2>4. CASE JobKeys(a) \/ JobRetry(a)
    <3>1. /\ job'[a].pc = "accept" /\ job'[a].prompt = job[a].prompt /\ job[a].prompt \in Prompts
          /\ job[a].pc \in {"keys", "accept"}
      <4>1. job[a].pc \in {"keys", "accept"} /\ (Step(a, "accept") \/ (UNCHANGED job /\ job[a].pc = "accept"))
        BY <2>4 DEF JobKeys, JobRetry, actors
      <4> QED BY <2>1, <4>1 DEF Typed, SendersOK, JobPc, Sending
    <3>2. pane[a].life # "unborn"
      BY <3>1 DEF Submitting
    <3>3. pane'[a].life = pane[a].life
      BY OtherPanesUntouched
    <3>4. CASE UNCHANGED delivered /\ \A b \in Agents : pane'[b].composer = pane[b].composer
      <4>1. Alive(a) => job[a].prompt \in Elements(pane[a].composer) \/ Reached(job[a].prompt)
        BY <3>1 DEF Submitting
      <4>2. Reached(job[a].prompt) => Reaches(job'[a].prompt)
        BY <3>1 DEF ReachedStays, Reached, Reaches
      <4> QED BY <3>1, <3>2, <3>3, <3>4, <4>1, <4>2 DEF SubmittingAt, Alive, Reached, Reaches
    <3>5. CASE TakeComposer(a) /\ Alive(a)
      <4>1. \/ job[a].prompt \in Elements(pane[a].composer)
            \/ Reached(job[a].prompt)
        BY <3>1, <3>5 DEF Submitting
      <4>2. Reaches(job'[a].prompt)
        <5>1. CASE Reached(job[a].prompt)
          BY <3>1, <5>1 DEF ReachedStays, Reached, Reaches
        <5>2. CASE job[a].prompt \in Elements(pane[a].composer)
          <6>1. delivered'[job[a].prompt] # <<>>
            BY <3>1, <3>5, <5>2, TakesComposer
          <6> QED BY <3>1, <6>1 DEF Reached, Reaches
        <5> QED BY <4>1, <5>1, <5>2
      <4> QED BY <3>1, <3>2, <3>3, <4>2 DEF SubmittingAt, Reached, Reaches
    <3>6. CASE Presses(a)
      <4>1. UNCHANGED delivered /\ pane' = [pane EXCEPT ![a].pressed = TRUE]
        BY <3>6 DEF Presses
      <4> QED BY <3>4, <4>1, PressesLemma DEF Typed
    <3> QED BY <2>4, <3>4, <3>5, <3>6 DEF JobKeys, JobRetry
  <2>5. CASE JobAccept(a)
    <3>1. /\ job[a].pc = "accept" /\ Alive(a) /\ job[a].prompt \in Prompts
          /\ job[a].prompt \notin Elements(pane[a].composer)
          /\ job'[a].pc = "record" /\ job'[a].prompt = job[a].prompt
      BY <2>1, <2>5 DEF JobAccept, JobPc, Sending, Typed, SendersOK
    <3>2. Reached(job[a].prompt)
      BY <3>1 DEF Submitting
    <3>3. Reaches(job'[a].prompt)
      BY <3>1, <3>2 DEF ReachedStays, Reached, Reaches
    <3> QED BY <3>1, <3>3 DEF SubmittingAt, Reached, Reaches
  <2>6. CASE \/ JobPaste(a) \/ JobPasteFails(a) \/ JobUnverified(a) \/ JobUnaccepted(a) \/ JobHold(a)
             \/ JobRecord(a) \/ JobBoundary(a) \/ JobRemove(a) \/ JobFail(a) \/ ExternalBoundary(a)
    <3>1. \/ \E pc \in {"verify", "fail", "hold", "boundary", "remove", "next"} : Step(a, pc)
          \/ \E outcome : Finish(a, outcome)
      BY <2>6 DEF JobPaste, JobPasteFails, JobUnverified, JobUnaccepted, JobHold,
                  JobRecord, JobBoundary, JobRemove, JobFail, ExternalBoundary
    <3>2. \A outcome : Finish(a, outcome) => job'[a].pc = "idle"
      BY DEF Finish, Idle, Typed, SendersOK
    <3> QED BY <2>1, <2>2, <3>1, <3>2 DEF JobPc, Sending
  <2>7. CASE JobNext(a) \/ DrainNote(a) \/ DrainFails(a) \/ DrainEnds(a)
    <3>1. \A outcome : Finish(a, outcome) => job'[a].pc = "idle"
      BY DEF Finish, Idle, Typed, SendersOK
    <3>2. \/ \E outcome : Finish(a, outcome)
          \/ UNCHANGED job /\ job[a].pc = "drain"
          \/ job' = [job EXCEPT ![a].pc = "paste", ![a].prompt = Head(queue[a])]
      BY <2>7 DEF JobNext, DrainNote, DrainFails, DrainEnds, actors
    <3>3. job' = [job EXCEPT ![a].pc = "paste", ![a].prompt = Head(queue[a])] => job'[a].pc = "paste"
      BY DEF Typed, SendersOK, Jobs
    <3> QED BY <2>2, <3>1, <3>2, <3>3
  <2> QED BY <2>3, <2>4, <2>5, <2>6, <2>7 DEF Job
<1> QED BY <1>1, <1>2 DEF Submitting, SubmittingAt, Alive

\* Only a recorded submission is confirmed, and its prompt was taken.
LEMMA ConfirmedStays ==
  ASSUME Typed, Submitting, ReachedStays, \A p \in confirmed : Reached(p),
         UNCHANGED confirmed \/ \E a \in Agents : Job(a)
  PROVE  \A p \in confirmed' : Reaches(p)
<1>1. CASE UNCHANGED confirmed
  BY <1>1 DEF ReachedStays, Reached, Reaches, Typed, RestOK
<1>2. ASSUME NEW a \in Agents, Job(a), ~ UNCHANGED confirmed  PROVE \A p \in confirmed' : Reaches(p)
  <2>1. JobRecord(a)
    BY <1>2 DEF Job, JobNext, JobPaste, JobPasteFails, JobVerify, JobUnverified, JobKeys, JobAccept,
                JobRetry, JobUnaccepted, JobBoundary, JobRemove, JobHold, JobFail,
                DrainNote, DrainFails, DrainEnds, ExternalBoundary, told
  <2>2. confirmed' = confirmed \union {job[a].prompt} /\ job[a].pc = "record" /\ job[a].prompt \in Prompts
    BY <2>1 DEF JobRecord, Typed, SendersOK, Sending
  <2>3. Reached(job[a].prompt)
    BY <2>2 DEF Submitting
  <2>4. \A p \in confirmed' : p \in Prompts /\ Reached(p)
    BY <2>2, <2>3 DEF Typed, RestOK
  <2> QED BY <2>4 DEF ReachedStays, Reached, Reaches
<1> QED BY <1>1, <1>2

LEMMA AcknowledgedStep ==
  ASSUME Inductive, Next, Native, Submitting, ConfirmedWasTaken
  PROVE  Submitting' /\ ConfirmedWasTaken'
<1>1. Typed /\ ReachedStays /\ \A p \in confirmed : Reached(p)
  <2>1. Typed
    BY InductiveParts
  <2>2. \A p \in confirmed : Reached(p)
    BY DEF ConfirmedWasTaken, Reached, Reaches
  <2> QED BY <2>1, <2>2, StaysReached
<1>2. ASSUME \A b \in Agents : JobRests(b) /\ PaneRests(b)  PROVE Submitting'
  <2>1. \A b \in Agents : SubmittingAt(b)'
    BY <1>1, <1>2, SubmittingRests
  <2> QED BY <2>1 DEF Submitting, SubmittingAt
<1>3. ASSUME UNCHANGED confirmed \/ \E a \in Agents : Job(a)  PROVE ConfirmedWasTaken'
  <2>1. \A p \in confirmed' : Reaches(p)
    BY <1>1, <1>3, ConfirmedStays
  <2> QED BY <2>1 DEF ConfirmedWasTaken, Reached, Reaches
<1>4. ASSUME NEW p \in Prompts, Submission(p)  PROVE Submitting' /\ ConfirmedWasTaken'
  BY <1>1, <1>2, <1>3, <1>4, SubmissionRests
<1>5. ASSUME NEW a \in Agents, Job(a)  PROVE Submitting' /\ ConfirmedWasTaken'
  BY <1>1, <1>3, <1>5, JobSubmitting
<1>6. ASSUME NEW a \in Agents,
             Restore(a) \/ RestoreFails(a) \/ Retire(a) \/ Operator(a) \/ RestartLocks(a) \/ Environment(a)
      PROVE  Submitting' /\ ConfirmedWasTaken'
  BY <1>1, <1>2, <1>3, <1>6, AgentRests
<1>7. ASSUME NEW o \in Observers, Observation(o) \/ \E a \in Agents : Observe(o, a)
      PROVE  Submitting' /\ ConfirmedWasTaken'
  BY <1>1, <1>2, <1>3, <1>7, ObservationRests
<1>8. CASE IdleRestart
  BY <1>1, <1>2, <1>3, <1>8, RestartRests
<1>9. CASE Crash
  BY <1>1, <1>2, <1>3, <1>9, CrashRests
<1> QED BY <1>4, <1>5, <1>6, <1>7, <1>8, <1>9 DEF Next

LEMMA AcknowledgedAlways == Spec => []Acknowledged
<1>1. Init => Acknowledged
  <2> SUFFICES ASSUME Init  PROVE Submitting /\ ConfirmedWasTaken
    BY DEF Acknowledged
  <2>1. Submitting
    BY DEF Init, Submitting, Idle
  <2>2. ConfirmedWasTaken
    BY DEF Init, ConfirmedWasTaken
  <2> QED BY <2>1, <2>2
<1>2. Inductive /\ Acknowledged /\ [Next]_vars => Acknowledged'
  <2> SUFFICES ASSUME Inductive, Acknowledged, [Next]_vars, Native'
               PROVE  Submitting' /\ ConfirmedWasTaken'
    BY DEF Acknowledged
  <2>1. CASE Next
    <3>1. Native
      BY <2>1 DEF Next, Native
    <3> QED BY <2>1, <3>1, AcknowledgedStep DEF Acknowledged
  <2>2. CASE UNCHANGED vars
    <3>1. UNCHANGED <<adapter, actors, world, told>>
      BY <2>2 DEF vars, moving
    <3>2. Submitting /\ ConfirmedWasTaken
      BY <3>1 DEF Acknowledged, Native
    <3> QED BY <3>1, <3>2
          DEF Submitting, Reached, Reaches, Alive, ConfirmedWasTaken, Native, actors, world, told
  <2> QED BY <2>1, <2>2
<1> QED BY InvariantHolds, <1>1, <1>2, PTL DEF Spec

(* send() reports a prompt as submitted only when the terminal took it, or   *)
(* when an observation cleared its draft while it was being submitted: for  *)
(* any number of Agents, prompts and observations in progress, through late *)
(* terminals, deaths, failures, idle restarts and server starts.            *)
THEOREM ConfirmedTaken == Spec => []ConfirmedWasTaken
<1>1. Acknowledged => ConfirmedWasTaken
  BY DEF Acknowledged, ConfirmedWasTaken
<1> QED BY AcknowledgedAlways, <1>1, PTL
=============================================================================
