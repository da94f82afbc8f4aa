------------------------ MODULE PromptDeliveryProofs ------------------------
(***************************************************************************)
(* Proofs about PromptDelivery for any number of Agents, prompts,          *)
(* observations, crashes and failures.                                     *)
(*                                                                         *)
(* The inductive invariant of PromptDelivery is kept action by action.     *)
(* What a variable may be (Typed) is proved first. Most actions are Quiet: *)
(* they move no prompt, and QuietKeeps keeps every other part for all of   *)
(* them at once. The actions that enqueue, confirm, note, drop or hand     *)
(* over a prompt are treated one by one, and each is a step of             *)
(* PromptCustody.                                                          *)
(***************************************************************************)
EXTENDS PromptDelivery, TLAPS
-----------------------------------------------------------------------------
(* Why Accounted, KeepsCustody and OwnAgentOnly hold: the inductive          *)
(* invariant, in named parts.                                               *)

(* Whoever has begun names its Agent, a job that sends names its prompt, and *)
(* the submission that waits for a job has an Agent.                        *)
Named ==
  /\ \A p \in Prompts : submits[p].pc = "unsent" \/ submits[p].agent \in Agents
  /\ \A o \in Observers : observer[o].pc = "idle" \/ observer[o].agent \in Agents
  /\ \A a \in Agents : job[a].pc \in Sending => job[a].prompt \in Prompts
  /\ \A a \in Agents : job[a].owner \in Prompts => submits[job[a].owner].agent \in Agents
  /\ restart.pc # "none" => restart.from \in Agents

\* A restart hands over from a pane that is gone to another.
Departed ==
  /\ restart.pc \in {"launch", "handOver"} => pane[restart.from].life = "dead"
  /\ restart.pc = "handOver" => restart.to \in Agents /\ restart.to # restart.from

\* Prompts that were not put into a queue yet, or never will be.
Outside == {"unsent"} \union (InFlight \ {"dispatch"})

\* A prompt is somewhere from the moment it is enqueued.
Kept ==
  /\ \A p \in Prompts : submits[p].pc \in Outside => Places(p) = {}
  /\ \A p \in Prompts : submits[p].pc \in {"dispatch", "accepted"} => Places(p) # {}
  /\ \A a \in Agents : job[a].pc \in Sending => Places(job[a].prompt) # {}
  /\ \A a \in Agents : job[a].owner \in Prompts => Places(job[a].owner) # {}

\* What leaves a queue as submitted was confirmed first.
ConfirmedFirst ==
  /\ \A a \in Agents : job[a].pc \in {"boundary", "remove"} => job[a].prompt \in confirmed
  /\ \A a \in Agents : boundary[a] \in Prompts => boundary[a] \in confirmed

\* Queues, jobs and composers hold prompts of their own Agent.
Owned ==
  /\ \A a \in Agents : \A p \in Queued(a) : submits[p].agent = a
  /\ \A a \in Agents : job[a].pc \in Sending /\ pane[a].life # "dead"
                        => submits[job[a].prompt].agent = a
  /\ \A a \in Agents : \A p \in Elements(pane[a].composer) :
       pane[a].life # "dead" /\ submits[p].agent = a

Inductive == TypeOK /\ Named /\ Departed /\ QueuedOnce /\ Kept /\ ConfirmedFirst /\ Owned
-----------------------------------------------------------------------------
(* Sequences that let go of an element, get one or are joined; the queues   *)

Injective(s) == \A i, j \in DOMAIN s : s[i] = s[j] => i = j

LEMMA WithoutLemma ==
  ASSUME NEW S, NEW s \in Seq(S), NEW p, Injective(s)
  PROVE  /\ Without(s, p) \in Seq(S)
         /\ Elements(Without(s, p)) = Elements(s) \ {p}
         /\ Injective(Without(s, p))
<1>1. CASE p \notin Elements(s)
  BY <1>1 DEF Without, Elements
<1>2. CASE p \in Elements(s)
  <2>1. PICK k \in DOMAIN s : s[k] = p
    BY <1>2 DEF Elements
  <2>2. /\ DOMAIN s = 1 .. Len(s)
        /\ Len(s) \in Nat
        /\ k \in 1 .. Len(s)
    BY <2>1
  <2>3. \A j \in 1 .. k - 1 : s[j] # p
    BY <2>1, <2>2 DEF Injective
  <2>4. Place(s, p) = k
    BY <2>1, <2>2, <2>3 DEF Place, Injective
  <2> DEFINE w == Without(s, p)
  <2>5. w = [i \in 1 .. Len(s) - 1 |-> IF i < k THEN s[i] ELSE s[i + 1]]
    BY <1>2, <2>4 DEF Without
  <2>6. w \in Seq(S) /\ Len(w) = Len(s) - 1 /\ DOMAIN w = 1 .. Len(s) - 1
    BY <2>2, <2>5
  <2>7. \A i \in 1 .. Len(s) - 1 : w[i] = IF i < k THEN s[i] ELSE s[i + 1]
    BY <2>5
  <2> HIDE DEF w
  <2>8. Elements(w) \subseteq Elements(s) \ {p}
    BY <2>1, <2>2, <2>6, <2>7, SMTT(30) DEF Elements, Injective
  <2>9. ASSUME NEW i \in DOMAIN s, s[i] # p  PROVE s[i] \in Elements(w)
    <3>1. CASE i < k
      BY <2>2, <2>6, <2>7, <3>1 DEF Elements
    <3>2. CASE i > k
      <4>1. i - 1 \in 1 .. Len(s) - 1 /\ ~(i - 1 < k) /\ (i - 1) + 1 = i
        BY <2>2, <3>2
      <4>2. w[i - 1] = s[i]
        BY <2>7, <4>1
      <4> QED BY <2>6, <4>1, <4>2 DEF Elements
    <3> QED BY <2>1, <2>2, <2>9, <3>1, <3>2
  <2> DEFINE at(i) == IF i < k THEN i ELSE i + 1
  <2>10. \A i \in DOMAIN w : at(i) \in DOMAIN s /\ w[i] = s[at(i)]
    BY <2>2, <2>6, <2>7
  <2>11. \A i, j \in DOMAIN w : at(i) = at(j) => i = j
    BY <2>2, <2>6
  <2>12. Injective(w)
    BY <2>10, <2>11 DEF Injective
  <2> QED BY <2>6, <2>8, <2>9, <2>12 DEF Elements, w
<1> QED BY <1>1, <1>2

LEMMA AppendLemma ==
  ASSUME NEW S, NEW s \in Seq(S), NEW p \in S, Injective(s), p \notin Elements(s)
  PROVE  /\ Append(s, p) \in Seq(S)
         /\ Elements(Append(s, p)) = Elements(s) \union {p}
         /\ Injective(Append(s, p))
<1>1. /\ DOMAIN s = 1 .. Len(s)
      /\ Len(s) \in Nat
      /\ Append(s, p) \in Seq(S)
      /\ DOMAIN Append(s, p) = 1 .. Len(s) + 1
      /\ \A i \in 1 .. Len(s) : Append(s, p)[i] = s[i]
      /\ Append(s, p)[Len(s) + 1] = p
  OBVIOUS
<1>2. Elements(Append(s, p)) = Elements(s) \union {p}
  BY <1>1 DEF Elements
<1>3. Injective(Append(s, p))
  BY <1>1 DEF Elements, Injective
<1> QED BY <1>1, <1>2, <1>3

LEMMA ConcatLemma ==
  ASSUME NEW S, NEW s \in Seq(S), NEW t \in Seq(S), Injective(s), Injective(t),
         Elements(s) \intersect Elements(t) = {}
  PROVE  /\ s \o t \in Seq(S)
         /\ Elements(s \o t) = Elements(s) \union Elements(t)
         /\ Injective(s \o t)
<1>1. /\ DOMAIN s = 1 .. Len(s) /\ Len(s) \in Nat
      /\ DOMAIN t = 1 .. Len(t) /\ Len(t) \in Nat
      /\ s \o t \in Seq(S)
      /\ DOMAIN (s \o t) = 1 .. Len(s) + Len(t)
      /\ \A i \in 1 .. Len(s) + Len(t) :
           (s \o t)[i] = IF i <= Len(s) THEN s[i] ELSE t[i - Len(s)]
  OBVIOUS
<1>2. Elements(s \o t) \subseteq Elements(s) \union Elements(t)
  BY <1>1 DEF Elements
<1>3. Elements(s) \subseteq Elements(s \o t)
  BY <1>1 DEF Elements
<1>4. ASSUME NEW i \in DOMAIN t  PROVE t[i] \in Elements(s \o t)
  <2>1. Len(s) + i \in 1 .. Len(s) + Len(t) /\ ~(Len(s) + i <= Len(s)) /\ (Len(s) + i) - Len(s) = i
    BY <1>1
  <2> QED BY <1>1, <2>1 DEF Elements
<1>5. Injective(s \o t)
  <2> SUFFICES ASSUME NEW i \in DOMAIN (s \o t), NEW j \in DOMAIN (s \o t),
                      (s \o t)[i] = (s \o t)[j]
               PROVE  i = j
    BY DEF Injective
  <2>1. CASE i <= Len(s) /\ j <= Len(s)
    BY <1>1, <2>1 DEF Injective
  <2>2. CASE i > Len(s) /\ j > Len(s)
    <3>1. i - Len(s) \in DOMAIN t /\ j - Len(s) \in DOMAIN t
      BY <1>1, <2>2
    <3> QED BY <1>1, <2>2, <3>1 DEF Injective
  <2>3. CASE i <= Len(s) /\ j > Len(s)
    <3>1. i \in DOMAIN s /\ j - Len(s) \in DOMAIN t /\ s[i] = t[j - Len(s)]
      BY <1>1, <2>3
    <3> QED BY <3>1 DEF Elements
  <2>4. CASE i > Len(s) /\ j <= Len(s)
    <3>1. j \in DOMAIN s /\ i - Len(s) \in DOMAIN t /\ s[j] = t[i - Len(s)]
      BY <1>1, <2>4
    <3> QED BY <3>1 DEF Elements
  <2> QED BY <1>1, <2>1, <2>2, <2>3, <2>4
<1> QED BY <1>1, <1>2, <1>3, <1>4, <1>5 DEF Elements

\* A queue that lets go of a prompt, and all queues afterwards.
LEMMA DropLemma ==
  ASSUME queue \in [Agents -> Seq(Prompts)], QueuedOnce, NEW a \in Agents, NEW p, queue' = Drop(a, p)
  PROVE  /\ queue' \in [Agents -> Seq(Prompts)]
         /\ Queued(a)' = Queued(a) \ {p}
         /\ \A b \in Agents \ {a} : queue'[b] = queue[b]
         /\ QueuedOnce'
<1>1. Injective(queue[a])
  BY DEF QueuedOnce, Injective
<1>2. /\ Without(queue[a], p) \in Seq(Prompts)
      /\ Elements(Without(queue[a], p)) = Queued(a) \ {p}
      /\ Injective(Without(queue[a], p))
  BY <1>1, WithoutLemma DEF Queued
<1>3. /\ queue' \in [Agents -> Seq(Prompts)]
      /\ queue'[a] = Without(queue[a], p)
      /\ \A b \in Agents \ {a} : queue'[b] = queue[b]
  BY <1>2 DEF Drop
<1>4. Queued(a)' = Queued(a) \ {p} /\ \A b \in Agents \ {a} : Queued(b)' = Queued(b)
  BY <1>2, <1>3 DEF Queued
<1>5. QueuedOnce'
  <2>1. \A b \in Agents : \A i, j \in DOMAIN queue'[b] : queue'[b][i] = queue'[b][j] => i = j
    BY <1>2, <1>3, SMTT(30) DEF QueuedOnce, Injective
  <2>2. \A b, c \in Agents : b # c => Queued(b)' \intersect Queued(c)' = {}
    BY <1>4 DEF QueuedOnce
  <2> QED BY <2>1, <2>2 DEF QueuedOnce
<1> QED BY <1>3, <1>4, <1>5
-----------------------------------------------------------------------------
(* What TypeOK and Named say, by the writer of the variables, and what the  *)
(* operators that steps are built from do to it                             *)

StoreOK ==
  /\ queue \in [Agents -> Seq(Prompts)]
  /\ boundary \in [Agents -> Prompts \union {None, "external"}]
  /\ notes \subseteq Prompts
  /\ unanswered \in [Agents -> SUBSET Prompts]
MemoryOK ==
  /\ phase \in [Agents -> Phases]
  /\ reset \in [Agents -> {"none", "pending", "ready", "expired"}]
  /\ restored \subseteq Agents
  /\ requests \in [Prompts -> {"none"} \union Active \union Terminal]
SendersOK ==
  /\ job \in [Agents -> Jobs]
  /\ submits \in [Prompts -> Submits]
  /\ \A a \in Agents : job[a].pc \in Sending => job[a].prompt \in Prompts
  /\ \A p \in Prompts : submits[p].pc = "unsent" \/ submits[p].agent \in Agents
  /\ \A a \in Agents : job[a].owner \in Prompts => submits[job[a].owner].agent \in Agents
ObserversOK ==
  /\ observer \in [Observers -> Observations]
  /\ \A o \in Observers : observer[o].pc = "idle" \/ observer[o].agent \in Agents
RestartOK ==
  /\ restart \in Restarts
  /\ restart.pc # "none" => restart.from \in Agents
WorldOK ==
  /\ pane \in [Agents -> Panes]
  /\ delivered \in [Prompts -> Seq(Agents)]
  /\ ended \in [Prompts -> {"no", "completed", "interrupted"}]
RestOK ==
  /\ cancelling \subseteq Agents
  /\ confirmed \subseteq Prompts /\ removed \subseteq Prompts /\ wiped \subseteq Prompts
  /\ crashes \in 0 .. MaxCrashes /\ failures \in 0 .. MaxFailures
ScenarioOK == [adapter |-> adapter, happens |-> happens] \in Scenarios

Typed == StoreOK /\ MemoryOK /\ SendersOK /\ ObserversOK /\ RestartOK /\ WorldOK /\ RestOK
Stable == \A a \in Agents : pane[a].life = "dead" => pane'[a].life = "dead"

LEMMA TypedParts == ScenarioOK /\ Typed <=> TypeOK /\ Named
  BY DEF Typed, ScenarioOK, StoreOK, MemoryOK, SendersOK, ObserversOK, RestartOK, WorldOK,
         RestOK, TypeOK, Named

LEMMA Unmoved ==
  /\ StoreOK /\ UNCHANGED store => StoreOK'
  /\ MemoryOK /\ UNCHANGED memory => MemoryOK'
  /\ SendersOK /\ UNCHANGED <<job, submits>> => SendersOK'
  /\ ObserversOK /\ UNCHANGED observer => ObserversOK'
  /\ RestartOK /\ UNCHANGED restart => RestartOK'
  /\ WorldOK /\ UNCHANGED world => WorldOK'
  /\ RestOK /\ UNCHANGED <<cancelling, told, bounds>> => RestOK'
  /\ UNCHANGED world => Stable
  BY DEF StoreOK, MemoryOK, SendersOK, ObserversOK, RestartOK, WorldOK, RestOK, Stable,
         store, memory, world, told, bounds

LEMMA FailureLemma == ASSUME NEW kind, RestOK, Failure(kind), UNCHANGED <<cancelling, told, crashes>> PROVE RestOK'
  BY PromptDeliveryAssumption DEF RestOK, Failure, told

LEMMA PhaseLemma ==
  /\ NoPhase \in Phases
  /\ \A state \in PhaseState : \A p \in Prompts \union {None} : Phase(state, p) \in Phases
  /\ \A new \in Phases : \A state \in PhaseState : [new EXCEPT !.state = state] \in Phases
  /\ \A new \in Phases : \A draft \in Prompts \union {None} : [new EXCEPT !.draft = draft] \in Phases
  /\ \A new \in Phases : \A state \in PhaseState : \A p \in Prompts \union {None} :
       [new EXCEPT !.state = state, !.prompt = p] \in Phases
  /\ \A new \in Phases : new.state \in PhaseState /\ new.prompt \in Prompts \union {None} /\ new.draft \in Prompts \union {None}
  BY DEF Phases, Phase, NoPhase, PhaseState

JobPc == {"idle", "next", "drain", "external"} \union Sending

(* Nothing is in an empty sequence                                          *)
LEMMA EmptyLemma == Elements(<< >>) = {}
<1>1. DOMAIN << >> = {}
  OBVIOUS
<1> QED  BY <1>1 DEF Elements

LEMMA StartJobLemma ==
  ASSUME SendersOK, NEW a \in Agents, NEW pc \in {"next", "drain", "external"},
         NEW owner \in Prompts \union {None}, NEW then \in {"nothing", "clearPhase", "retire"},
         StartJob(a, pc, owner, then)
  PROVE  /\ job' \in [Agents -> Jobs]
         /\ job'[a] = [pc |-> pc, prompt |-> None, owner |-> owner, then |-> then]
         /\ job'[a].pc \notin Sending
         /\ \A b \in Agents \ {a} : job'[b] = job[b]
  BY SMT DEF StartJob, SendersOK, Jobs, Sending

LEMMA OwnJobLemma ==
  ASSUME SendersOK, NEW a \in Agents, NEW pc \in {"next", "drain", "external"},
         NEW then \in {"nothing", "clearPhase", "retire"},
         StartJob(a, pc, None, then) \/ UNCHANGED job, UNCHANGED submits
  PROVE  SendersOK'
<1>1. CASE UNCHANGED job
  BY <1>1, Unmoved
<1>2. CASE StartJob(a, pc, None, then)
  <2>1. /\ job' \in [Agents -> Jobs]
        /\ job'[a] = [pc |-> pc, prompt |-> None, owner |-> None, then |-> then]
        /\ job'[a].pc \notin Sending
        /\ \A b \in Agents \ {a} : job'[b] = job[b]
    BY <1>2, StartJobLemma, ZenonT(60)
  <2>2. job'[a].owner = None
    BY <2>1
  <2> QED BY <2>1, <2>2, PromptDeliveryAssumption DEF SendersOK
<1> QED BY <1>1, <1>2

LEMMA StepLemma ==
  ASSUME SendersOK, NEW a \in Agents, NEW pc \in JobPc, Step(a, pc), UNCHANGED submits,
         pc \in Sending => job[a].prompt \in Prompts
  PROVE  /\ SendersOK'
         /\ job'[a].pc = pc /\ job'[a].prompt = job[a].prompt /\ job'[a].owner = job[a].owner
         /\ \A b \in Agents \ {a} : job'[b] = job[b]
<1>1. job[a] \in Jobs
  BY DEF SendersOK
<1>2. [job[a] EXCEPT !.pc = pc] \in Jobs
  BY <1>1 DEF Jobs, JobPc
<1>3. job' \in [Agents -> Jobs] /\ job'[a] = [job[a] EXCEPT !.pc = pc]
      /\ \A b \in Agents \ {a} : job'[b] = job[b]
  BY <1>2 DEF Step, SendersOK
<1>4. job'[a].pc = pc /\ job'[a].prompt = job[a].prompt /\ job'[a].owner = job[a].owner
  BY <1>1, <1>3 DEF Jobs
<1> QED BY <1>3, <1>4 DEF SendersOK

LEMMA FinishLemma ==
  ASSUME SendersOK, NEW a \in Agents, NEW outcome \in {"accepted", "refused"}, Finish(a, outcome)
  PROVE  /\ SendersOK'
         /\ job'[a] = Idle
         /\ \A b \in Agents \ {a} : job'[b] = job[b]
         /\ \A p \in Prompts : submits'[p].agent = submits[p].agent
         /\ \A p \in Prompts \ {job[a].owner} : submits'[p] = submits[p]
         /\ job[a].owner \in Prompts => submits'[job[a].owner].pc = outcome
<1>1. Idle \in Jobs /\ Idle.pc \notin Sending /\ Idle.owner \notin Prompts
  BY PromptDeliveryAssumption DEF Jobs, Idle, Sending
<1>2. job' \in [Agents -> Jobs] /\ job'[a] = Idle /\ \A b \in Agents \ {a} : job'[b] = job[b]
  BY <1>1 DEF Finish, SendersOK
<1>3. \A p \in Prompts : [submits[p] EXCEPT !.pc = outcome] \in Submits
  BY DEF SendersOK, Submits
<1>4. submits' \in [Prompts -> Submits]
  BY <1>3, SMT DEF Finish, SendersOK
<1>5. /\ \A p \in Prompts : submits'[p].agent = submits[p].agent
      /\ \A p \in Prompts \ {job[a].owner} : submits'[p] = submits[p]
      /\ job[a].owner \in Prompts => submits'[job[a].owner].pc = outcome
  BY SMT DEF Finish, SendersOK, Submits
<1> QED BY <1>1, <1>2, <1>4, <1>5 DEF SendersOK

\* Only submissions move on, and none loses its Agent.
LEMMA SubmitsLemma ==
  ASSUME SendersOK, UNCHANGED job, submits' \in [Prompts -> Submits],
         \A p \in Prompts : submits'[p] = submits[p] \/ submits'[p].agent \in Agents
  PROVE  SendersOK'
  BY DEF SendersOK

SubmitPc == {"unsent", "accepted", "refused"} \union InFlight

LEMMA SubmitPcLemma ==
  ASSUME SendersOK, NEW p \in Prompts, NEW pc \in SubmitPc, submits' = [submits EXCEPT ![p].pc = pc]
  PROVE  /\ submits' \in [Prompts -> Submits]
         /\ submits'[p].pc = pc /\ submits'[p].agent = submits[p].agent
         /\ \A q \in Prompts \ {p} : submits'[q] = submits[q]
<1>1. submits[p] \in Submits
  BY DEF SendersOK
<1>2. [submits[p] EXCEPT !.pc = pc] \in Submits
  BY <1>1 DEF Submits, SubmitPc
<1>3. submits' \in [Prompts -> Submits] /\ submits'[p] = [submits[p] EXCEPT !.pc = pc]
      /\ \A q \in Prompts \ {p} : submits'[q] = submits[q]
  BY <1>2 DEF SendersOK
<1>4. submits'[p].pc = pc /\ submits'[p].agent = submits[p].agent
  BY <1>1, <1>3 DEF Submits
<1> QED BY <1>3, <1>4

LEMMA RestLemma ==
  ASSUME ObserversOK, NEW o \in Observers, Rest(o)
  PROVE  ObserversOK'
  BY SMT DEF Rest, ObserversOK, Observations, NotObserving, NoPhase, Phase, Phases, PhaseState

LEMMA WatchLemma ==
  ASSUME ObserversOK, NEW o \in Observers, observer[o].pc # "idle", Watch(o, "hold")
  PROVE  ObserversOK'
  BY SMT DEF Watch, ObserversOK, Observations

\* The composer of a pane changes, and nothing else of it.
LEMMA ComposerLemma ==
  ASSUME WorldOK, NEW a \in Agents, NEW new \in Seq(Prompts),
         pane' = [pane EXCEPT ![a].composer = new]
  PROVE  /\ pane' \in [Agents -> Panes]
         /\ pane'[a].composer = new
         /\ \A b \in Agents \ {a} : pane'[b] = pane[b]
         /\ \A b \in Agents : pane'[b].life = pane[b].life
<1>1. [pane[a] EXCEPT !.composer = new] \in Panes
  BY DEF WorldOK, Panes
<1>2. pane'[a] = [pane[a] EXCEPT !.composer = new] /\ \A b \in Agents \ {a} : pane'[b] = pane[b]
  BY DEF WorldOK
<1>3. pane' \in [Agents -> Panes]
  BY <1>1 DEF WorldOK
<1>4. pane'[a].composer = new /\ pane'[a].life = pane[a].life
  BY <1>2, pane[a] \in Panes DEF WorldOK, Panes
<1> QED BY <1>2, <1>3, <1>4
-----------------------------------------------------------------------------
(* Every action keeps the types: submissions and the reading of the         *)
(* boundary                                                                 *)

LEMMA SubmitTyped ==
  ASSUME Typed, NEW p \in Prompts, NEW a \in Agents, Submit(p, a)
  PROVE  Typed' /\ Stable
<1>1. SendersOK'
  <2>1. submits' \in [Prompts -> Submits] /\ submits'[p].agent = a
        /\ \A q \in Prompts \ {p} : submits'[q] = submits[q]
    <3> DEFINE new == IF Locked(a) THEN [Unsent EXCEPT !.pc = "handoff", !.agent = a]
                                   ELSE [pc |-> "target", agent |-> a, busy |-> Busy(a)]
    <3>1. new \in Submits /\ new.agent = a
      <4>1. CASE Locked(a)
        BY <4>1 DEF Submits, InFlight, Unsent
      <4>2. CASE ~ Locked(a)
        BY <4>2 DEF Submits, InFlight, Busy
      <4> QED BY <4>1, <4>2
    <3>2. submits' = [submits EXCEPT ![p] = new]
      BY DEF Submit
    <3> QED BY <3>1, <3>2 DEF Typed, SendersOK
  <2> QED BY <2>1, SubmitsLemma DEF Typed, Submit
<1> QED BY <1>1, Unmoved DEF Typed, Submit, store, memory, actors, world, told, bounds

LEMMA SubmitRevivesTyped ==
  ASSUME Typed, NEW p \in Prompts, SubmitRevives(p)
  PROVE  Typed' /\ Stable
<1>1. MemoryOK'
  BY DEF Typed, MemoryOK, SubmitRevives
<1> QED BY <1>1, Unmoved DEF Typed, SubmitRevives, store, actors, world, told, bounds

LEMMA SubmitDecideTyped ==
  ASSUME Typed, NEW p \in Prompts, SubmitDecide(p)
  PROVE  Typed' /\ Stable
<1>1. SendersOK'
  <2>1. submits' \in [Prompts -> Submits] /\ submits'[p].agent = submits[p].agent
        /\ \A q \in Prompts \ {p} : submits'[q] = submits[q]
    BY SMT DEF Typed, SendersOK, SubmitDecide, Submits, InFlight
  <2>2. submits[p].agent \in Agents
    BY DEF Typed, SendersOK, SubmitDecide
  <2> QED BY <2>1, <2>2, SubmitsLemma DEF Typed, SubmitDecide
<1> QED BY <1>1, Unmoved DEF Typed, SubmitDecide, store, memory, actors, world, told, bounds

LEMMA SubmitEnqueueTyped ==
  ASSUME Typed, NEW p \in Prompts, SubmitEnqueue(p)
  PROVE  Typed' /\ Stable
<1> DEFINE a == submits[p].agent
<1>1. a \in Agents
  BY DEF Typed, SendersOK, SubmitEnqueue
<1>2. StoreOK'
  BY <1>1 DEF Typed, StoreOK, SubmitEnqueue
<1>3. MemoryOK'
  <2>1. phase' \in [Agents -> Phases]
    BY <1>1, PhaseLemma DEF Typed, MemoryOK, SubmitEnqueue, PhaseState
  <2>2. requests' \in [Prompts -> {"none"} \union Active \union Terminal]
    BY DEF Typed, MemoryOK, SubmitEnqueue, Active
  <2> QED BY <2>1, <2>2 DEF Typed, MemoryOK, SubmitEnqueue
<1>4. SendersOK'
  <2>1. PICK pc \in {"dispatch", "accepted"} : submits' = [submits EXCEPT ![p].pc = pc]
    BY DEF SubmitEnqueue
  <2>2. submits' \in [Prompts -> Submits] /\ submits'[p].agent = a
        /\ \A q \in Prompts \ {p} : submits'[q] = submits[q]
    BY <2>1, SubmitPcLemma DEF Typed, SubmitPc, InFlight
  <2>3. CASE UNCHANGED job
    BY <1>1, <2>2, <2>3, SubmitsLemma DEF Typed
  <2>4. CASE StartJob(a, "next", p, "nothing")
    <3>0. /\ job' \in [Agents -> Jobs]
          /\ job'[a] = [pc |-> "next", prompt |-> None, owner |-> p, then |-> "nothing"]
          /\ job'[a].pc \notin Sending
          /\ \A b \in Agents \ {a} : job'[b] = job[b]
      BY <1>1, <2>4, StartJobLemma DEF Typed
    <3>1. /\ job' \in [Agents -> Jobs]
          /\ job'[a].owner = p /\ job'[a].pc \notin Sending
          /\ \A b \in Agents \ {a} : job'[b] = job[b]
      BY <3>0
    <3> QED BY <1>1, <2>2, <3>1 DEF Typed, SendersOK
  <2> QED BY <2>3, <2>4 DEF SubmitEnqueue
<1> QED BY <1>2, <1>3, <1>4, Unmoved DEF Typed, SubmitEnqueue, world, told, bounds

LEMMA SubmitRefusedTyped ==
  ASSUME Typed, NEW p \in Prompts, SubmitRefused(p)
  PROVE  Typed' /\ Stable
<1>1. SendersOK'
  <2>1. submits' \in [Prompts -> Submits] /\ submits'[p].agent = submits[p].agent
        /\ \A q \in Prompts \ {p} : submits'[q] = submits[q]
    BY SubmitPcLemma DEF Typed, SubmitRefused, SubmitPc
  <2>2. submits[p].agent \in Agents
    BY DEF Typed, SendersOK, SubmitRefused
  <2> QED BY <2>1, <2>2, SubmitsLemma DEF Typed, SubmitRefused
<1>2. RestOK'
  BY FailureLemma DEF Typed, RestOK, SubmitRefused, told
<1> QED BY <1>1, <1>2, Unmoved DEF Typed, SubmitRefused, store, memory, world

LEMMA RestoreTyped ==
  ASSUME Typed, NEW a \in Agents, QueuedOnce, Restore(a)
  PROVE  Typed' /\ Stable
<1>1. StoreOK'
  BY DropLemma DEF Typed, StoreOK, Restore
<1>2. MemoryOK'
  BY DEF Typed, MemoryOK, Restore
<1> QED BY <1>1, <1>2, Unmoved DEF Typed, Restore, actors, world, told, bounds

LEMMA RestoreFailsTyped ==
  ASSUME Typed, NEW a \in Agents, RestoreFails(a)
  PROVE  Typed' /\ Stable
<1>1. SendersOK'
  <2>1. \A p \in Prompts : [submits[p] EXCEPT !.pc = "refused"] \in Submits
    BY DEF Typed, SendersOK, Submits
  <2>2. submits' \in [Prompts -> Submits]
    BY <2>1, SMT DEF Typed, SendersOK, RestoreFails
  <2>3. \A p \in Prompts : submits'[p] = submits[p] \/ submits'[p].agent \in Agents
    BY SMT DEF Typed, SendersOK, RestoreFails, Submits
  <2> QED BY <2>2, <2>3, SubmitsLemma DEF Typed, RestoreFails
<1>2. ObserversOK'
  BY DEF Typed, ObserversOK, RestoreFails, NotObserving, NoPhase, Phase, Phases, PhaseState, Observations
<1>3. RestOK'
  BY FailureLemma DEF Typed, RestoreFails, told
<1> QED BY <1>1, <1>2, <1>3, Unmoved DEF Typed, RestoreFails, store, memory, world
-----------------------------------------------------------------------------
(* Every action keeps the types: the dispatch job                           *)

LEMMA JobNextTyped ==
  ASSUME Typed, NEW a \in Agents, JobNext(a)
  PROVE  Typed' /\ Stable
<1>1. SendersOK'
  <2>1. CASE queue[a] = <<>>
    BY <2>1, FinishLemma DEF Typed, JobNext
  <2>2. CASE queue[a] # <<>>
    <3>1. Head(queue[a]) \in Prompts
      BY <2>2 DEF Typed, StoreOK
    <3>2. [job[a] EXCEPT !.pc = "paste", !.prompt = Head(queue[a])] \in Jobs
      <4>1. \A j \in Jobs, p \in Prompts : [j EXCEPT !.pc = "paste", !.prompt = p] \in Jobs
        BY DEF Jobs, Sending
      <4>2. job[a] \in Jobs
        BY DEF Typed, SendersOK
      <4> QED BY <3>1, <4>1, <4>2
    <3>3. /\ job' \in [Agents -> Jobs]
          /\ job'[a] = [job[a] EXCEPT !.pc = "paste", !.prompt = Head(queue[a])]
          /\ \A b \in Agents \ {a} : job'[b] = job[b]
      BY <2>2, <3>2 DEF Typed, SendersOK, JobNext
    <3>4. job'[a].prompt = Head(queue[a]) /\ job'[a].owner = job[a].owner
      BY <3>3, job[a] \in Jobs DEF Typed, SendersOK, Jobs
    <3> QED BY <2>2, <3>1, <3>3, <3>4 DEF Typed, SendersOK, JobNext
  <2> QED BY <2>1, <2>2
<1> QED BY <1>1, Unmoved DEF Typed, JobNext, store, memory, world, told, bounds

LEMMA JobPasteTyped ==
  ASSUME Typed, NEW a \in Agents, JobPaste(a)
  PROVE  Typed' /\ Stable
<1>1. job[a].prompt \in Prompts
  BY DEF Typed, SendersOK, JobPaste, Sending
<1>2. SendersOK'
  BY <1>1, StepLemma DEF Typed, JobPaste, JobPc, Sending
<1>3. MemoryOK'
  <2>1. Phase("awaiting-start", job[a].prompt) \in Phases
    BY <1>1, PhaseLemma DEF PhaseState
  <2> QED BY <2>1 DEF Typed, MemoryOK, JobPaste, SetPhase
<1>4. /\ pane' \in [Agents -> Panes]
      /\ \A b \in Agents : pane'[b].life = pane[b].life
  <2>1. pane[a].composer \in Seq(Prompts)
    BY DEF Typed, WorldOK, Panes
  <2>2. Append(pane[a].composer, job[a].prompt) \in Seq(Prompts)
    BY <1>1, <2>1
  <2>3. pane' = [pane EXCEPT ![a].composer = Append(pane[a].composer, job[a].prompt)]
    BY DEF JobPaste
  <2> QED BY <2>2, <2>3, ComposerLemma DEF Typed
<1> QED BY <1>2, <1>3, <1>4, Unmoved DEF Typed, WorldOK, Stable, JobPaste, store, told, bounds

LEMMA JobPasteFailsTyped ==
  ASSUME Typed, NEW a \in Agents, JobPasteFails(a)
  PROVE  Typed' /\ Stable
<1>1. job[a].prompt \in Prompts
  BY DEF Typed, SendersOK, JobPasteFails, Sending
<1>2. SendersOK'
  BY <1>1, StepLemma DEF Typed, JobPasteFails, JobPc, Sending
<1>3. /\ pane' \in [Agents -> Panes]
      /\ \A b \in Agents : pane'[b].life = pane[b].life
  <2>1. CASE UNCHANGED pane
    BY <2>1 DEF Typed, WorldOK
  <2>2. CASE pane' = [pane EXCEPT ![a].composer = Append(@, job[a].prompt)]
    <3>1. pane[a].composer \in Seq(Prompts)
      BY DEF Typed, WorldOK, Panes
    <3>2. Append(pane[a].composer, job[a].prompt) \in Seq(Prompts)
      BY <1>1, <3>1
    <3>3. pane' = [pane EXCEPT ![a].composer = Append(pane[a].composer, job[a].prompt)]
      BY <2>2
    <3> QED BY <3>2, <3>3, ComposerLemma DEF Typed
  <2> QED BY <2>1, <2>2 DEF JobPasteFails
<1>4. RestOK'
  BY FailureLemma DEF Typed, RestOK, JobPasteFails, told
<1> QED BY <1>2, <1>3, <1>4, Unmoved DEF Typed, WorldOK, Stable, JobPasteFails, store, memory

LEMMA JobVerifyTyped ==
  ASSUME Typed, NEW a \in Agents, JobVerify(a)
  PROVE  Typed' /\ Stable
<1>1. SendersOK'
  BY StepLemma DEF Typed, SendersOK, JobVerify, JobPc, Sending
<1> QED BY <1>1, Unmoved DEF Typed, JobVerify, store, memory, world, told, bounds

\* The composer of a pane may be cleared.
LEMMA ClearedLemma ==
  ASSUME WorldOK, NEW a \in Agents, UNCHANGED pane \/ pane' = [pane EXCEPT ![a].composer = <<>>]
  PROVE  /\ pane' \in [Agents -> Panes]
         /\ \A b \in Agents : pane'[b].life = pane[b].life
         /\ \A b \in Agents : pane'[b].composer \in {pane[b].composer, <<>>}
<1>1. CASE UNCHANGED pane
  BY <1>1 DEF WorldOK
<1>2. CASE pane' = [pane EXCEPT ![a].composer = <<>>]
  <2>1. <<>> \in Seq(Prompts)
    OBVIOUS
  <2>2. /\ pane' \in [Agents -> Panes]
        /\ pane'[a].composer = <<>>
        /\ \A b \in Agents \ {a} : pane'[b] = pane[b]
        /\ \A b \in Agents : pane'[b].life = pane[b].life
    BY <1>2, <2>1, ComposerLemma
  <2> QED BY <2>2
<1> QED BY <1>1, <1>2

LEMMA JobUnverifiedTyped ==
  ASSUME Typed, NEW a \in Agents, JobUnverified(a)
  PROVE  Typed' /\ Stable
<1>1. SendersOK'
  BY StepLemma DEF Typed, SendersOK, JobUnverified, JobPc, Sending
<1>2. /\ pane' \in [Agents -> Panes]
      /\ \A b \in Agents : pane'[b].life = pane[b].life
  BY ClearedLemma DEF Typed, JobUnverified
<1>3. RestOK'
  BY FailureLemma DEF Typed, RestOK, JobUnverified, told
<1> QED BY <1>1, <1>2, <1>3, Unmoved DEF Typed, WorldOK, Stable, JobUnverified, store, memory

LEMMA TakeLemma ==
  ASSUME WorldOK, NEW a \in Agents, TakeComposer(a)
  PROVE  /\ pane' \in [Agents -> Panes]
         /\ pane'[a].composer = <<>>
         /\ \A b \in Agents \ {a} : pane'[b] = pane[b]
         /\ \A b \in Agents : pane'[b].life = pane[b].life
         /\ delivered' \in [Prompts -> Seq(Agents)]
<1> DEFINE work == Elements(pane[a].composer) \ Resets
           att  == IF work = {} THEN pane[a].attention ELSE "working"
           turn == pane[a].turn \union work
           new  == [pane[a] EXCEPT !.composer = <<>>, !.turn = turn, !.pressed = FALSE,
                                !.attention = att]
<1>1. pane[a] \in Panes /\ pane[a].composer \in Seq(Prompts)
  BY DEF WorldOK, Panes
<1>2. turn \subseteq Prompts /\ att \in {"finished", "working", "question"}
  BY <1>1 DEF Elements, Panes
<1>3. new \in Panes /\ new.composer = <<>> /\ new.life = pane[a].life
  <2> HIDE DEF turn, att
  <2>1. <<>> \in Seq(Prompts)
    OBVIOUS
  <2> QED BY <1>1, <1>2, <2>1 DEF Panes
<1>4. pane' = [pane EXCEPT ![a] = new]
  BY DEF TakeComposer
<1>5. delivered' \in [Prompts -> Seq(Agents)]
  BY DEF WorldOK, TakeComposer
<1> HIDE DEF new
<1> QED BY <1>3, <1>4, <1>5 DEF WorldOK

\* Keys that were sent and are not handled yet leave the composer as it is.
LEMMA PressesLemma ==
  ASSUME WorldOK, NEW a \in Agents, NEW now \in BOOLEAN, pane' = [pane EXCEPT ![a].pressed = now]
  PROVE  /\ pane' \in [Agents -> Panes]
         /\ \A b \in Agents : pane'[b].life = pane[b].life /\ pane'[b].composer = pane[b].composer
<1> DEFINE new == [pane[a] EXCEPT !.pressed = now]
<1>1. new \in Panes /\ new.life = pane[a].life /\ new.composer = pane[a].composer
  BY DEF WorldOK, Panes
<1>2. pane' = [pane EXCEPT ![a] = new]
  OBVIOUS
<1> HIDE DEF new
<1> QED BY <1>1, <1>2 DEF WorldOK

LEMMA JobKeysTyped ==
  ASSUME Typed, NEW a \in Agents, JobKeys(a)
  PROVE  Typed' /\ Stable
<1>1. SendersOK'
  BY StepLemma DEF Typed, SendersOK, JobKeys, JobPc, Sending
<1>2. /\ pane' \in [Agents -> Panes]
      /\ delivered' \in [Prompts -> Seq(Agents)]
      /\ \A b \in Agents : pane'[b].life = pane[b].life
  <2>1. CASE TakeComposer(a)
    BY <2>1, TakeLemma DEF Typed
  <2>2. CASE UNCHANGED <<pane, delivered>>
    BY <2>2 DEF Typed, WorldOK
  <2>3. CASE Presses(a)
    BY <2>3, PressesLemma DEF Typed, WorldOK, Presses
  <2> QED BY <2>1, <2>2, <2>3 DEF JobKeys
<1>3. RestOK'
  BY FailureLemma DEF Typed, RestOK, JobKeys, told
<1> QED BY <1>1, <1>2, <1>3, Unmoved DEF Typed, WorldOK, Stable, JobKeys, store, memory

LEMMA JobAcceptTyped ==
  ASSUME Typed, NEW a \in Agents, JobAccept(a)
  PROVE  Typed' /\ Stable
<1>1. SendersOK'
  BY StepLemma DEF Typed, SendersOK, JobAccept, JobPc, Sending
<1> QED BY <1>1, Unmoved DEF Typed, JobAccept, store, memory, world, told, bounds

LEMMA JobRetryTyped ==
  ASSUME Typed, NEW a \in Agents, JobRetry(a)
  PROVE  Typed' /\ Stable
<1>1. /\ pane' \in [Agents -> Panes]
      /\ delivered' \in [Prompts -> Seq(Agents)]
      /\ \A b \in Agents : pane'[b].life = pane[b].life
  <2>1. CASE TakeComposer(a)
    BY <2>1, TakeLemma DEF Typed
  <2>2. CASE Presses(a)
    BY <2>2, PressesLemma DEF Typed, WorldOK, Presses
  <2> QED BY <2>1, <2>2 DEF JobRetry
<1>2. RestOK'
  BY FailureLemma DEF Typed, RestOK, JobRetry, actors, told
<1> QED BY <1>1, <1>2, Unmoved DEF Typed, WorldOK, Stable, JobRetry, store, memory, actors

LEMMA JobUnacceptedTyped ==
  ASSUME Typed, NEW a \in Agents, JobUnaccepted(a)
  PROVE  Typed' /\ Stable
<1>1. SendersOK'
  BY StepLemma DEF Typed, SendersOK, JobUnaccepted, JobPc, Sending
<1>2. /\ pane' \in [Agents -> Panes]
      /\ \A b \in Agents : pane'[b].life = pane[b].life
  BY ClearedLemma DEF Typed, JobUnaccepted
<1>3. RestOK'
  BY FailureLemma DEF Typed, RestOK, JobUnaccepted, told
<1> QED BY <1>1, <1>2, <1>3, Unmoved DEF Typed, WorldOK, Stable, JobUnaccepted, store, memory
-----------------------------------------------------------------------------
(* Every action keeps the types: the end of a job, drains and boundaries    *)

LEMMA JobRecordTyped ==
  ASSUME Typed, NEW a \in Agents, JobRecord(a)
  PROVE  Typed' /\ Stable
<1> DEFINE p == job[a].prompt
<1>1. p \in Prompts
  BY DEF Typed, SendersOK, JobRecord, Sending
<1>2. SendersOK'
  <2>1. CASE Step(a, "boundary") /\ UNCHANGED submits
    BY <1>1, <2>1, StepLemma DEF Typed, JobPc, Sending
  <2>2. CASE Step(a, "remove") /\ UNCHANGED submits
    BY <1>1, <2>2, StepLemma DEF Typed, JobPc, Sending
  <2>3. CASE Finish(a, "refused")
    BY <2>3, FinishLemma DEF Typed
  <2> QED BY <2>1, <2>2, <2>3 DEF JobRecord
<1>3. StoreOK'
  <2>1. boundary' \in [Agents -> Prompts \union {None, "external"}]
    BY DEF Typed, StoreOK, JobRecord
  <2>2. unanswered' \in [Agents -> SUBSET Prompts]
    <3>1. unanswered' = unanswered \/ unanswered' = [unanswered EXCEPT ![a] = @ \union {p}]
      BY DEF JobRecord
    <3> QED BY <1>1, <3>1 DEF Typed, StoreOK
  <2> QED BY <2>1, <2>2 DEF Typed, StoreOK, JobRecord
<1>4. MemoryOK'
  <2>1. phase' \in [Agents -> Phases]
    <3>1. Phase("awaiting-start", p) \in Phases /\ NoPhase \in Phases
      BY <1>1, PhaseLemma DEF PhaseState
    <3> QED BY <3>1 DEF Typed, MemoryOK, JobRecord, SetPhase
  <2>2. requests' \in [Prompts -> {"none"} \union Active \union Terminal]
    BY <1>1 DEF Typed, MemoryOK, JobRecord, Settle, Active, Terminal
  <2>3. reset' \in [Agents -> {"none", "pending", "ready", "expired"}] /\ restored' = restored
    BY DEF Typed, MemoryOK, JobRecord
  <2> QED BY <2>1, <2>2, <2>3 DEF Typed, MemoryOK
<1>5. RestOK'
  <2>1. confirmed' \subseteq Prompts
    BY <1>1 DEF Typed, RestOK, JobRecord
  <2>2. failures' \in 0 .. MaxFailures
    BY PromptDeliveryAssumption DEF Typed, RestOK, JobRecord, Failure
  <2> QED BY <2>1, <2>2 DEF Typed, RestOK, JobRecord
<1> QED BY <1>2, <1>3, <1>4, <1>5, Unmoved DEF Typed, JobRecord, world

LEMMA JobBoundaryTyped ==
  ASSUME Typed, NEW a \in Agents, JobBoundary(a)
  PROVE  Typed' /\ Stable
<1>1. job[a].prompt \in Prompts
  BY DEF Typed, SendersOK, JobBoundary, Sending
<1>2. SendersOK'
  <2>1. CASE Step(a, "remove") /\ UNCHANGED submits
    BY <1>1, <2>1, StepLemma DEF Typed, JobPc, Sending
  <2>2. CASE Finish(a, "refused")
    BY <2>2, FinishLemma DEF Typed
  <2> QED BY <2>1, <2>2 DEF JobBoundary
<1>3. StoreOK' /\ MemoryOK'
  BY <1>1 DEF Typed, StoreOK, MemoryOK, JobBoundary
<1>4. RestOK'
  BY FailureLemma DEF Typed, RestOK, JobBoundary, told
<1> QED BY <1>2, <1>3, <1>4, Unmoved DEF Typed, JobBoundary, world

LEMMA JobRemoveTyped ==
  ASSUME Typed, NEW a \in Agents, QueuedOnce, JobRemove(a)
  PROVE  Typed' /\ Stable
<1>1. SendersOK'
  BY FinishLemma DEF Typed, JobRemove
<1>2. StoreOK'
  BY DropLemma DEF Typed, StoreOK, JobRemove
<1>3. RestOK'
  BY FailureLemma DEF Typed, RestOK, JobRemove, told
<1> QED BY <1>1, <1>2, <1>3, Unmoved DEF Typed, JobRemove, memory, world

LEMMA HoldLemma ==
  ASSUME MemoryOK, NEW a \in Agents, NEW draft \in Prompts \union {None}, Hold(a, phase[a].prompt, draft)
  PROVE  phase' \in [Agents -> Phases]
<1>1. phase[a].prompt \in Prompts \union {None}
  BY PhaseLemma DEF MemoryOK
<1>2. [Phase("halted", phase[a].prompt) EXCEPT !.draft = draft] \in Phases /\ NoPhase \in Phases
  BY <1>1, PhaseLemma DEF PhaseState
<1> QED BY <1>2 DEF MemoryOK, Hold, SetPhase

LEMMA JobHoldTyped ==
  ASSUME Typed, NEW a \in Agents, JobHold(a)
  PROVE  Typed' /\ Stable
<1>1. SendersOK'
  BY StepLemma DEF Typed, SendersOK, JobHold, JobPc, Sending
<1>2. (IF Native THEN job[a].prompt ELSE None) \in Prompts \union {None}
  BY DEF Typed, SendersOK, JobHold, Sending
<1>3. MemoryOK'
  BY <1>2, HoldLemma DEF Typed, MemoryOK, JobHold
<1> QED BY <1>1, <1>3, Unmoved DEF Typed, JobHold, store, world, told, bounds

LEMMA JobFailTyped ==
  ASSUME Typed, NEW a \in Agents, JobFail(a)
  PROVE  Typed' /\ Stable
<1>1. SendersOK'
  BY FinishLemma DEF Typed, JobFail
<1>2. MemoryOK'
  <2>1. job[a].prompt \in Prompts /\ phase[a] \in Phases
    BY DEF Typed, SendersOK, MemoryOK, JobFail, Sending
  <2>2. [phase[a] EXCEPT !.state = "halted", !.prompt = job[a].prompt] \in Phases
    BY <2>1, PhaseLemma DEF PhaseState
  <2>3. phase' \in [Agents -> Phases]
    BY <2>2 DEF Typed, MemoryOK, JobFail, SetPhase
  <2>4. requests' \in [Prompts -> {"none"} \union Active \union Terminal]
    BY DEF Typed, MemoryOK, JobFail, Settle, Terminal
  <2> QED BY <2>3, <2>4 DEF Typed, MemoryOK, JobFail
<1> QED BY <1>1, <1>2, Unmoved DEF Typed, JobFail, store, world, told, bounds

LEMMA DrainNoteTyped ==
  ASSUME Typed, NEW a \in Agents, QueuedOnce, DrainNote(a)
  PROVE  Typed' /\ Stable
<1>1. Head(queue[a]) \in Prompts
  BY DEF Typed, StoreOK, DrainNote
<1>2. StoreOK'
  BY <1>1, DropLemma DEF Typed, StoreOK, DrainNote
<1>3. MemoryOK'
  BY DEF Typed, MemoryOK, DrainNote, Settle, Terminal
<1> QED BY <1>2, <1>3, Unmoved DEF Typed, DrainNote, actors, world, told, bounds

LEMMA DrainFailsTyped ==
  ASSUME Typed, NEW a \in Agents, DrainFails(a)
  PROVE  Typed' /\ Stable
<1>1. Head(queue[a]) \in Prompts
  BY DEF Typed, StoreOK, DrainFails
<1>2. StoreOK'
  BY <1>1 DEF Typed, StoreOK, DrainFails
<1>3. SendersOK'
  BY FinishLemma DEF Typed, DrainFails
<1>4. RestOK'
  BY FailureLemma DEF Typed, RestOK, DrainFails, told
<1> QED BY <1>2, <1>3, <1>4, Unmoved DEF Typed, DrainFails, memory, world

LEMMA DrainEndsTyped ==
  ASSUME Typed, NEW a \in Agents, DrainEnds(a)
  PROVE  Typed' /\ Stable
<1>1. SendersOK'
  BY FinishLemma DEF Typed, DrainEnds
<1>2. StoreOK'
  BY DEF Typed, StoreOK, DrainEnds
<1>3. MemoryOK'
  <2>1. phase' \in [Agents -> Phases]
    BY PhaseLemma DEF Typed, MemoryOK, DrainEnds, Forget, SetPhase
  <2>2. requests' \in [Prompts -> {"none"} \union Active \union Terminal]
    BY DEF Typed, MemoryOK, DrainEnds, Settle, Terminal
  <2>3. reset' \in [Agents -> {"none", "pending", "ready", "expired"}] /\ restored' \subseteq Agents
    BY DEF Typed, MemoryOK, DrainEnds, Forget
  <2> QED BY <2>1, <2>2, <2>3 DEF MemoryOK
<1> QED BY <1>1, <1>2, <1>3, Unmoved DEF Typed, DrainEnds, world, told, bounds

LEMMA ExternalBoundaryTyped ==
  ASSUME Typed, NEW a \in Agents, ExternalBoundary(a)
  PROVE  Typed' /\ Stable
<1>1. SendersOK'
  <2>1. CASE Finish(a, "accepted")
    BY <2>1, FinishLemma DEF Typed
  <2>2. CASE Step(a, "next") /\ UNCHANGED submits
    BY <2>2, StepLemma DEF Typed, JobPc, Sending
  <2> QED BY <2>1, <2>2 DEF ExternalBoundary
<1>2. NoPhase \in Phases
  BY PhaseLemma
<1>3. StoreOK'
  BY DEF Typed, StoreOK, ExternalBoundary
<1>4. MemoryOK'
  BY <1>2 DEF Typed, MemoryOK, ExternalBoundary, SetPhase
<1>5. RestOK'
  BY FailureLemma DEF Typed, RestOK, ExternalBoundary, told
<1> QED BY <1>1, <1>3, <1>4, <1>5, Unmoved DEF Typed, ExternalBoundary, world

LEMMA RetireTyped ==
  ASSUME Typed, NEW a \in Agents, Retire(a)
  PROVE  Typed' /\ Stable
<1>1. SendersOK'
  BY OwnJobLemma DEF Typed, Retire
<1> QED BY <1>1, Unmoved DEF Typed, Retire, store, memory, world, told, bounds
-----------------------------------------------------------------------------
(* Every action keeps the types: observations                               *)

LEMMA ObserveTyped ==
  ASSUME Typed, NEW o \in Observers, NEW a \in Agents, Observe(o, a)
  PROVE  Typed' /\ Stable
<1>1. [pc |-> "scan", agent |-> a, busy |-> Busy(a), seen |-> NoPhase] \in Observations
  BY PhaseLemma DEF Observations, Busy
<1>2. ObserversOK'
  BY <1>1 DEF Typed, ObserversOK, Observe
<1> QED BY <1>2, Unmoved DEF Typed, Observe, store, memory, actors, world, told, bounds

Routes == {"idle", "settle", "clear", "mark", "adopt", "release", "answer"}

LEMMA RouteLemma == ASSUME NEW o PROVE Route(o) \in Routes
  BY DEF Route, Routes

LEMMA ObserveLooksTyped ==
  ASSUME Typed, NEW o \in Observers, ObserveLooks(o)
  PROVE  Typed' /\ Stable
<1> DEFINE a == observer[o].agent
           new == [pc |-> Route(o), agent |-> a, busy |-> FALSE, seen |-> phase[a]]
<1>1. a \in Agents
  BY DEF Typed, ObserversOK, ObserveLooks, Looking
<1>2. Route(o) # "idle" => new \in Observations
  BY <1>1, RouteLemma DEF Typed, MemoryOK, Routes, Observations
<1>3. NotObserving \in Observations /\ NotObserving.pc = "idle"
  BY PhaseLemma DEF NotObserving, Observations
<1>4. observer' = [observer EXCEPT ![o] = IF Route(o) = "idle" THEN NotObserving ELSE new]
  BY DEF ObserveLooks
<1>5. ObserversOK'
  <2>1. new.agent = a
    OBVIOUS
  <2> HIDE DEF new
  <2> QED BY <1>1, <1>2, <1>3, <1>4, <2>1 DEF Typed, ObserversOK
<1> QED BY <1>5, Unmoved DEF Typed, ObserveLooks, store, memory, actors, world, told, bounds

LEMMA SeenLemma ==
  ASSUME Typed, NEW o \in Observers, observer[o].pc # "idle"
  PROVE  /\ observer[o].agent \in Agents
         /\ observer[o].seen \in Phases
         /\ observer[o].seen.prompt \in Prompts \union {None}
         /\ observer[o].seen.draft \in Prompts \union {None}
         /\ phase[observer[o].agent] \in Phases
  BY PhaseLemma DEF Typed, ObserversOK, MemoryOK, Observations

LEMMA TurnlessStartsTyped ==
  ASSUME Typed, NEW o \in Observers, TurnlessStarts(o)
  PROVE  Typed' /\ Stable
<1>1. MemoryOK'
  BY SeenLemma, PhaseLemma DEF Typed, MemoryOK, TurnlessStarts, Looking, SetPhase, PhaseState
<1>2. ObserversOK'
  BY RestLemma DEF Typed, TurnlessStarts
<1> QED BY <1>1, <1>2, Unmoved DEF Typed, TurnlessStarts, store, actors, world, told, bounds

LEMMA HaltLemma ==
  ASSUME Typed, NEW a \in Agents, NEW seen \in Phases, Halt(a, seen), UNCHANGED <<reset, restored, submits>>
  PROVE  MemoryOK' /\ SendersOK'
<1>1. [seen EXCEPT !.state = "halted"] \in Phases
  BY PhaseLemma DEF PhaseState
<1>2. MemoryOK'
  BY <1>1 DEF Typed, MemoryOK, Halt, SetPhase, Settle, Terminal
<1>3. SendersOK'
  BY OwnJobLemma DEF Typed, Halt, Drain
<1> QED BY <1>2, <1>3

LEMMA TurnlessEndsTyped ==
  ASSUME Typed, NEW o \in Observers, TurnlessEnds(o)
  PROVE  Typed' /\ Stable
<1> DEFINE a == observer[o].agent
<1>1. a \in Agents /\ phase[a] \in Phases
  BY SeenLemma DEF TurnlessEnds, Looking
<1>2. MemoryOK' /\ SendersOK'
  <2>1. CASE Halt(a, phase[a])
    BY <1>1, <2>1, HaltLemma DEF TurnlessEnds
  <2>2. CASE Settle({phase[a].prompt}, "complete") /\ SetPhase(a, NoPhase) /\ Dispatch(a)
    <3>1. MemoryOK'
      BY <2>2, PhaseLemma DEF Typed, MemoryOK, TurnlessEnds, SetPhase, Settle, Terminal
    <3>2. SendersOK'
      BY <1>1, <2>2, OwnJobLemma DEF Typed, TurnlessEnds, Dispatch
    <3> QED BY <3>1, <3>2
  <2> QED BY <2>1, <2>2 DEF TurnlessEnds
<1>3. ObserversOK'
  BY RestLemma DEF Typed, TurnlessEnds
<1> QED BY <1>2, <1>3, Unmoved DEF Typed, TurnlessEnds, store, world, told, bounds

LEMMA TurnlessWaitsTyped ==
  ASSUME Typed, NEW o \in Observers, TurnlessWaits(o)
  PROVE  Typed' /\ Stable
<1>1. ObserversOK'
  BY RestLemma DEF Typed, TurnlessWaits
<1> QED BY <1>1, Unmoved DEF Typed, TurnlessWaits, store, memory, actors, world, told, bounds

LEMMA ObserveMarksTyped ==
  ASSUME Typed, NEW o \in Observers, ObserveMarks(o)
  PROVE  Typed' /\ Stable
<1>1. MemoryOK'
  BY SeenLemma, PhaseLemma DEF Typed, MemoryOK, ObserveMarks, SetPhase, PhaseState
<1>2. ObserversOK'
  BY RestLemma DEF Typed, ObserveMarks
<1> QED BY <1>1, <1>2, Unmoved DEF Typed, ObserveMarks, store, actors, world, told, bounds

LEMMA ObserveAdoptsTyped ==
  ASSUME Typed, NEW o \in Observers, ObserveAdopts(o)
  PROVE  Typed' /\ Stable
<1> DEFINE a == observer[o].agent
<1>1. a \in Agents
  BY SeenLemma DEF ObserveAdopts
<1>2. unanswered[a] \subseteq Prompts
  BY <1>1 DEF Typed, StoreOK
<1>3. UNCHANGED phase \/ \E p \in Prompts \union {None} : SetPhase(a, Phase("working", p))
  BY <1>2 DEF ObserveAdopts
<1>4. MemoryOK'
  BY <1>1, <1>3, PhaseLemma, ZenonT(60) DEF Typed, MemoryOK, ObserveAdopts, SetPhase, PhaseState
<1>5. ObserversOK'
  BY RestLemma DEF Typed, ObserveAdopts
<1> QED BY <1>4, <1>5, Unmoved DEF Typed, ObserveAdopts, store, actors, world, told, bounds

LEMMA ObserveSettlesTyped ==
  ASSUME Typed, NEW o \in Observers, ObserveSettles(o)
  PROVE  Typed' /\ Stable
<1>1. MemoryOK'
  BY DEF Typed, MemoryOK, ObserveSettles
<1>2. SendersOK'
  BY SeenLemma, OwnJobLemma DEF Typed, ObserveSettles
<1>3. ObserversOK'
  BY RestLemma, WatchLemma DEF Typed, ObserveSettles
<1> QED BY <1>1, <1>2, <1>3, Unmoved DEF Typed, ObserveSettles, store, world, told, bounds

LEMMA SettleWaitsTyped ==
  ASSUME Typed, NEW o \in Observers, SettleWaits(o)
  PROVE  Typed' /\ Stable
<1>1. ObserversOK'
  BY RestLemma DEF Typed, SettleWaits
<1> QED BY <1>1, Unmoved DEF Typed, SettleWaits, store, memory, actors, world, told, bounds

LEMMA ObserveHoldsTyped ==
  ASSUME Typed, NEW o \in Observers, ObserveHolds(o)
  PROVE  Typed' /\ Stable
<1>1. MemoryOK'
  BY SeenLemma, HoldLemma DEF Typed, MemoryOK, ObserveHolds
<1>2. ObserversOK'
  BY RestLemma DEF Typed, ObserveHolds
<1> QED BY <1>1, <1>2, Unmoved DEF Typed, ObserveHolds, store, actors, world, told, bounds

LEMMA ObserveClearsTyped ==
  ASSUME Typed, NEW o \in Observers, ObserveClears(o)
  PROVE  Typed' /\ Stable
<1>1. observer[o].agent \in Agents
  BY SeenLemma DEF ObserveClears
<1>2. /\ pane' \in [Agents -> Panes]
      /\ \A b \in Agents : pane'[b].life = pane[b].life
  <2>1. UNCHANGED pane \/ pane' = [pane EXCEPT ![observer[o].agent].composer = <<>>]
    BY DEF ObserveClears
  <2> QED BY <1>1, <2>1, ClearedLemma DEF Typed
<1>3. SendersOK'
  BY <1>1, OwnJobLemma DEF Typed, ObserveClears, Drain
<1>4. ObserversOK'
  BY RestLemma DEF Typed, ObserveClears
<1>5. RestOK'
  <2>1. observer[o].seen.draft \in Prompts \union {None}
    BY PhaseLemma DEF Typed, ObserversOK, Observations
  <2>2. wiped' \subseteq Prompts
    BY <2>1 DEF Typed, RestOK, ObserveClears
  <2>3. failures' \in 0 .. MaxFailures
    BY PromptDeliveryAssumption DEF Typed, RestOK, ObserveClears, Failure
  <2> QED BY <2>2, <2>3 DEF Typed, RestOK, ObserveClears
<1> QED BY <1>2, <1>3, <1>4, <1>5, Unmoved DEF Typed, WorldOK, Stable, ObserveClears, store, memory

LEMMA AnswerPendingTyped ==
  ASSUME Typed, NEW o \in Observers, AnswerPending(o)
  PROVE  Typed' /\ Stable
<1>1. MemoryOK'
  <2>1. observer[o].agent \in Agents /\ [observer[o].seen EXCEPT !.state = "awaiting-answer"] \in Phases
    BY SeenLemma, PhaseLemma DEF AnswerPending, PhaseState
  <2> QED BY <2>1 DEF Typed, MemoryOK, AnswerPending, SetPhase
<1>2. ObserversOK'
  BY RestLemma DEF Typed, AnswerPending
<1> QED BY <1>1, <1>2, Unmoved DEF Typed, AnswerPending, store, actors, world, told, bounds

LEMMA AnswerCompletesTyped ==
  ASSUME Typed, NEW o \in Observers, AnswerCompletes(o)
  PROVE  Typed' /\ Stable
<1>1. observer[o].agent \in Agents
  BY SeenLemma DEF AnswerCompletes
<1>2. StoreOK'
  BY <1>1 DEF Typed, StoreOK, AnswerCompletes
<1>3. MemoryOK'
  BY <1>1, PhaseLemma DEF Typed, MemoryOK, AnswerCompletes, SetPhase, Settle, Terminal
<1>4. SendersOK'
  BY <1>1, OwnJobLemma DEF Typed, AnswerCompletes, Dispatch
<1>5. ObserversOK'
  BY RestLemma DEF Typed, AnswerCompletes
<1> QED BY <1>2, <1>3, <1>4, <1>5, Unmoved DEF Typed, AnswerCompletes, world, told, bounds

LEMMA AnswerFailsTyped ==
  ASSUME Typed, NEW o \in Observers, AnswerFails(o)
  PROVE  Typed' /\ Stable
<1>1. MemoryOK' /\ SendersOK'
  BY SeenLemma, HaltLemma DEF AnswerFails
<1>2. ObserversOK'
  BY RestLemma DEF Typed, AnswerFails
<1> QED BY <1>1, <1>2, Unmoved DEF Typed, AnswerFails, store, world, told, bounds

LEMMA AnswerIsResetTyped ==
  ASSUME Typed, NEW o \in Observers, AnswerIsReset(o)
  PROVE  Typed' /\ Stable
<1>1. SendersOK'
  BY SeenLemma, OwnJobLemma DEF Typed, AnswerIsReset
<1>2. ObserversOK'
  BY RestLemma DEF Typed, AnswerIsReset
<1> QED BY <1>1, <1>2, Unmoved DEF Typed, AnswerIsReset, store, memory, world, told, bounds

LEMMA ObserveReleasesTyped ==
  ASSUME Typed, NEW o \in Observers, ObserveReleases(o)
  PROVE  Typed' /\ Stable
<1>1. SendersOK'
  BY SeenLemma, OwnJobLemma DEF Typed, ObserveReleases
<1>2. ObserversOK'
  BY RestLemma DEF Typed, ObserveReleases
<1> QED BY <1>1, <1>2, Unmoved DEF Typed, ObserveReleases, store, memory, world, told, bounds
-----------------------------------------------------------------------------
(* Every action keeps the types: the operator, idle restarts, terminals     *)
(* and the server's end                                                     *)

LEMMA CancelHoldsTyped ==
  ASSUME Typed, NEW a \in Agents, CancelHolds(a)
  PROVE  Typed' /\ Stable
<1>1. MemoryOK'
  <2>1. Phase("halted", phase[a].prompt) \in Phases
    BY PhaseLemma DEF Typed, MemoryOK, PhaseState
  <2> QED BY <2>1 DEF Typed, MemoryOK, CancelHolds, SetPhase, Settle, Terminal
<1>2. RestOK'
  BY DEF Typed, RestOK, CancelHolds, told, bounds
<1> QED BY <1>1, <1>2, Unmoved DEF Typed, CancelHolds, store, world

LEMMA RemoveTyped ==
  ASSUME Typed, NEW a \in Agents, NEW p \in Prompts, QueuedOnce, Remove(a, p)
  PROVE  Typed' /\ Stable
<1>1. StoreOK'
  BY DropLemma DEF Typed, StoreOK, Remove
<1>2. MemoryOK'
  BY DEF Typed, MemoryOK, Remove, Settle, Terminal
<1>3. RestOK'
  BY DEF Typed, RestOK, Remove, actors, bounds
<1> QED BY <1>1, <1>2, <1>3, Unmoved DEF Typed, Remove, actors, world

LEMMA SaveTyped ==
  ASSUME Typed, NEW a \in Agents, NEW p \in Prompts, QueuedOnce, Save(a, p)
  PROVE  Typed' /\ Stable
<1>1. StoreOK'
  BY DropLemma DEF Typed, StoreOK, Save
<1>2. MemoryOK'
  BY DEF Typed, MemoryOK, Save, Settle, Terminal
<1>3. RestOK'
  BY FailureLemma DEF Typed, RestOK, Save, actors, told
<1> QED BY <1>1, <1>2, <1>3, Unmoved DEF Typed, Save, actors, world

LEMMA RestartStepLemma ==
  ASSUME RestartOK, restart.pc # "none",
         NEW pc \in {"check", "close", "launch", "handOver", "release"}, RestartStep(pc)
  PROVE  /\ RestartOK'
         /\ restart' = NoRestart \/ (restart'.pc = pc /\ restart'.from = restart.from /\ restart'.to = restart.to)
         /\ pc = "release" => restart' = NoRestart
<1>1. CASE pc = "release"
  BY <1>1 DEF RestartStep, RestartOK, NoRestart, Restarts
<1>2. CASE pc # "release"
  <2>1. restart' = [restart EXCEPT !.pc = pc]
    BY <1>2 DEF RestartStep
  <2>2. restart' \in Restarts
    BY <1>2, <2>1 DEF RestartOK, Restarts
  <2>3. restart'.pc = pc /\ restart'.from = restart.from /\ restart'.to = restart.to
    BY <2>1 DEF RestartOK, Restarts
  <2> QED BY <1>2, <2>2, <2>3 DEF RestartOK
<1> QED BY <1>1, <1>2

LEMMA RestartLocksTyped ==
  ASSUME Typed, NEW a \in Agents, RestartLocks(a)
  PROVE  Typed' /\ Stable
<1>1. RestartOK'
  BY DEF RestartLocks, RestartOK, Restarts, NoRestart
<1> QED BY <1>1, Unmoved DEF Typed, RestartLocks, store, memory, world, told, bounds

LEMMA RestartScansTyped ==
  ASSUME Typed, RestartScans
  PROVE  Typed' /\ Stable
<1>1. RestartOK'
  BY RestartStepLemma DEF Typed, RestartScans
<1> QED BY <1>1, Unmoved DEF Typed, RestartScans, store, memory, world, told, bounds

LEMMA RestartChecksTyped ==
  ASSUME Typed, RestartChecks
  PROVE  Typed' /\ Stable
<1>1. RestartOK'
  BY RestartStepLemma DEF Typed, RestartChecks
<1> QED BY <1>1, Unmoved DEF Typed, RestartChecks, store, memory, world, told, bounds

LEMMA PaneLemma ==
  /\ \A life \in {"unborn", "alive", "dead"} : Pane(life) \in Panes /\ Pane(life).life = life
  /\ \A life : Pane(life).composer = <<>>
  BY DEF Pane, Panes

LEMMA PaneGoneLemma ==
  ASSUME WorldOK, NEW a \in Agents, PaneGone(a), UNCHANGED delivered
  PROVE  /\ WorldOK' /\ Stable
         /\ pane'[a].life = "dead" /\ pane'[a].composer = <<>>
         /\ \A b \in Agents \ {a} : pane'[b] = pane[b]
  BY PaneLemma DEF WorldOK, Stable, PaneGone

LEMMA RestartClosesTyped ==
  ASSUME Typed, RestartCloses
  PROVE  Typed' /\ Stable
<1>1. restart.from \in Agents
  BY DEF Typed, RestartOK, RestartCloses
<1>2. WorldOK' /\ Stable
  BY <1>1, PaneGoneLemma, Unmoved DEF Typed, RestartCloses, world
<1>3. MemoryOK'
  BY DEF Typed, MemoryOK, RestartCloses, Settle, Terminal
<1>4. RestartOK'
  BY RestartStepLemma DEF Typed, RestartCloses
<1> QED BY <1>2, <1>3, <1>4, Unmoved DEF Typed, RestartCloses, store, told, bounds

LEMMA RestartLaunchesTyped ==
  ASSUME Typed, RestartLaunches
  PROVE  Typed' /\ Stable
<1>1. WorldOK' /\ Stable
  BY PaneLemma DEF Typed, WorldOK, Stable, RestartLaunches
<1>2. RestartOK'
  <2>1. CASE RestartStep("release")
    BY <2>1, RestartStepLemma DEF Typed, RestartLaunches
  <2>2. ASSUME NEW b \in Agents, restart' = [restart EXCEPT !.pc = "handOver", !.to = b]
        PROVE  RestartOK'
    BY <2>2 DEF Typed, RestartOK, Restarts, RestartLaunches
  <2> QED BY <2>1, <2>2 DEF RestartLaunches
<1>3. RestOK'
  BY FailureLemma DEF Typed, RestOK, RestartLaunches, told
<1> QED BY <1>1, <1>2, <1>3, Unmoved DEF Typed, RestartLaunches, store, memory

\* The queue of a departed pane goes to its replacement, with its prompts.
LEMMA MoveLemma ==
  ASSUME StoreOK, SendersOK, QueuedOnce, NEW a \in Agents, NEW b \in Agents, a # b, MoveQueue(a, b), UNCHANGED job
  PROVE  /\ queue' \in [Agents -> Seq(Prompts)]
         /\ Queued(a)' = {} /\ Queued(b)' = Queued(a) \union Queued(b)
         /\ \A c \in Agents \ {a, b} : queue'[c] = queue[c]
         /\ QueuedOnce'
         /\ SendersOK'
         /\ \A p \in Prompts : submits'[p].pc = submits[p].pc
         /\ \A p \in Queued(a) : submits'[p].agent = b
         /\ \A p \in Prompts \ Queued(a) : submits'[p] = submits[p]
<1>1. /\ Injective(queue[a]) /\ Injective(queue[b])
      /\ Elements(queue[a]) \intersect Elements(queue[b]) = {}
      /\ queue[a] \in Seq(Prompts) /\ queue[b] \in Seq(Prompts)
  BY DEF StoreOK, QueuedOnce, Injective, Queued
<1>2. /\ queue[a] \o queue[b] \in Seq(Prompts)
      /\ Elements(queue[a] \o queue[b]) = Queued(a) \union Queued(b)
      /\ Injective(queue[a] \o queue[b])
  BY <1>1, ConcatLemma DEF Queued
<1>3. <<>> \in Seq(Prompts) /\ Elements(<<>>) = {} /\ Injective(<<>>)
  BY DEF Elements, Injective
<1>4. /\ queue' \in [Agents -> Seq(Prompts)]
      /\ queue'[a] = <<>> /\ queue'[b] = queue[a] \o queue[b]
      /\ \A c \in Agents \ {a, b} : queue'[c] = queue[c]
  BY <1>2, <1>3 DEF StoreOK, MoveQueue
<1>5. /\ Queued(a)' = {} /\ Queued(b)' = Queued(a) \union Queued(b)
      /\ \A c \in Agents \ {a, b} : Queued(c)' = Queued(c)
  BY <1>2, <1>3, <1>4 DEF Queued
<1>6. QueuedOnce'
  <2>1. \A c \in Agents : Injective(queue'[c])
    BY <1>2, <1>3, <1>4 DEF QueuedOnce, Injective
  <2>2. \A c, d \in Agents : c # d => Queued(c)' \intersect Queued(d)' = {}
    BY <1>5 DEF QueuedOnce
  <2> QED BY <2>1, <2>2 DEF QueuedOnce, Injective
<1>7. \A p \in Prompts : /\ [submits[p] EXCEPT !.agent = b] \in Submits
                         /\ [submits[p] EXCEPT !.agent = b].pc = submits[p].pc
                         /\ [submits[p] EXCEPT !.agent = b].agent = b
  BY DEF SendersOK, Submits
<1>8. submits' = [p \in Prompts |-> IF p \in Queued(a) THEN [submits[p] EXCEPT !.agent = b] ELSE submits[p]]
  BY DEF MoveQueue
<1>9. /\ submits' \in [Prompts -> Submits]
      /\ \A p \in Prompts : submits'[p].pc = submits[p].pc
      /\ \A p \in Prompts \ Queued(a) : submits'[p] = submits[p]
  BY <1>7, <1>8 DEF SendersOK
<1>10. Queued(a) \subseteq Prompts
  BY <1>1 DEF Queued, Elements
<1>11. \A p \in Queued(a) : submits'[p].agent = b
  BY <1>7, <1>8, <1>10
<1>12. SendersOK'
  BY <1>9, <1>11, SubmitsLemma
<1> QED BY <1>4, <1>5, <1>6, <1>9, <1>11, <1>12

LEMMA RestartHandsOverTyped ==
  ASSUME Typed, Departed, QueuedOnce, RestartHandsOver
  PROVE  Typed' /\ Stable
<1> DEFINE a == restart.from
           b == restart.to
<1>1. a \in Agents /\ b \in Agents /\ a # b
  BY DEF Typed, RestartOK, Departed, RestartHandsOver
<1>2. RestartOK'
  BY RestartStepLemma DEF Typed, RestartHandsOver
<1>3. CASE ~ QueueFits(a, b) /\ UNCHANGED <<queue, unanswered, boundary, requests, submits, phase, reset, restored>>
  BY <1>2, <1>3, Unmoved DEF Typed, RestartHandsOver, store, memory, world, told, bounds
<1>4. CASE /\ MoveQueue(a, b) /\ MoveHistory(a, b)
           /\ boundary' = [boundary EXCEPT ![a] = None]
           /\ Settle(Running(a) \union {phase[a].prompt}, "interrupted")
           /\ Forget(a)
  <2>1. queue' \in [Agents -> Seq(Prompts)] /\ SendersOK'
    BY <1>1, <1>4, MoveLemma DEF Typed, RestartHandsOver
  <2>2. unanswered' \in [Agents -> SUBSET Prompts]
    BY <1>1, <1>4 DEF Typed, StoreOK, MoveHistory
  <2>3. StoreOK'
    BY <1>4, <2>1, <2>2 DEF Typed, StoreOK, RestartHandsOver
  <2>4. MemoryOK'
    BY <1>1, <1>4, PhaseLemma DEF Typed, MemoryOK, Settle, Forget, SetPhase, Terminal
  <2> QED BY <1>2, <2>1, <2>3, <2>4, Unmoved DEF Typed, RestartHandsOver, world, told, bounds
<1> QED BY <1>3, <1>4 DEF RestartHandsOver

LEMMA HandOverFailsTyped ==
  ASSUME Typed, Departed, QueuedOnce, HandOverFails
  PROVE  Typed' /\ Stable
<1> DEFINE a == restart.from
           b == restart.to
<1>1. a \in Agents /\ b \in Agents /\ a # b
  BY DEF Typed, RestartOK, Departed, HandOverFails
<1>2. RestartOK'
  BY RestartStepLemma DEF Typed, HandOverFails
<1>3. RestOK'
  BY FailureLemma DEF Typed, RestOK, HandOverFails, told
<1>4. CASE UNCHANGED <<queue, submits, requests, unanswered>>
  BY <1>2, <1>3, <1>4, Unmoved DEF Typed, HandOverFails, store, memory, world
<1>5. CASE /\ MoveQueue(a, b)
           /\ Settle(Running(a), "interrupted")
           /\ UNCHANGED unanswered \/ MoveHistory(a, b)
  <2>1. queue' \in [Agents -> Seq(Prompts)] /\ SendersOK'
    BY <1>1, <1>5, MoveLemma DEF Typed, HandOverFails
  <2>2. unanswered' \in [Agents -> SUBSET Prompts]
    BY <1>1, <1>5, ZenonT(60) DEF Typed, StoreOK, MoveHistory
  <2>3. StoreOK'
    BY <2>1, <2>2 DEF Typed, StoreOK, HandOverFails
  <2>4. MemoryOK'
    BY <1>5 DEF Typed, MemoryOK, Settle, HandOverFails, Terminal
  <2> QED BY <1>2, <1>3, <2>1, <2>3, <2>4, Unmoved DEF Typed, HandOverFails, world
<1> QED BY <1>4, <1>5 DEF HandOverFails

LEMMA WorkEndsLemma ==
  ASSUME WorldOK, NEW a \in Agents, NEW how \in {"completed", "interrupted"}, WorkEnds(a, how), UNCHANGED delivered
  PROVE  /\ WorldOK' /\ Stable
         /\ \A b \in Agents : pane'[b].life = pane[b].life /\ pane'[b].composer = pane[b].composer
<1> DEFINE new == [pane[a] EXCEPT !.attention = "finished", !.turn = {}, !.last = how]
<1>1. pane[a] \in Panes
  BY DEF WorldOK
<1>2. new \in Panes /\ new.life = pane[a].life /\ new.composer = pane[a].composer
  BY <1>1 DEF Panes
<1>3. pane' = [pane EXCEPT ![a] = new]
  BY DEF WorkEnds
<1>4. ended' \in [Prompts -> {"no", "completed", "interrupted"}]
  BY DEF WorldOK, WorkEnds
<1> HIDE DEF new
<1> QED BY <1>2, <1>3, <1>4 DEF WorldOK, Stable

LEMMA CancelSendsTyped ==
  ASSUME Typed, NEW a \in Agents, CancelSends(a)
  PROVE  Typed' /\ Stable
<1>1. WorldOK' /\ Stable
  BY WorkEndsLemma DEF Typed, CancelSends
<1>2. RestOK'
  BY DEF Typed, RestOK, CancelSends, told, bounds
<1> QED BY <1>1, <1>2, Unmoved DEF Typed, CancelSends, store, memory

LEMMA TurnEndsTyped ==
  ASSUME Typed, NEW a \in Agents, NEW how \in {"completed", "interrupted"}, TurnEnds(a, how)
  PROVE  Typed' /\ Stable
<1>1. WorldOK' /\ Stable
  BY WorkEndsLemma DEF Typed, TurnEnds
<1> QED BY <1>1, Unmoved DEF Typed, TurnEnds, store, memory, actors, told, bounds

LEMMA TerminalTakesTyped ==
  ASSUME Typed, NEW a \in Agents, TerminalTakes(a)
  PROVE  Typed' /\ Stable
<1>1. /\ pane' \in [Agents -> Panes]
      /\ delivered' \in [Prompts -> Seq(Agents)]
      /\ \A b \in Agents : pane'[b].life = pane[b].life
  <2>1. CASE TakeComposer(a)
    BY <2>1, TakeLemma DEF Typed
  <2>2. CASE pane' = [pane EXCEPT ![a].pressed = FALSE] /\ UNCHANGED delivered
    BY <2>2, PressesLemma DEF Typed, WorldOK
  <2> QED BY <2>1, <2>2 DEF TerminalTakes
<1> QED BY <1>1, Unmoved DEF Typed, WorldOK, Stable, TerminalTakes, store, memory, actors, told, bounds

LEMMA AttentionLemma ==
  ASSUME WorldOK, NEW a \in Agents, NEW new \in {"working", "question"},
         pane' = [pane EXCEPT ![a].attention = new]
  PROVE  /\ pane' \in [Agents -> Panes]
         /\ \A b \in Agents : pane'[b].life = pane[b].life /\ pane'[b].composer = pane[b].composer
<1> DEFINE now == [pane[a] EXCEPT !.attention = new]
<1>1. now \in Panes /\ now.life = pane[a].life /\ now.composer = pane[a].composer
  BY DEF WorldOK, Panes
<1>2. pane' = [pane EXCEPT ![a] = now]
  OBVIOUS
<1> HIDE DEF now
<1> QED BY <1>1, <1>2 DEF WorldOK

LEMMA AttentionChangesTyped ==
  ASSUME Typed, NEW a \in Agents, AttentionChanges(a)
  PROVE  Typed' /\ Stable
<1>1. /\ pane' \in [Agents -> Panes]
      /\ \A b \in Agents : pane'[b].life = pane[b].life
  BY AttentionLemma DEF Typed, AttentionChanges
<1> QED BY <1>1, Unmoved DEF Typed, WorldOK, Stable, AttentionChanges, store, memory, actors, told, bounds

LEMMA PaneDiesTyped ==
  ASSUME Typed, NEW a \in Agents, PaneDies(a)
  PROVE  Typed' /\ Stable
<1>1. WorldOK' /\ Stable
  BY PaneGoneLemma DEF Typed, PaneDies
<1> QED BY <1>1, Unmoved DEF Typed, PaneDies, store, memory, actors, told, bounds

LEMMA CrashTyped ==
  ASSUME Typed, Crash
  PROVE  Typed' /\ Stable
<1>1. MemoryOK'
  BY PhaseLemma DEF Typed, MemoryOK, Crash
<1>2. SendersOK'
  <2>1. \A p \in Prompts : [submits[p] EXCEPT !.pc = "refused"] \in Submits
                           /\ [submits[p] EXCEPT !.pc = "refused"].agent = submits[p].agent
    BY DEF Typed, SendersOK, Submits
  <2>2. submits' = [p \in Prompts |-> IF submits[p].pc \in InFlight
                                      THEN [submits[p] EXCEPT !.pc = "refused"] ELSE submits[p]]
    BY DEF Crash
  <2>3. submits' \in [Prompts -> Submits] /\ \A p \in Prompts : submits'[p].agent = submits[p].agent
    BY <2>1, <2>2 DEF Typed, SendersOK
  <2>4. \A p \in Prompts : submits[p].pc = "unsent" => submits'[p].pc = "unsent"
    BY <2>2 DEF InFlight
  <2>5. Idle \in Jobs /\ Idle.pc \notin Sending /\ Idle.owner \notin Prompts
    BY PromptDeliveryAssumption DEF Jobs, Idle, Sending
  <2>6. job' \in [Agents -> Jobs] /\ \A a \in Agents : job'[a] = Idle
    BY <2>5 DEF Crash
  <2> QED BY <2>3, <2>4, <2>5, <2>6 DEF Typed, SendersOK
<1>3. ObserversOK'
  BY PhaseLemma DEF ObserversOK, Observations, Crash, NotObserving
<1>4. RestartOK'
  BY DEF RestartOK, Restarts, Crash, NoRestart
<1>5. RestOK'
  BY PromptDeliveryAssumption DEF Typed, RestOK, Crash, told
<1> QED BY <1>1, <1>2, <1>3, <1>4, <1>5, Unmoved DEF Typed, Crash, store, world
-----------------------------------------------------------------------------
(* Where prompts are, and the steps that move none                          *)

LEMMA PlacesLemma ==
  ASSUME NEW p
  PROVE  /\ "queue" \in Places(p) <=> \E a \in Agents : p \in Queued(a)
         /\ "confirmed" \in Places(p) <=> p \in confirmed
         /\ "noted" \in Places(p) <=> p \in notes
         /\ "removed" \in Places(p) <=> p \in removed
         /\ Places(p) \subseteq {"queue", "confirmed", "noted", "removed"}
         /\ Places(p) = {} <=> /\ \A a \in Agents : p \notin Queued(a)
                               /\ p \notin confirmed /\ p \notin notes /\ p \notin removed
  BY DEF Places

LEMMA SamePlaces ==
  ASSUME UNCHANGED <<queue, notes, confirmed, removed>>
  PROVE  \A p : Places(p)' = Places(p)
  BY DEF Places, Queued, told

Safekept == QueuedOnce /\ Kept /\ ConfirmedFirst

\* Steps that move no prompt: what they may do to each variable.
SubmitsKept == \A p \in Prompts :
  /\ submits'[p].pc \in Outside => submits[p].pc \in Outside
  /\ submits'[p].pc \in {"dispatch", "accepted"} =>
       submits[p].pc \in {"dispatch", "accepted"} \/ Places(p) # {}
  /\ submits'[p].agent = submits[p].agent \/ submits[p] = Unsent
JobsKept == \A a \in Agents :
  /\ job'[a].owner \in Prompts => job'[a].owner = job[a].owner
  /\ job'[a].pc \in Sending => /\ job[a].pc \in Sending
                               /\ job'[a].prompt = job[a].prompt
                               /\ job'[a].pc \in {"boundary", "remove"} => job[a].prompt \in confirmed
PanesKept == \A a \in Agents :
  /\ pane[a].life = "dead" => pane'[a].life = "dead"
  /\ \/ pane'[a].composer = <<>>
     \/ pane'[a].composer = pane[a].composer /\ pane'[a].life = pane[a].life
BoundaryKept == \A a \in Agents : boundary'[a] \in Prompts => boundary'[a] \in confirmed

Quiet == /\ UNCHANGED <<queue, notes, confirmed, removed>>
         /\ SubmitsKept /\ JobsKept /\ PanesKept /\ BoundaryKept

\* What jobs may do when prompts reach an end or leave a queue.
JobsFollow == \A a \in Agents :
  /\ job'[a].owner \in Prompts => job'[a].owner = job[a].owner
  /\ job'[a].pc \in Sending => job[a].pc \in Sending /\ job'[a].prompt = job[a].prompt
SamePlaced == \A p \in Prompts : Places(p)' = {} <=> Places(p) = {}
QueuesShrink == \A a \in Agents : Queued(a)' \subseteq Queued(a)

LEMMA GentleKeeps ==
  ASSUME Typed, Safekept, Owned, SamePlaced, QueuesShrink, QueuedOnce', ConfirmedFirst',
         SubmitsKept, JobsFollow, PanesKept
  PROVE  Safekept' /\ Owned'
<1>1. Kept'
  <2>1. \A p \in Prompts : submits'[p].pc \in Outside => Places(p)' = {}
    BY DEF SamePlaced, SubmitsKept, Safekept, Kept
  <2>2. \A p \in Prompts : submits'[p].pc \in {"dispatch", "accepted"} => Places(p)' # {}
    BY DEF SamePlaced, SubmitsKept, Safekept, Kept
  <2>3. ASSUME NEW a \in Agents, job'[a].pc \in Sending
        PROVE  job'[a].prompt \in Prompts /\ Places(job'[a].prompt) # {}
    BY <2>3 DEF JobsFollow, Typed, SendersOK, Safekept, Kept
  <2>4. ASSUME NEW a \in Agents, job'[a].owner \in Prompts
        PROVE  Places(job'[a].owner) # {}
    BY <2>4 DEF JobsFollow, Safekept, Kept
  <2> QED BY <2>1, <2>2, <2>3, <2>4 DEF Kept, SamePlaced
<1>2. \A p \in Prompts : submits[p].agent \in Agents => submits'[p].agent = submits[p].agent
  BY PromptDeliveryAssumption DEF SubmitsKept, Unsent
<1>3. Owned'
  <2>1. \A a \in Agents : Queued(a) \subseteq Prompts
    BY DEF Typed, StoreOK, Queued, Elements
  <2>2. \A a \in Agents : \A p \in Queued(a)' : submits'[p].agent = a
    BY <1>2, <2>1 DEF Owned, QueuesShrink
  <2>3. ASSUME NEW a \in Agents, job'[a].pc \in Sending, pane'[a].life # "dead"
        PROVE  submits'[job'[a].prompt].agent = a
    <3>1. job[a].pc \in Sending /\ pane[a].life # "dead" /\ job'[a].prompt = job[a].prompt
      BY <2>3 DEF JobsFollow, PanesKept
    <3>2. job[a].prompt \in Prompts /\ submits[job[a].prompt].agent = a
      BY <3>1 DEF Typed, SendersOK, Owned
    <3> QED BY <1>2, <3>1, <3>2
  <2>4. ASSUME NEW a \in Agents, NEW p \in Elements(pane'[a].composer)
        PROVE  pane'[a].life # "dead" /\ submits'[p].agent = a
    <3>1. pane'[a].composer # <<>>
      BY <2>4 DEF Elements
    <3>2. pane'[a].composer = pane[a].composer /\ pane'[a].life = pane[a].life
      BY <3>1 DEF PanesKept
    <3>3. pane[a].life # "dead" /\ submits[p].agent = a
      BY <3>2, <2>4 DEF Owned
    <3>4. p \in Prompts
      BY <3>2, <2>4 DEF Typed, WorldOK, Panes, Elements
    <3> QED BY <1>2, <3>2, <3>3, <3>4
  <2> QED BY <2>2, <2>3, <2>4 DEF Owned
<1> QED BY <1>1, <1>3 DEF Safekept

LEMMA QuietKeeps ==
  ASSUME Typed, Safekept, Owned, Quiet
  PROVE  Safekept' /\ Owned' /\ \A p : Places(p)' = Places(p)
<1>1. \A p : Places(p)' = Places(p)
  BY SamePlaces DEF Quiet
<1>2. \A a : Queued(a)' = Queued(a)
  BY DEF Quiet, Queued
<1>3. QueuedOnce'
  BY <1>2 DEF Safekept, QueuedOnce, Quiet
<1>4. ConfirmedFirst'
  <2>1. \A a \in Agents : job'[a].pc \in {"boundary", "remove"} => job'[a].prompt \in confirmed
    BY DEF Quiet, JobsKept, Sending
  <2> QED BY <2>1 DEF Quiet, BoundaryKept, ConfirmedFirst, told
<1>5. JobsFollow
  BY DEF Quiet, JobsKept, JobsFollow
<1> QED BY <1>1, <1>2, <1>3, <1>4, <1>5, GentleKeeps DEF Quiet, SamePlaced, QueuesShrink

LEMMA Untouched ==
  /\ UNCHANGED submits => SubmitsKept
  /\ UNCHANGED job /\ ConfirmedFirst => JobsKept
  /\ UNCHANGED pane => PanesKept
  /\ UNCHANGED boundary /\ ConfirmedFirst => BoundaryKept
  BY DEF SubmitsKept, JobsKept, PanesKept, BoundaryKept, ConfirmedFirst

LEMMA StartKept ==
  ASSUME Typed, Safekept, NEW a \in Agents, NEW pc \in {"next", "drain", "external"},
         NEW then \in {"nothing", "clearPhase", "retire"},
         StartJob(a, pc, None, then) \/ UNCHANGED job
  PROVE  JobsKept
<1>1. CASE UNCHANGED job
  BY <1>1, Untouched DEF Safekept
<1>2. CASE StartJob(a, pc, None, then)
  <2>1. /\ job'[a] = [pc |-> pc, prompt |-> None, owner |-> None, then |-> then]
        /\ job'[a].pc \notin Sending
        /\ \A b \in Agents \ {a} : job'[b] = job[b]
    <3>1. SendersOK /\ None \in Prompts \union {None}
      BY DEF Typed
    <3> HIDE DEF Typed
    <3> QED  BY <1>2, <3>1, StartJobLemma, ZenonT(60)
  <2>2. job'[a].owner \notin Prompts
    BY <2>1, PromptDeliveryAssumption
  <2> QED BY <2>1, <2>2 DEF JobsKept, Safekept, ConfirmedFirst
<1> QED BY <1>1, <1>2

LEMMA StepKept ==
  ASSUME Typed, Safekept, NEW a \in Agents, NEW pc \in JobPc, Step(a, pc), UNCHANGED submits,
         pc \in Sending => job[a].pc \in Sending,
         pc \in {"boundary", "remove"} => job[a].prompt \in confirmed
  PROVE  JobsKept
<1>1. /\ job'[a].pc = pc /\ job'[a].prompt = job[a].prompt /\ job'[a].owner = job[a].owner
      /\ \A b \in Agents \ {a} : job'[b] = job[b]
  BY StepLemma DEF Typed, SendersOK
<1> QED BY <1>1 DEF JobsKept, Safekept, ConfirmedFirst

LEMMA FinishKept ==
  ASSUME Typed, Safekept, NEW a \in Agents, NEW outcome \in {"accepted", "refused"}, Finish(a, outcome)
  PROVE  JobsKept /\ SubmitsKept
<1>1. /\ job'[a] = Idle
      /\ \A b \in Agents \ {a} : job'[b] = job[b]
      /\ \A p \in Prompts : submits'[p].agent = submits[p].agent
      /\ \A p \in Prompts \ {job[a].owner} : submits'[p] = submits[p]
      /\ job[a].owner \in Prompts => submits'[job[a].owner].pc = outcome
  BY FinishLemma DEF Typed
<1>2. Idle.pc \notin Sending /\ Idle.owner \notin Prompts
  BY PromptDeliveryAssumption DEF Idle, Sending
<1>3. JobsKept
  BY <1>1, <1>2 DEF JobsKept, Safekept, ConfirmedFirst
<1>4. job[a].owner \in Prompts => Places(job[a].owner) # {}
  BY DEF Safekept, Kept
<1>5. SubmitsKept
  BY <1>1, <1>4 DEF SubmitsKept, Outside, InFlight
<1> QED BY <1>3, <1>5
-----------------------------------------------------------------------------
(* Quiet actions: those that move no prompt                                 *)

\* Observations that change no more than memory.
LEMMA LooksQuiet ==
  ASSUME Safekept, NEW o \in Observers,
         \/ \E a \in Agents : Observe(o, a)
         \/ ObserveLooks(o) \/ TurnlessStarts(o) \/ TurnlessWaits(o) \/ ObserveMarks(o)
         \/ ObserveAdopts(o) \/ SettleWaits(o) \/ ObserveHolds(o) \/ AnswerPending(o)
  PROVE  Quiet
<1>1. UNCHANGED <<queue, boundary, notes, confirmed, removed, job, submits, pane>>
  BY DEF Observe, ObserveLooks, TurnlessStarts, TurnlessWaits, ObserveMarks, ObserveAdopts,
         SettleWaits, ObserveHolds, AnswerPending, store, world, told
<1> QED BY <1>1, Untouched DEF Quiet, Safekept

\* Observations that may start a job.
LEMMA DispatchingQuiet ==
  ASSUME Typed, Safekept, NEW o \in Observers,
         \/ TurnlessEnds(o) \/ ObserveSettles(o) \/ AnswerCompletes(o) \/ AnswerFails(o)
         \/ AnswerIsReset(o) \/ ObserveReleases(o)
  PROVE  Quiet
<1> DEFINE a == observer[o].agent
<1>1. a \in Agents
  BY SeenLemma DEF TurnlessEnds, ObserveSettles, AnswerCompletes, AnswerFails, AnswerIsReset,
                   ObserveReleases, Looking
<1>2. UNCHANGED <<queue, boundary, notes, confirmed, removed, submits, pane>>
  BY DEF TurnlessEnds, ObserveSettles, AnswerCompletes, AnswerFails, AnswerIsReset, ObserveReleases,
         store, world, told
<1>3. \/ UNCHANGED job
      \/ StartJob(a, "next", None, "nothing")
      \/ StartJob(a, "drain", None, "clearPhase")
      \/ StartJob(a, "external", None, "nothing")
  BY DEF TurnlessEnds, ObserveSettles, AnswerCompletes, AnswerFails, AnswerIsReset, ObserveReleases,
         Halt, Drain, Dispatch
<1>4. JobsKept
  BY <1>1, <1>3, StartKept
<1> QED BY <1>2, <1>4, Untouched DEF Quiet, Safekept

LEMMA ClearedKept ==
  ASSUME WorldOK, NEW a \in Agents, UNCHANGED pane \/ pane' = [pane EXCEPT ![a].composer = <<>>]
  PROVE  PanesKept
<1>1. CASE UNCHANGED pane
  BY <1>1, Untouched
<1>2. CASE pane' = [pane EXCEPT ![a].composer = <<>>]
  <2>1. <<>> \in Seq(Prompts)
    OBVIOUS
  <2>2. /\ pane'[a].composer = <<>>
        /\ \A b \in Agents \ {a} : pane'[b] = pane[b]
        /\ \A b \in Agents : pane'[b].life = pane[b].life
    BY <1>2, <2>1, ComposerLemma
  <2> QED BY <2>2 DEF PanesKept
<1> QED BY <1>1, <1>2

LEMMA ObserveClearsQuiet ==
  ASSUME Typed, Safekept, NEW o \in Observers, ObserveClears(o)
  PROVE  Quiet
<1> DEFINE a == observer[o].agent
<1>1. a \in Agents
  BY SeenLemma DEF ObserveClears
<1>2. UNCHANGED pane \/ pane' = [pane EXCEPT ![a].composer = <<>>]
  BY DEF ObserveClears
<1>3. PanesKept
  BY <1>1, <1>2, ClearedKept DEF Typed
<1>4. UNCHANGED job \/ StartJob(a, "drain", None, "clearPhase")
  BY DEF ObserveClears, Drain
<1>5. JobsKept
  BY <1>1, <1>4, StartKept
<1> QED BY <1>3, <1>5, Untouched DEF Quiet, Safekept, ObserveClears, store, told

LEMMA ObservationQuiet ==
  ASSUME Typed, Safekept, NEW o \in Observers, Observation(o) \/ \E a \in Agents : Observe(o, a)
  PROVE  Quiet
  BY LooksQuiet, DispatchingQuiet, ObserveClearsQuiet DEF Observation

LEMMA SubmissionQuiet ==
  ASSUME Typed, Safekept, NEW p \in Prompts,
         (\E a \in Agents : Submit(p, a)) \/ SubmitRevives(p) \/ SubmitDecide(p) \/ SubmitRefused(p)
  PROVE  Quiet
<1>1. UNCHANGED <<queue, boundary, notes, confirmed, removed, job, pane>>
  BY DEF Submit, SubmitRevives, SubmitDecide, SubmitRefused, store, world, actors, told
<1>2. SubmitsKept
  <2>1. CASE \E a \in Agents : Submit(p, a)
    <3>1. PICK a \in Agents : Submit(p, a)
      BY <2>1
    <3>2. \A q \in Prompts \ {p} : submits'[q] = submits[q]
      BY <3>1 DEF Submit, Typed, SendersOK
    <3>3. submits[p] = Unsent /\ Unsent.pc \in Outside
      BY <3>1 DEF Submit, Unsent, Outside
    <3>4. submits'[p].pc \notin {"dispatch", "accepted"}
      BY <3>1 DEF Submit, Typed, SendersOK, Unsent
    <3> QED BY <3>2, <3>3, <3>4 DEF SubmitsKept
  <2>2. CASE SubmitRevives(p)
    BY <2>2, Untouched DEF SubmitRevives, actors
  <2>3. CASE SubmitDecide(p)
    <3>1. /\ \A q \in Prompts \ {p} : submits'[q] = submits[q]
          /\ submits'[p].agent = submits[p].agent
          /\ submits'[p].pc \in {"adopt", "hold", "direct"}
      BY <2>3 DEF SubmitDecide, Typed, SendersOK, Submits
    <3> QED BY <2>3, <3>1 DEF SubmitsKept, Outside, InFlight, SubmitDecide
  <2>4. CASE SubmitRefused(p)
    <3>1. submits'[p].pc = "refused" /\ submits'[p].agent = submits[p].agent
          /\ \A q \in Prompts \ {p} : submits'[q] = submits[q]
      BY <2>4, SubmitPcLemma DEF Typed, SubmitRefused, SubmitPc
    <3> QED BY <3>1 DEF SubmitsKept, Outside, InFlight
  <2> QED BY <2>1, <2>2, <2>3, <2>4
<1> QED BY <1>1, <1>2, Untouched DEF Quiet, Safekept

LEMMA RestoreFailsQuiet ==
  ASSUME Typed, Safekept, NEW a \in Agents, RestoreFails(a)
  PROVE  Quiet
<1>1. \A p \in Prompts : [submits[p] EXCEPT !.pc = "refused"].pc = "refused"
                         /\ [submits[p] EXCEPT !.pc = "refused"].agent = submits[p].agent
  BY DEF Typed, SendersOK, Submits
<1>2. \A p \in Prompts : submits'[p] \in {submits[p], [submits[p] EXCEPT !.pc = "refused"]}
  BY DEF RestoreFails
<1>3. SubmitsKept
  BY <1>1, <1>2 DEF SubmitsKept, Outside, InFlight
<1> QED BY <1>3, Untouched DEF Quiet, Safekept, RestoreFails, store, world, told

\* Steps of a job that reach no place.
LEMMA JobStepQuiet ==
  ASSUME Typed, Safekept, NEW a \in Agents,
         JobVerify(a) \/ JobUnverified(a) \/ JobAccept(a) \/ JobUnaccepted(a) \/ JobHold(a)
  PROVE  Quiet
<1>1. UNCHANGED <<queue, boundary, notes, confirmed, removed, submits>>
  BY DEF JobVerify, JobUnverified, JobAccept, JobUnaccepted, JobHold, store, told
<1>2. job[a].pc \in Sending /\ \E pc \in {"keys", "hold", "record", "fail"} : Step(a, pc)
  BY DEF JobVerify, JobUnverified, JobAccept, JobUnaccepted, JobHold, Sending
<1>3. JobsKept
  BY <1>1, <1>2, StepKept DEF JobPc, Sending
<1>4. UNCHANGED pane \/ pane' = [pane EXCEPT ![a].composer = <<>>]
  BY DEF JobVerify, JobUnverified, JobAccept, JobUnaccepted, JobHold, world
<1>5. PanesKept
  BY <1>4, ClearedKept DEF Typed
<1> QED BY <1>1, <1>3, <1>5, Untouched DEF Quiet, Safekept

LEMMA LivesKept ==
  ASSUME \A a \in Agents : pane'[a].life = pane[a].life /\ pane'[a].composer = pane[a].composer
  PROVE  PanesKept
  BY DEF PanesKept

LEMMA TakeKept ==
  ASSUME Typed, NEW a \in Agents,
         \/ TakeComposer(a) \/ UNCHANGED pane
         \/ \E now \in BOOLEAN : pane' = [pane EXCEPT ![a].pressed = now]
  PROVE  PanesKept
<1>1. CASE TakeComposer(a)
  BY <1>1, TakeLemma DEF Typed, PanesKept
<1>2. CASE UNCHANGED pane
  BY <1>2, Untouched
<1>3. CASE \E now \in BOOLEAN : pane' = [pane EXCEPT ![a].pressed = now]
  BY <1>3, PressesLemma, LivesKept DEF Typed
<1> QED BY <1>1, <1>2, <1>3

LEMMA JobKeysQuiet ==
  ASSUME Typed, Safekept, NEW a \in Agents, JobKeys(a)
  PROVE  Quiet
<1>1. UNCHANGED <<queue, boundary, notes, confirmed, removed, submits>>
  BY DEF JobKeys, store, told
<1>2. job[a].pc \in Sending
  BY DEF JobKeys, Sending
<1>3. PICK pc \in {"accept", "record", "hold"} : Step(a, pc)
  BY DEF JobKeys
<1>4. JobsKept
  BY <1>1, <1>2, <1>3, StepKept DEF JobPc, Sending
<1>5. PanesKept
  BY TakeKept DEF JobKeys, Presses
<1> QED BY <1>1, <1>4, <1>5, Untouched DEF Quiet, Safekept

LEMMA JobRetryQuiet ==
  ASSUME Typed, Safekept, NEW a \in Agents, JobRetry(a)
  PROVE  Quiet
<1>1. UNCHANGED <<queue, boundary, notes, confirmed, removed, job, submits>>
  BY DEF JobRetry, store, actors, told
<1>2. PanesKept
  BY TakeKept DEF JobRetry, Presses
<1> QED BY <1>1, <1>2, Untouched DEF Quiet, Safekept

LEMMA JobBoundaryQuiet ==
  ASSUME Typed, Safekept, NEW a \in Agents, JobBoundary(a)
  PROVE  Quiet
<1>1. job[a].pc = "boundary" /\ job[a].prompt \in confirmed
  BY DEF JobBoundary, Safekept, ConfirmedFirst
<1>2. JobsKept /\ SubmitsKept
  <2>1. CASE Finish(a, "refused")
    BY <2>1, FinishKept
  <2>2. CASE Step(a, "remove") /\ UNCHANGED submits
    BY <1>1, <2>2, StepKept, Untouched DEF JobPc, Sending
  <2> QED BY <2>1, <2>2 DEF JobBoundary
<1>3. BoundaryKept
  BY <1>1 DEF JobBoundary, BoundaryKept, Safekept, ConfirmedFirst, Typed, StoreOK
<1> QED BY <1>2, <1>3, Untouched DEF Quiet, JobBoundary, world, told

LEMMA JobEndsQuiet ==
  ASSUME Typed, Safekept, NEW a \in Agents, JobFail(a) \/ DrainEnds(a)
  PROVE  Quiet
<1>1. UNCHANGED <<queue, notes, confirmed, removed, pane>>
  BY DEF JobFail, DrainEnds, store, world, told
<1>2. JobsKept /\ SubmitsKept
  BY FinishKept DEF JobFail, DrainEnds
<1>3. boundary' \in {boundary, [boundary EXCEPT ![a] = None]}
  BY DEF JobFail, DrainEnds, store
<1>4. BoundaryKept
  BY <1>3, PromptDeliveryAssumption DEF BoundaryKept, Safekept, ConfirmedFirst, Typed, StoreOK
<1> QED BY <1>1, <1>2, <1>4, Untouched DEF Quiet

LEMMA ExternalBoundaryQuiet ==
  ASSUME Typed, Safekept, NEW a \in Agents, ExternalBoundary(a)
  PROVE  Quiet
<1>1. UNCHANGED <<queue, notes, confirmed, removed, pane>>
  BY DEF ExternalBoundary, world, told
<1>2. JobsKept /\ SubmitsKept
  <2>1. CASE Finish(a, "accepted")
    BY <2>1, FinishKept
  <2>2. CASE Step(a, "next") /\ UNCHANGED submits
    BY <2>2, StepKept, Untouched DEF JobPc, Sending
  <2> QED BY <2>1, <2>2 DEF ExternalBoundary
<1>3. BoundaryKept
  BY PromptDeliveryAssumption DEF ExternalBoundary, BoundaryKept, Safekept, ConfirmedFirst, Typed, StoreOK
<1> QED BY <1>1, <1>2, <1>3, Untouched DEF Quiet

LEMMA RetireQuiet ==
  ASSUME Typed, Safekept, NEW a \in Agents, Retire(a)
  PROVE  Quiet
<1>1. JobsKept
  BY StartKept DEF Retire
<1> QED BY <1>1, Untouched DEF Quiet, Safekept, Retire, store, world, told

LEMMA GoneKept ==
  ASSUME WorldOK, NEW a \in Agents, PaneGone(a), UNCHANGED delivered
  PROVE  PanesKept
  BY PaneGoneLemma DEF PanesKept

LEMMA OperatorQuiet ==
  ASSUME Typed, Safekept, NEW a \in Agents, CancelSends(a) \/ CancelHolds(a) \/ RestartLocks(a)
  PROVE  Quiet
<1>1. UNCHANGED <<queue, boundary, notes, confirmed, removed, job, submits>>
  BY DEF CancelSends, CancelHolds, RestartLocks, store, told
<1>2. PanesKept
  <2>1. CASE WorkEnds(a, "interrupted") /\ UNCHANGED delivered
    BY <2>1, WorkEndsLemma, LivesKept DEF Typed
  <2>2. CASE UNCHANGED pane
    BY <2>2, Untouched
  <2> QED BY <2>1, <2>2 DEF CancelSends, CancelHolds, RestartLocks, world
<1> QED BY <1>1, <1>2, Untouched DEF Quiet, Safekept

LEMMA RestartQuiet ==
  ASSUME Typed, Safekept, Departed, RestartScans \/ RestartChecks \/ RestartCloses \/ RestartLaunches
  PROVE  Quiet
<1>1. UNCHANGED <<queue, boundary, notes, confirmed, removed, job, submits>>
  BY DEF RestartScans, RestartChecks, RestartCloses, RestartLaunches, store, told
<1>2. PanesKept
  <2>1. CASE UNCHANGED pane
    BY <2>1, Untouched
  <2>2. CASE PaneGone(restart.from) /\ UNCHANGED delivered /\ restart.pc = "close"
    <3>1. restart.from \in Agents
      BY <2>2 DEF Typed, RestartOK
    <3> QED BY <2>2, <3>1, GoneKept DEF Typed
  <2>3. ASSUME NEW b \in Agents, pane[b].life = "unborn", pane' = [pane EXCEPT ![b] = Pane("alive")]
        PROVE  PanesKept
    BY <2>3, PaneLemma DEF PanesKept, Typed, WorldOK
  <2> QED BY <2>1, <2>2, <2>3 DEF RestartScans, RestartChecks, RestartCloses, RestartLaunches, world
<1> QED BY <1>1, <1>2, Untouched DEF Quiet, Safekept

LEMMA EnvironmentQuiet ==
  ASSUME Typed, Safekept, NEW a \in Agents, Environment(a)
  PROVE  Quiet
<1>1. UNCHANGED <<queue, boundary, notes, confirmed, removed, job, submits>>
  BY DEF Environment, TurnEnds, TerminalTakes, AttentionChanges, PaneDies, store, actors, told
<1>2. PanesKept
  <2>1. ASSUME NEW how \in {"completed", "interrupted"}, WorkEnds(a, how), UNCHANGED delivered
        PROVE  PanesKept
    BY <2>1, WorkEndsLemma, LivesKept DEF Typed
  <2>2. ASSUME NEW new \in {"working", "question"}, pane' = [pane EXCEPT ![a].attention = new]
        PROVE  PanesKept
    BY <2>2, AttentionLemma, LivesKept DEF Typed
  <2>3. CASE PaneGone(a) /\ UNCHANGED delivered
    BY <2>3, GoneKept DEF Typed
  <2>4. CASE TerminalTakes(a)
    BY <2>4, TakeKept DEF TerminalTakes
  <2> QED BY <2>1, <2>2, <2>3, <2>4 DEF Environment, TurnEnds, AttentionChanges, PaneDies
<1> QED BY <1>1, <1>2, Untouched DEF Quiet, Safekept

LEMMA CrashQuiet ==
  ASSUME Typed, Safekept, Crash
  PROVE  Quiet
<1>1. \A p \in Prompts : [submits[p] EXCEPT !.pc = "refused"].pc = "refused"
                         /\ [submits[p] EXCEPT !.pc = "refused"].agent = submits[p].agent
  BY DEF Typed, SendersOK, Submits
<1>2. \A p \in Prompts : submits'[p] \in {submits[p], [submits[p] EXCEPT !.pc = "refused"]}
  BY DEF Crash
<1>3. SubmitsKept
  BY <1>1, <1>2 DEF SubmitsKept, Outside, InFlight
<1>4. JobsKept
  <2>1. Idle.pc \notin Sending /\ Idle.owner \notin Prompts
    BY PromptDeliveryAssumption DEF Idle, Sending
  <2> QED BY <2>1 DEF JobsKept, Crash
<1> QED BY <1>3, <1>4, Untouched DEF Quiet, Safekept, Crash, store, world, told
-----------------------------------------------------------------------------
(* Actions that move prompts, as steps of the custody protocol              *)

\* A step of the custody protocol, or none.
Moves == Custody!Next \/ \A p \in Prompts : Places(p)' = Places(p)

LEMMA AcceptMoves ==
  ASSUME NEW p \in Prompts, Places(p) = {}, Places(p)' = {"queue"},
         \A q \in Prompts \ {p} : Places(q)' = Places(q)
  PROVE  Moves
<1>1. Custody!Accept(p)
  BY DEF Custody!Accept
<1> QED BY <1>1 DEF Moves, Custody!Next

LEMMA ReachMoves ==
  ASSUME NEW p \in Prompts, NEW end \in {"confirmed", "noted", "removed"},
         Places(p) # {}, Places(p)' = Places(p) \union {end},
         \A q \in Prompts \ {p} : Places(q)' = Places(q)
  PROVE  Moves
<1>1. Custody!Reach(p, end)
  BY DEF Custody!Reach
<1> QED BY <1>1 DEF Moves, Custody!Next, Custody!Ends

LEMMA LetGoMoves ==
  ASSUME NEW p \in Prompts, "queue" \in Places(p),
         Places(p)' \subseteq {"confirmed", "noted", "removed"}, Places(p)' # {},
         Places(p) \ {"queue"} \subseteq Places(p)',
         \A q \in Prompts \ {p} : Places(q)' = Places(q)
  PROVE  Moves
<1> DEFINE ends == Places(p)'
<1>1. ends \in SUBSET Custody!Ends /\ ends # {} /\ Places(p) \ {"queue"} \subseteq ends
  BY DEF Custody!Ends
<1>2. [q \in Prompts |-> Places(q)'] = [[q \in Prompts |-> Places(q)] EXCEPT ![p] = ends]
  OBVIOUS
<1>3. Custody!LetGo(p)
  BY <1>1, <1>2 DEF Custody!LetGo
<1> QED BY <1>3 DEF Moves, Custody!Next

\* The durable queue lets go of a prompt that is, or now is, somewhere else.
LEMMA DropKeeps ==
  ASSUME Typed, Safekept, Owned, NEW a \in Agents, NEW p \in Prompts, queue' = Drop(a, p),
         UNCHANGED confirmed,
         notes' = notes \/ (notes' = notes \union {p} /\ p \in Queued(a)),
         removed' = removed \/ (removed' = removed \union {p} /\ p \in Queued(a)),
         p \in Queued(a) => p \in confirmed \union notes' \union removed',
         SubmitsKept, JobsKept, PanesKept, BoundaryKept
  PROVE  Safekept' /\ Owned' /\ Moves
<1>1. /\ Queued(a)' = Queued(a) \ {p}
      /\ \A b \in Agents \ {a} : Queued(b)' = Queued(b)
      /\ QueuedOnce'
  BY DropLemma DEF Typed, StoreOK, Safekept, Queued
<1>2. \A q \in Prompts \ {p} : Places(q)' = Places(q)
  BY <1>1 DEF Places
<1>3. p \notin Queued(a) => Places(p)' = Places(p)
  BY <1>1 DEF Places
<1>4. ASSUME p \in Queued(a)
      PROVE  /\ "queue" \in Places(p) /\ Places(p)' # {}
             /\ Places(p)' \subseteq {"confirmed", "noted", "removed"}
             /\ Places(p) \ {"queue"} \subseteq Places(p)'
  <2>1. \A b \in Agents : p \notin Queued(b)'
    BY <1>1, <1>4 DEF Safekept, QueuedOnce
  <2>2. confirmed \subseteq confirmed' /\ notes \subseteq notes' /\ removed \subseteq removed'
    OBVIOUS
  <2> QED BY <1>4, <2>1, <2>2 DEF Places
<1>5. SamePlaced
  BY <1>2, <1>3, <1>4 DEF SamePlaced
<1>6. QueuesShrink
  BY <1>1 DEF QueuesShrink
<1>7. ConfirmedFirst' /\ JobsFollow
  BY DEF ConfirmedFirst, JobsKept, JobsFollow, BoundaryKept, Sending
<1>8. Moves
  <2>1. CASE p \in Queued(a)
    BY <1>2, <1>4, <2>1, LetGoMoves
  <2>2. CASE p \notin Queued(a)
    BY <1>2, <1>3, <2>2 DEF Moves
  <2> QED BY <2>1, <2>2
<1> QED BY <1>1, <1>5, <1>6, <1>7, <1>8, GentleKeeps

\* A prompt reaches a place while the queues stay as they are.
LEMMA ReachKeeps ==
  ASSUME Typed, Safekept, Owned, NEW p \in Prompts, Places(p) # {}, UNCHANGED <<queue, removed>>,
         \/ confirmed' = confirmed \union {p} /\ UNCHANGED notes
         \/ notes' = notes \union {p} /\ UNCHANGED confirmed,
         ConfirmedFirst', SubmitsKept, JobsFollow, PanesKept
  PROVE  Safekept' /\ Owned' /\ Moves
<1>1. \A b : Queued(b)' = Queued(b)
  BY DEF Queued
<1>2. \A q \in Prompts \ {p} : Places(q)' = Places(q)
  BY <1>1 DEF Places
<1>3. \E end \in {"confirmed", "noted"} : Places(p)' = Places(p) \union {end}
  <2>1. CASE confirmed' = confirmed \union {p} /\ UNCHANGED notes
    <3>1. Places(p)' = Places(p) \union {"confirmed"}
      BY <1>1, <2>1 DEF Places
    <3> QED BY <3>1
  <2>2. CASE notes' = notes \union {p} /\ UNCHANGED confirmed
    <3>1. Places(p)' = Places(p) \union {"noted"}
      BY <1>1, <2>2 DEF Places
    <3> QED BY <3>1
  <2> QED BY <2>1, <2>2
<1>4. SamePlaced
  BY <1>2, <1>3 DEF SamePlaced
<1>5. QueuesShrink /\ QueuedOnce'
  BY <1>1 DEF QueuesShrink, Safekept, QueuedOnce
<1>6. Moves
  BY <1>2, <1>3, ReachMoves
<1> QED BY <1>4, <1>5, <1>6, GentleKeeps

LEMMA QuietMoves ==
  ASSUME Typed, Safekept, Owned, Quiet
  PROVE  Safekept' /\ Owned' /\ Moves
  BY QuietKeeps DEF Moves

LEMMA KeptFollow ==
  ASSUME JobsKept, BoundaryKept, UNCHANGED confirmed
  PROVE  JobsFollow /\ ConfirmedFirst'
  BY DEF ConfirmedFirst, JobsKept, JobsFollow, BoundaryKept, Sending

LEMMA QueuedPlaced ==
  ASSUME NEW a \in Agents, NEW p \in Queued(a)
  PROVE  Places(p) # {}
  BY PlacesLemma

LEMMA HeadQueued ==
  ASSUME Typed, NEW a \in Agents, queue[a] # <<>>
  PROVE  Head(queue[a]) \in Prompts /\ Head(queue[a]) \in Queued(a)
<1>1. queue[a] \in Seq(Prompts)
  BY DEF Typed, StoreOK
<1>2. 1 \in DOMAIN queue[a] /\ Head(queue[a]) = queue[a][1]
  BY <1>1
<1> QED BY <1>1, <1>2 DEF Queued, Elements

LEMMA RestoreKeeps ==
  ASSUME Typed, Safekept, Owned, NEW a \in Agents, Restore(a)
  PROVE  Safekept' /\ Owned' /\ Moves
<1>1. UNCHANGED <<boundary, notes, confirmed, removed, job, submits, pane>>
  BY DEF Restore, actors, world, told
<1>2. SubmitsKept /\ JobsKept /\ PanesKept /\ BoundaryKept
  BY <1>1, Untouched DEF Safekept
<1>3. CASE boundary[a] \in Prompts
  <2>1. queue' = Drop(a, boundary[a])
    BY <1>3, PromptDeliveryAssumption DEF Restore
  <2>2. boundary[a] \in confirmed
    BY <1>3 DEF Safekept, ConfirmedFirst
  <2> QED BY <1>1, <1>2, <1>3, <2>1, <2>2, DropKeeps DEF told
<1>4. CASE boundary[a] \notin Prompts
  <2>1. boundary[a] \notin Elements(queue[a])
    BY <1>4 DEF Typed, StoreOK, Elements
  <2>2. UNCHANGED queue
    BY <2>1 DEF Restore, Drop, Without, Typed, StoreOK
  <2> QED BY <1>1, <1>2, <2>2, QuietMoves DEF Quiet
<1> QED BY <1>3, <1>4

LEMMA JobRecordKeeps ==
  ASSUME Typed, Safekept, Owned, NEW a \in Agents, JobRecord(a)
  PROVE  Safekept' /\ Owned' /\ Moves
<1> DEFINE p == job[a].prompt
<1>1. p \in Prompts /\ Places(p) # {} /\ job[a].pc \in Sending
  BY DEF Typed, SendersOK, JobRecord, Sending, Safekept, Kept
<1>2. /\ UNCHANGED <<queue, notes, removed, pane>>
      /\ confirmed' = confirmed \union {p}
  BY DEF JobRecord, world
<1>3. /\ SubmitsKept /\ JobsFollow
      /\ \A b \in Agents : job'[b].pc \in {"boundary", "remove"} => job'[b].prompt \in confirmed'
  <2>1. CASE Finish(a, "refused")
    <3>1. JobsKept /\ SubmitsKept
      BY <2>1, FinishKept
    <3> QED BY <1>2, <3>1 DEF JobsKept, JobsFollow, Sending
  <2>2. ASSUME NEW pc \in {"boundary", "remove"}, Step(a, pc), UNCHANGED submits
        PROVE  /\ SubmitsKept /\ JobsFollow
               /\ \A b \in Agents : job'[b].pc \in {"boundary", "remove"} => job'[b].prompt \in confirmed'
    <3>1. /\ job'[a].prompt = p /\ job'[a].owner = job[a].owner
          /\ \A b \in Agents \ {a} : job'[b] = job[b]
      BY <1>1, <2>2, StepLemma DEF Typed, JobPc, Sending
    <3> QED BY <1>1, <1>2, <2>2, <3>1, Untouched DEF JobsFollow, Safekept, ConfirmedFirst
  <2> QED BY <2>1, <2>2 DEF JobRecord
<1>4. \A b \in Agents : boundary'[b] \in Prompts => boundary'[b] = boundary[b]
  <2>1. boundary' \in {boundary, [boundary EXCEPT ![a] = None]}
    BY DEF JobRecord
  <2> QED BY <2>1, PromptDeliveryAssumption DEF Typed, StoreOK
<1>5. ConfirmedFirst'
  BY <1>2, <1>3, <1>4 DEF ConfirmedFirst, Safekept
<1> QED BY <1>1, <1>2, <1>3, <1>5, Untouched, ReachKeeps

LEMMA JobRemoveKeeps ==
  ASSUME Typed, Safekept, Owned, NEW a \in Agents, JobRemove(a)
  PROVE  Safekept' /\ Owned' /\ Moves
<1>1. job[a].prompt \in Prompts /\ job[a].prompt \in confirmed
  BY DEF Typed, SendersOK, JobRemove, Sending, Safekept, ConfirmedFirst
<1>2. UNCHANGED <<boundary, notes, confirmed, removed, pane>>
  BY DEF JobRemove, world, told
<1>3. SubmitsKept /\ JobsKept /\ PanesKept /\ BoundaryKept
  BY <1>2, FinishKept, Untouched DEF JobRemove, Safekept
<1>4. CASE queue' = Drop(a, job[a].prompt)
  BY <1>1, <1>2, <1>3, <1>4, DropKeeps DEF told
<1>5. CASE UNCHANGED queue
  BY <1>2, <1>3, <1>5, QuietMoves DEF Quiet
<1> QED BY <1>4, <1>5 DEF JobRemove

LEMMA DrainNoteKeeps ==
  ASSUME Typed, Safekept, Owned, NEW a \in Agents, DrainNote(a)
  PROVE  Safekept' /\ Owned' /\ Moves
<1>1. Head(queue[a]) \in Prompts /\ Head(queue[a]) \in Queued(a)
  BY HeadQueued DEF DrainNote
<1>2. UNCHANGED <<boundary, confirmed, removed, job, submits, pane>>
  BY DEF DrainNote, actors, world, told
<1>3. queue' = Drop(a, Head(queue[a])) /\ notes' = notes \union {Head(queue[a])}
  BY DEF DrainNote
<1> QED BY <1>1, <1>2, <1>3, Untouched, DropKeeps DEF Safekept, told

LEMMA DrainFailsKeeps ==
  ASSUME Typed, Safekept, Owned, NEW a \in Agents, DrainFails(a)
  PROVE  Safekept' /\ Owned' /\ Moves
<1>1. Head(queue[a]) \in Prompts /\ Places(Head(queue[a])) # {}
  BY HeadQueued, QueuedPlaced DEF DrainFails
<1>2. UNCHANGED <<queue, boundary, confirmed, removed, pane>>
  BY DEF DrainFails, world, told
<1>3. SubmitsKept /\ JobsKept /\ PanesKept /\ BoundaryKept
  BY <1>2, FinishKept, Untouched DEF DrainFails, Safekept
<1>4. CASE UNCHANGED notes
  BY <1>2, <1>3, <1>4, QuietMoves DEF Quiet
<1>5. CASE notes' = notes \union {Head(queue[a])}
  BY <1>1, <1>2, <1>3, <1>5, KeptFollow, ReachKeeps DEF told
<1> QED BY <1>4, <1>5 DEF DrainFails

LEMMA RemoveKeeps ==
  ASSUME Typed, Safekept, Owned, NEW a \in Agents, NEW p \in Prompts, Remove(a, p)
  PROVE  Safekept' /\ Owned' /\ Moves
<1>1. UNCHANGED <<boundary, notes, confirmed, job, submits, pane>>
  BY DEF Remove, actors, world
<1>2. queue' = Drop(a, p) /\ removed' = removed \union {p} /\ p \in Queued(a)
  BY DEF Remove
<1> QED BY <1>1, <1>2, Untouched, DropKeeps DEF Safekept

LEMMA SaveKeeps ==
  ASSUME Typed, Safekept, Owned, NEW a \in Agents, NEW p \in Prompts, Save(a, p)
  PROVE  Safekept' /\ Owned' /\ Moves
<1>1. UNCHANGED <<boundary, confirmed, removed, job, submits, pane>>
  BY DEF Save, actors, world, told
<1>2. notes' = notes \union {p} /\ p \in Queued(a) /\ Places(p) # {}
  BY QueuedPlaced DEF Save
<1>3. SubmitsKept /\ JobsKept /\ PanesKept /\ BoundaryKept
  BY <1>1, Untouched DEF Safekept
<1>4. CASE queue' = Drop(a, p)
  BY <1>1, <1>2, <1>3, <1>4, DropKeeps DEF told
<1>5. CASE UNCHANGED queue
  BY <1>1, <1>2, <1>3, <1>5, KeptFollow, ReachKeeps DEF told
<1> QED BY <1>4, <1>5 DEF Save
-----------------------------------------------------------------------------
(* Actions that make a prompt queued, sent, pasted or handed over           *)

LEMMA SubmitEnqueueKeeps ==
  ASSUME Typed, Safekept, Owned, NEW p \in Prompts, SubmitEnqueue(p)
  PROVE  Safekept' /\ Owned' /\ Moves
<1>0. PICK a \in Agents : a = submits[p].agent
  BY DEF SubmitEnqueue, Typed, SendersOK
<1>1. /\ submits[p].pc \in Outside /\ submits[p].agent = a
      /\ UNCHANGED <<boundary, notes, confirmed, removed, pane>>
      /\ queue' = [queue EXCEPT ![a] = Append(@, p)]
  BY <1>0 DEF SubmitEnqueue, Outside, InFlight, world, told
<1>2. Places(p) = {} /\ \A b \in Agents : p \notin Queued(b)
  BY <1>1, PlacesLemma DEF Safekept, Kept
<1>3. \E pc \in {"dispatch", "accepted"} : submits' = [submits EXCEPT ![p].pc = pc]
  BY DEF SubmitEnqueue
<1>4. /\ submits'[p].pc \in {"dispatch", "accepted"}
      /\ \A q \in Prompts : submits'[q].agent = submits[q].agent
      /\ \A q \in Prompts \ {p} : submits'[q] = submits[q]
  BY <1>3, SubmitPcLemma DEF Typed, SubmitPc, InFlight
<1>5. \A b \in Agents :
        /\ job'[b].pc \in Sending => job'[b] = job[b]
        /\ job'[b].owner \in Prompts => job'[b].owner = job[b].owner \/ job'[b].owner = p
  <2>1. CASE UNCHANGED job
    BY <2>1
  <2>2. CASE StartJob(a, "next", p, "nothing")
    <3>1. /\ job'[a] = [pc |-> "next", prompt |-> None, owner |-> p, then |-> "nothing"]
          /\ job'[a].pc \notin Sending
          /\ \A b \in Agents \ {a} : job'[b] = job[b]
      BY <1>1, <2>2, StartJobLemma DEF Typed
    <3>2. job'[a].owner = p
      BY <3>1
    <3> QED BY <3>1, <3>2
  <2> QED BY <1>0, <2>1, <2>2 DEF SubmitEnqueue
<1>6. /\ Queued(a)' = Queued(a) \union {p}
      /\ \A b \in Agents \ {a} : Queued(b)' = Queued(b) /\ queue'[b] = queue[b]
      /\ Injective(queue'[a])
  <2>1. Injective(queue[a]) /\ queue[a] \in Seq(Prompts) /\ p \notin Elements(queue[a])
    BY <1>1, <1>2 DEF Safekept, QueuedOnce, Injective, Typed, StoreOK, Queued
  <2>2. /\ Elements(Append(queue[a], p)) = Elements(queue[a]) \union {p}
        /\ Injective(Append(queue[a], p))
    BY <2>1, AppendLemma
  <2>3. queue'[a] = Append(queue[a], p) /\ \A b \in Agents \ {a} : queue'[b] = queue[b]
    BY <1>1 DEF Typed, StoreOK
  <2> QED BY <2>2, <2>3 DEF Queued
<1>7. QueuedOnce'
  <2>1. \A b \in Agents : \A i, j \in DOMAIN queue'[b] : queue'[b][i] = queue'[b][j] => i = j
    BY <1>6 DEF Safekept, QueuedOnce, Injective
  <2>2. \A b, c \in Agents : b # c => Queued(b)' \intersect Queued(c)' = {}
    BY <1>2, <1>6 DEF Safekept, QueuedOnce
  <2> QED BY <2>1, <2>2 DEF QueuedOnce
<1>8. Places(p)' = {"queue"} /\ \A q \in Prompts \ {p} : Places(q)' = Places(q)
  <2>1. Places(p)' = {"queue"}
    BY <1>1, <1>2, <1>6 DEF Places, told
  <2>2. \A q \in Prompts \ {p} : Places(q)' = Places(q)
    BY <1>1, <1>6 DEF Places, told
  <2> QED BY <2>1, <2>2
<1>9. Kept'
  <2>1. \A q \in Prompts : submits'[q].pc \in Outside => Places(q)' = {}
    BY <1>4, <1>8 DEF Safekept, Kept, Outside, InFlight
  <2>2. \A q \in Prompts : submits'[q].pc \in {"dispatch", "accepted"} => Places(q)' # {}
    BY <1>4, <1>8 DEF Safekept, Kept
  <2>3. ASSUME NEW b \in Agents, job'[b].pc \in Sending  PROVE Places(job[b].prompt)' # {}
    <3>1. job'[b] = job[b] /\ job[b].prompt \in Prompts /\ Places(job[b].prompt) # {}
      BY <1>5, <2>3 DEF Safekept, Kept, Typed, SendersOK
    <3> QED BY <1>2, <1>8, <3>1
  <2>4. ASSUME NEW b \in Agents, job'[b].owner \in Prompts  PROVE Places(job[b].owner)' # {}
    BY <1>5, <1>8, <2>4 DEF Safekept, Kept
  <2> QED BY <2>1, <2>2, <2>3, <2>4 DEF Kept
<1>10. ConfirmedFirst'
  BY <1>1, <1>5 DEF Safekept, ConfirmedFirst, Sending, told
<1>11. Owned'
  <2>1. \A b \in Agents : Queued(b) \subseteq Prompts /\ Elements(pane[b].composer) \subseteq Prompts
    BY DEF Typed, StoreOK, WorldOK, Panes, Queued, Elements
  <2>2. \A b \in Agents : \A q \in Queued(b)' : submits'[q].agent = b
    <3>1. \A b \in Agents : \A q \in Queued(b) : submits'[q].agent = b
      BY <1>4, <2>1 DEF Owned
    <3>2. submits'[p].agent = a
      BY <1>1, <1>4
    <3> QED BY <1>6, <3>1, <3>2
  <2>3. ASSUME NEW b \in Agents, job'[b].pc \in Sending, pane'[b].life # "dead"
        PROVE  submits'[job'[b].prompt].agent = b
    <3>1. job'[b] = job[b] /\ pane[b].life # "dead"
      BY <1>1, <1>5, <2>3
    <3> QED BY <1>4, <2>3, <3>1 DEF Owned, Typed, SendersOK
  <2>4. \A b \in Agents : \A q \in Elements(pane'[b].composer) :
          pane'[b].life # "dead" /\ submits'[q].agent = b
    BY <1>1, <1>4, <2>1 DEF Owned
  <2> QED BY <2>2, <2>3, <2>4 DEF Owned
<1>12. Moves
  BY <1>2, <1>8, AcceptMoves
<1> QED BY <1>7, <1>9, <1>10, <1>11, <1>12 DEF Safekept

LEMMA JobNextKeeps ==
  ASSUME Typed, Safekept, Owned, NEW a \in Agents, JobNext(a)
  PROVE  Safekept' /\ Owned' /\ Moves
<1>1. UNCHANGED <<queue, boundary, notes, confirmed, removed, pane>>
  BY DEF JobNext, store, world, told
<1>2. CASE queue[a] = <<>>
  <2>1. Finish(a, "accepted")
    BY <1>2 DEF JobNext
  <2>2. JobsKept /\ SubmitsKept
    BY <2>1, FinishKept
  <2> QED BY <1>1, <2>2, Untouched, QuietMoves DEF Quiet, Safekept
<1>3. CASE queue[a] # <<>>
  <2> DEFINE p == Head(queue[a])
  <2>1. p \in Prompts /\ p \in Queued(a) /\ Places(p) # {} /\ submits[p].agent = a
    BY <1>3, HeadQueued, QueuedPlaced DEF Owned
  <2>2. UNCHANGED submits /\ job' = [job EXCEPT ![a].pc = "paste", ![a].prompt = p]
    BY <1>3 DEF JobNext
  <2>3. /\ job'[a].pc = "paste" /\ job'[a].prompt = p /\ job'[a].owner = job[a].owner
        /\ \A b \in Agents \ {a} : job'[b] = job[b]
    BY <2>2 DEF Typed, SendersOK, Jobs
  <2>4. \A q : Places(q)' = Places(q)
    BY <1>1, SamePlaces
  <2>5. QueuedOnce' /\ ConfirmedFirst'
    BY <1>1, <2>3 DEF Safekept, QueuedOnce, Queued, ConfirmedFirst, told
  <2>6. Kept'
    <3>1. \A q \in Prompts : submits'[q] = submits[q]
      BY <2>2
    <3>2. \A b \in Agents : job'[b].pc \in Sending => Places(job'[b].prompt) # {}
      BY <2>1, <2>3 DEF Safekept, Kept
    <3>3. \A b \in Agents : job'[b].owner \in Prompts => Places(job'[b].owner) # {}
      BY <2>3 DEF Safekept, Kept
    <3> QED BY <2>4, <3>1, <3>2, <3>3 DEF Safekept, Kept
  <2>7. Owned'
    <3>1. \A b \in Agents : job'[b].pc \in Sending /\ pane'[b].life # "dead"
                              => submits'[job'[b].prompt].agent = b
      BY <1>1, <2>1, <2>2, <2>3, ZenonT(60) DEF Owned
    <3> QED BY <1>1, <2>2, <3>1 DEF Owned, Queued
  <2> QED BY <2>4, <2>5, <2>6, <2>7 DEF Safekept, Moves
<1> QED BY <1>2, <1>3

\* A paste puts a prompt of the Agent into the composer of its live pane.
LEMMA PastedKeeps ==
  ASSUME Typed, Safekept, Owned, NEW a \in Agents, job[a].pc = "paste", Alive(a),
         pane' = [pane EXCEPT ![a].composer = Append(@, job[a].prompt)],
         UNCHANGED <<queue, boundary, notes, confirmed, removed, submits>>,
         NEW pc \in {"verify", "hold", "fail"}, Step(a, pc)
  PROVE  Safekept' /\ Owned' /\ Moves
<1> DEFINE p == job[a].prompt
<1>1. p \in Prompts /\ job[a].pc \in Sending /\ submits[p].agent = a
  BY DEF Typed, SendersOK, Sending, Owned, Alive
<1>2. JobsKept
  BY <1>1, StepKept DEF JobPc, Sending
<1>3. \A q : Places(q)' = Places(q)
  BY SamePlaces
<1>4. QueuedOnce' /\ ConfirmedFirst' /\ JobsFollow
  BY <1>2 DEF Safekept, QueuedOnce, Queued, ConfirmedFirst, JobsKept, JobsFollow, told, Sending
<1>5. Kept'
  <2>1. \A b \in Agents : job'[b].pc \in Sending => Places(job'[b].prompt) # {}
    BY <1>4 DEF JobsFollow, Safekept, Kept
  <2>2. \A b \in Agents : job'[b].owner \in Prompts => Places(job'[b].owner) # {}
    BY <1>4 DEF JobsFollow, Safekept, Kept
  <2> QED BY <1>3, <2>1, <2>2 DEF Safekept, Kept
<1>6. /\ pane'[a].composer = Append(pane[a].composer, p)
      /\ \A b \in Agents \ {a} : pane'[b] = pane[b]
      /\ \A b \in Agents : pane'[b].life = pane[b].life
  <2>1. Append(pane[a].composer, p) \in Seq(Prompts)
    BY <1>1 DEF Typed, WorldOK, Panes
  <2>2. pane' = [pane EXCEPT ![a].composer = Append(pane[a].composer, p)]
    OBVIOUS
  <2> QED BY <2>1, <2>2, ComposerLemma DEF Typed
<1>7. Elements(pane'[a].composer) = Elements(pane[a].composer) \union {p}
  <2>1. pane[a].composer \in Seq(Prompts)
    BY DEF Typed, WorldOK, Panes
  <2> DEFINE s == pane[a].composer
  <2>2. /\ DOMAIN s = 1 .. Len(s) /\ Len(s) \in Nat
        /\ DOMAIN Append(s, p) = 1 .. Len(s) + 1
        /\ \A i \in 1 .. Len(s) : Append(s, p)[i] = s[i]
        /\ Append(s, p)[Len(s) + 1] = p
    BY <2>1
  <2> QED BY <1>6, <2>2 DEF Elements
<1>8. Owned'
  <2>1. \A b \in Agents : \A q \in Queued(b)' : submits'[q].agent = b
    BY DEF Owned, Queued
  <2>2. \A b \in Agents : job'[b].pc \in Sending /\ pane'[b].life # "dead"
                            => submits'[job'[b].prompt].agent = b
    BY <1>4, <1>6 DEF Owned, JobsFollow
  <2>3. \A b \in Agents : \A q \in Elements(pane'[b].composer) :
          pane'[b].life # "dead" /\ submits'[q].agent = b
    BY <1>1, <1>6, <1>7 DEF Owned, Alive
  <2> QED BY <2>1, <2>2, <2>3 DEF Owned
<1> QED BY <1>3, <1>4, <1>5, <1>8 DEF Safekept, Moves

LEMMA JobPasteKeeps ==
  ASSUME Typed, Safekept, Owned, NEW a \in Agents, JobPaste(a)
  PROVE  Safekept' /\ Owned' /\ Moves
  BY PastedKeeps DEF JobPaste, store, told

LEMMA JobPasteFailsKeeps ==
  ASSUME Typed, Safekept, Owned, NEW a \in Agents, JobPasteFails(a)
  PROVE  Safekept' /\ Owned' /\ Moves
<1>1. UNCHANGED <<queue, boundary, notes, confirmed, removed, submits>> /\ job[a].pc = "paste"
  BY DEF JobPasteFails, store, told
<1>2. CASE UNCHANGED pane /\ Step(a, "fail")
  <2>1. JobsKept
    BY <1>1, <1>2, StepKept DEF JobPc, Sending
  <2> QED BY <1>1, <1>2, <2>1, Untouched, QuietMoves DEF Quiet, Safekept
<1>3. ASSUME NEW pc \in {"hold", "fail"}, Alive(a), Step(a, pc),
             pane' = [pane EXCEPT ![a].composer = Append(@, job[a].prompt)]
      PROVE  Safekept' /\ Owned' /\ Moves
  BY <1>1, <1>3, PastedKeeps
<1> QED BY <1>2, <1>3 DEF JobPasteFails

\* A queue that goes to another Agent takes its prompts with it.
LEMMA MoveKeeps ==
  ASSUME Typed, Safekept, Owned, NEW a \in Agents, NEW b \in Agents, a # b,
         pane[a].life = "dead", MoveQueue(a, b), UNCHANGED <<notes, confirmed, removed, job, pane>>, BoundaryKept
  PROVE  Safekept' /\ Owned' /\ Moves
<1>0. /\ Queued(a)' = {} /\ Queued(b)' = Queued(a) \union Queued(b)
      /\ \A c \in Agents \ {a, b} : queue'[c] = queue[c]
      /\ QueuedOnce'
      /\ \A p \in Prompts : submits'[p].pc = submits[p].pc
      /\ \A p \in Queued(a) : submits'[p].agent = b
      /\ \A p \in Prompts \ Queued(a) : submits'[p] = submits[p]
  BY MoveLemma DEF Typed, Safekept
<1>1. \A c \in Agents \ {a, b} : Queued(c)' = Queued(c)
  BY <1>0 DEF Queued
<1>2. \A p : Places(p)' = Places(p)
  BY <1>0, <1>1 DEF Places, told
<1>3. Kept'
  BY <1>0, <1>1, <1>2 DEF Safekept, Kept
<1>4. ConfirmedFirst'
  BY DEF Safekept, ConfirmedFirst, BoundaryKept, told
<1>5. Owned'
  <2>1. \A c \in Agents : Queued(c) \subseteq Prompts /\ Elements(pane[c].composer) \subseteq Prompts
    BY DEF Typed, StoreOK, WorldOK, Panes, Queued, Elements
  <2>2. \A c \in Agents \ {a} : \A p \in Prompts : submits[p].agent = c => submits'[p].agent = c
    BY <1>0, <1>1 DEF Owned
  <2>3. \A c \in Agents : \A p \in Queued(c)' : submits'[p].agent = c
    BY <1>0, <1>1, <2>1, <2>2 DEF Owned
  <2>4. ASSUME NEW c \in Agents, job'[c].pc \in Sending, pane'[c].life # "dead"
        PROVE  submits'[job'[c].prompt].agent = c
    <3>1. c # a /\ job[c].prompt \in Prompts /\ submits[job[c].prompt].agent = c
      BY <2>4 DEF Owned, Typed, SendersOK
    <3> QED BY <2>2, <3>1
  <2>5. ASSUME NEW c \in Agents, NEW p \in Elements(pane'[c].composer)
        PROVE  pane'[c].life # "dead" /\ submits'[p].agent = c
    <3>1. c # a /\ p \in Prompts /\ pane[c].life # "dead" /\ submits[p].agent = c
      BY <2>1, <2>5 DEF Owned
    <3> QED BY <2>2, <3>1
  <2> QED BY <2>3, <2>4, <2>5 DEF Owned
<1> QED BY <1>0, <1>1, <1>2, <1>3, <1>4, <1>5 DEF Safekept, Moves

LEMMA HandOverKeeps ==
  ASSUME Typed, Safekept, Owned, Departed, RestartHandsOver \/ HandOverFails
  PROVE  Safekept' /\ Owned' /\ Moves
<1> DEFINE a == restart.from
           b == restart.to
<1>1. /\ a \in Agents /\ b \in Agents /\ a # b /\ pane[a].life = "dead"
      /\ UNCHANGED <<notes, confirmed, removed, job, pane>>
  BY DEF Typed, RestartOK, Departed, RestartHandsOver, HandOverFails, world, told
<1>2. BoundaryKept
  <2>1. boundary' \in {boundary, [boundary EXCEPT ![a] = None]}
    BY DEF RestartHandsOver, HandOverFails
  <2>2. \A c \in Agents : boundary'[c] \in Prompts => boundary'[c] = boundary[c]
    BY <2>1, PromptDeliveryAssumption DEF Typed, StoreOK
  <2> QED BY <2>2 DEF BoundaryKept, Safekept, ConfirmedFirst
<1>3. CASE MoveQueue(a, b)
  BY <1>1, <1>2, <1>3, MoveKeeps
<1>4. CASE UNCHANGED <<queue, submits>>
  BY <1>1, <1>2, <1>4, Untouched, QuietMoves DEF Quiet, Safekept
<1> QED BY <1>3, <1>4 DEF RestartHandsOver, HandOverFails
-----------------------------------------------------------------------------
(* The inductive invariant, and the theorems that follow from it            *)

LEMMA StillDeparted ==
  ASSUME RestartOK, Departed, Stable, UNCHANGED restart
  PROVE  Departed'
  BY DEF RestartOK, Departed, Stable

\* A restart that releases its lock, or that goes on without leaving a pane.
LEMMA StepsDeparted ==
  ASSUME RestartOK, NEW pc \in {"check", "close", "release"}, RestartStep(pc)
  PROVE  Departed'
  BY DEF RestartOK, Restarts, RestartStep, NoRestart, Departed

LEMMA RestartDeparted ==
  ASSUME Typed, Departed, Stable, IdleRestart
  PROVE  Departed'
<1>1. CASE RestartScans \/ RestartChecks \/ RestartHandsOver \/ HandOverFails
  BY <1>1, StepsDeparted DEF Typed, RestartScans, RestartChecks, RestartHandsOver, HandOverFails
<1>2. CASE RestartCloses
  <2>1. CASE RestartStep("release")
    BY <2>1, StepsDeparted DEF Typed
  <2>2. CASE PaneGone(restart.from) /\ RestartStep("launch")
    <3>1. restart.from \in Agents
      BY <1>2 DEF Typed, RestartOK, RestartCloses
    <3>2. restart'.pc = "launch" /\ restart'.from = restart.from
      BY <2>2 DEF Typed, RestartOK, Restarts, RestartStep
    <3>3. pane'[restart.from].life = "dead"
      BY <2>2, <3>1 DEF PaneGone, Pane, Typed, WorldOK
    <3> QED BY <3>2, <3>3 DEF Departed
  <2> QED BY <1>2, <2>1, <2>2 DEF RestartCloses
<1>3. CASE RestartLaunches
  <2>1. CASE RestartStep("release")
    BY <2>1, StepsDeparted DEF Typed
  <2>2. ASSUME NEW b \in Agents, pane[b].life = "unborn",
               restart' = [restart EXCEPT !.pc = "handOver", !.to = b]
        PROVE  Departed'
    <3>1. restart.from \in Agents /\ pane[restart.from].life = "dead"
      BY <1>3 DEF Typed, RestartOK, Departed, RestartLaunches
    <3>2. restart'.from = restart.from /\ restart'.to = b
      BY <2>2 DEF Typed, RestartOK, Restarts
    <3> QED BY <2>2, <3>1, <3>2 DEF Departed, Stable
  <2> QED BY <1>3, <2>1, <2>2 DEF RestartLaunches
<1> QED BY <1>1, <1>2, <1>3 DEF IdleRestart

LEMMA BeginsDeparted ==
  ASSUME NEW a \in Agents, RestartLocks(a) \/ Crash
  PROVE  Departed'
<1>1. CASE Crash
  BY <1>1 DEF Crash, NoRestart, Departed
<1>2. CASE RestartLocks(a)
  <2>1. restart' = [NoRestart EXCEPT !.pc = "scan", !.from = a]
    BY <1>2 DEF RestartLocks
  <2>2. restart'.pc = "scan"
    BY <2>1 DEF NoRestart
  <2> QED BY <2>2 DEF Departed
<1> QED BY <1>1, <1>2

\* What every step keeps.
Keeps == /\ Typed' /\ Departed' /\ Safekept' /\ Owned'
         /\ Moves

LEMMA SubmissionKeeps ==
  ASSUME Typed, Departed, Safekept, Owned, NEW p \in Prompts, Submission(p)
  PROVE  Keeps
<1>1. Typed' /\ Stable
  BY SubmitTyped, SubmitRevivesTyped, SubmitDecideTyped, SubmitEnqueueTyped, SubmitRefusedTyped
     DEF Submission
<1>2. UNCHANGED restart
  BY DEF Submission, Submit, SubmitRevives, SubmitDecide, SubmitEnqueue, SubmitRefused, actors
<1>3. Departed'
  BY <1>1, <1>2, StillDeparted DEF Typed
<1>4. CASE SubmitEnqueue(p)
  BY <1>1, <1>3, <1>4, SubmitEnqueueKeeps DEF Keeps
<1>5. CASE ~ SubmitEnqueue(p)
  <2>1. Quiet
    BY <1>5, SubmissionQuiet DEF Submission
  <2> QED BY <1>1, <1>3, <2>1, QuietMoves DEF Keeps
<1> QED BY <1>4, <1>5

LEMMA JobKeeps ==
  ASSUME Typed, Departed, Safekept, Owned, NEW a \in Agents, Job(a)
  PROVE  Keeps
<1>1. QueuedOnce
  BY DEF Safekept
<1>2. Typed' /\ Stable
  BY <1>1, JobNextTyped, JobPasteTyped, JobPasteFailsTyped, JobVerifyTyped, JobUnverifiedTyped,
     JobKeysTyped, JobAcceptTyped, JobRetryTyped, JobUnacceptedTyped, JobRecordTyped,
     JobBoundaryTyped, JobRemoveTyped, JobHoldTyped, JobFailTyped, DrainNoteTyped,
     DrainFailsTyped, DrainEndsTyped, ExternalBoundaryTyped
     DEF Job
<1>3. UNCHANGED restart
  BY DEF Job, JobNext, JobPaste, JobPasteFails, JobVerify, JobUnverified, JobKeys, JobAccept,
         JobRetry, JobUnaccepted, JobRecord, JobBoundary, JobRemove, JobHold, JobFail,
         DrainNote, DrainFails, DrainEnds, ExternalBoundary, actors
<1>4. Departed'
  BY <1>2, <1>3, StillDeparted DEF Typed
<1>5. Safekept' /\ Owned' /\ Moves
  <2>1. CASE JobNext(a) \/ JobPaste(a) \/ JobPasteFails(a)
    BY <2>1, JobNextKeeps, JobPasteKeeps, JobPasteFailsKeeps
  <2>2. CASE JobRecord(a) \/ JobRemove(a) \/ DrainNote(a) \/ DrainFails(a)
    BY <2>2, JobRecordKeeps, JobRemoveKeeps, DrainNoteKeeps, DrainFailsKeeps
  <2>3. CASE \/ JobVerify(a) \/ JobUnverified(a) \/ JobAccept(a) \/ JobUnaccepted(a) \/ JobHold(a)
             \/ JobKeys(a) \/ JobRetry(a) \/ JobBoundary(a) \/ JobFail(a) \/ DrainEnds(a)
             \/ ExternalBoundary(a)
    <3>1. Quiet
      BY <2>3, JobStepQuiet, JobKeysQuiet, JobRetryQuiet, JobBoundaryQuiet, JobEndsQuiet,
         ExternalBoundaryQuiet
    <3> QED BY <3>1, QuietMoves
  <2> QED BY <2>1, <2>2, <2>3 DEF Job
<1> QED BY <1>2, <1>4, <1>5 DEF Keeps

LEMMA ObservationKeeps ==
  ASSUME Typed, Departed, Safekept, Owned, NEW o \in Observers,
         Observation(o) \/ \E a \in Agents : Observe(o, a)
  PROVE  Keeps
<1>1. Typed' /\ Stable
  BY ObserveTyped, ObserveLooksTyped, TurnlessStartsTyped, TurnlessEndsTyped, TurnlessWaitsTyped,
     ObserveMarksTyped, ObserveAdoptsTyped, ObserveSettlesTyped, SettleWaitsTyped,
     ObserveHoldsTyped, ObserveClearsTyped, ObserveReleasesTyped, AnswerPendingTyped,
     AnswerCompletesTyped, AnswerFailsTyped, AnswerIsResetTyped
     DEF Observation
<1>2. UNCHANGED restart
  BY DEF Observation, Observe, ObserveLooks, TurnlessStarts, TurnlessEnds, TurnlessWaits,
         ObserveMarks, ObserveAdopts, ObserveSettles, SettleWaits, ObserveHolds, ObserveClears,
         ObserveReleases, AnswerPending, AnswerCompletes, AnswerFails, AnswerIsReset
<1>3. Departed'
  BY <1>1, <1>2, StillDeparted DEF Typed
<1>4. Safekept' /\ Owned' /\ Moves
  BY ObservationQuiet, QuietMoves
<1> QED BY <1>1, <1>3, <1>4 DEF Keeps

\* What the steps of one Agent that belong to no job do.
LEMMA AgentKeeps ==
  ASSUME Typed, Departed, Safekept, Owned, NEW a \in Agents,
         Restore(a) \/ RestoreFails(a) \/ Retire(a) \/ Operator(a) \/ Environment(a)
  PROVE  Keeps
<1>1. QueuedOnce
  BY DEF Safekept
<1>2. Typed' /\ Stable
  BY <1>1, RestoreTyped, RestoreFailsTyped, RetireTyped, CancelSendsTyped, CancelHoldsTyped,
     RemoveTyped, SaveTyped, TurnEndsTyped, TerminalTakesTyped, AttentionChangesTyped, PaneDiesTyped
     DEF Operator, Environment
<1>3. UNCHANGED restart
  BY DEF Restore, RestoreFails, Retire, Operator, CancelSends, CancelHolds, Remove, Save,
         Environment, TurnEnds, TerminalTakes, AttentionChanges, PaneDies, actors
<1>4. Departed'
  BY <1>2, <1>3, StillDeparted DEF Typed
<1>5. Safekept' /\ Owned' /\ Moves
  <2>1. CASE Restore(a) \/ \E p \in Prompts : Remove(a, p) \/ Save(a, p)
    BY <2>1, RestoreKeeps, RemoveKeeps, SaveKeeps
  <2>2. CASE RestoreFails(a) \/ Retire(a) \/ CancelSends(a) \/ CancelHolds(a) \/ Environment(a)
    <3>1. Quiet
      BY <2>2, RestoreFailsQuiet, RetireQuiet, OperatorQuiet, EnvironmentQuiet
    <3> QED BY <3>1, QuietMoves
  <2> QED BY <2>1, <2>2 DEF Operator
<1> QED BY <1>2, <1>4, <1>5 DEF Keeps

LEMMA RestartKeeps ==
  ASSUME Typed, Departed, Safekept, Owned, (\E a \in Agents : RestartLocks(a)) \/ IdleRestart \/ Crash
  PROVE  Keeps
<1>1. QueuedOnce
  BY DEF Safekept
<1>2. Typed' /\ Stable
  BY <1>1, RestartLocksTyped, RestartScansTyped, RestartChecksTyped, RestartClosesTyped,
     RestartLaunchesTyped, RestartHandsOverTyped, HandOverFailsTyped, CrashTyped
     DEF IdleRestart
<1>3. Departed'
  <2>1. CASE IdleRestart
    BY <1>2, <2>1, RestartDeparted
  <2>2. CASE Crash \/ \E a \in Agents : RestartLocks(a)
    BY <2>2, BeginsDeparted, PromptDeliveryAssumption
  <2> QED BY <2>1, <2>2
<1>4. Safekept' /\ Owned' /\ Moves
  <2>1. CASE RestartHandsOver \/ HandOverFails
    BY <2>1, HandOverKeeps
  <2>2. CASE \/ RestartScans \/ RestartChecks \/ RestartCloses \/ RestartLaunches
             \/ Crash \/ \E a \in Agents : RestartLocks(a)
    <3>1. Quiet
      BY <2>2, RestartQuiet, OperatorQuiet, CrashQuiet
    <3> QED BY <3>1, QuietMoves
  <2> QED BY <2>1, <2>2 DEF IdleRestart
<1> QED BY <1>2, <1>3, <1>4 DEF Keeps

LEMMA InductiveParts ==
  Inductive <=> ScenarioOK /\ Typed /\ Departed /\ Safekept /\ Owned
  BY TypedParts DEF Inductive, Safekept

LEMMA InitHolds == Init => Inductive
<1> SUFFICES ASSUME Init  PROVE Inductive
  OBVIOUS
<1> USE PromptDeliveryAssumption DEF Init
<1>1. ScenarioOK
  <2>1. PICK s \in Scenarios : adapter = s.adapter /\ happens = s.happens
    OBVIOUS
  <2>2. s \in [adapter : {"native", "reported"}, happens : SUBSET Events]
    OBVIOUS
  <2>3. [adapter |-> adapter, happens |-> happens] = s
    BY <2>1, <2>2
  <2> QED BY <2>3 DEF ScenarioOK
<1>2. Typed
  <2>1. StoreOK
    BY DEF StoreOK
  <2>2. MemoryOK
    BY DEF MemoryOK, NoPhase, Phase, Phases, PhaseState
  <2>3. SendersOK
    BY DEF SendersOK, Idle, Jobs, Unsent, Submits, Sending
  <2>4. ObserversOK
    BY DEF ObserversOK, NotObserving, Observations, NoPhase, Phase, Phases, PhaseState
  <2>5. RestartOK
    BY DEF RestartOK, NoRestart, Restarts
  <2>6. WorldOK
    BY DEF WorldOK, Pane, Panes
  <2>7. RestOK
    BY DEF RestOK
  <2> QED BY <2>1, <2>2, <2>3, <2>4, <2>5, <2>6, <2>7 DEF Typed
<1>3. Departed
  BY DEF Departed, NoRestart
<1>4. \A a \in Agents : Queued(a) = {}
  BY EmptyLemma DEF Queued
<1>5. \A p \in Prompts : Places(p) = {}
  BY <1>4, PlacesLemma
<1>6. Safekept
  <2>1. QueuedOnce
    BY <1>4 DEF QueuedOnce
  <2>2. Kept
    BY <1>5 DEF Kept, Unsent, Idle, Sending
  <2>3. ConfirmedFirst
    BY DEF ConfirmedFirst, Idle
  <2> QED BY <2>1, <2>2, <2>3 DEF Safekept
<1>7. Owned
  <2>1. \A a \in Agents : pane[a].composer = << >>
    BY DEF Pane
  <2>2. \A a \in Agents : Elements(pane[a].composer) = {}
    BY <2>1, EmptyLemma
  <2> QED BY <1>4, <2>2 DEF Owned, Idle, Sending
<1> QED BY <1>1, <1>2, <1>3, <1>6, <1>7, InductiveParts

LEMMA NextKeeps ==
  ASSUME Inductive, Next
  PROVE  Inductive' /\ Moves
<1>1. ScenarioOK'
  BY InductiveParts DEF Next, ScenarioOK
<1>2. Keeps
  BY InductiveParts, SubmissionKeeps, JobKeeps, ObservationKeeps, AgentKeeps, RestartKeeps DEF Next
<1>3. Typed' /\ Departed' /\ Safekept' /\ Owned' /\ Moves
  BY <1>2 DEF Keeps
<1>4. TypeOK' /\ Named'
  BY <1>1, <1>3
     DEF Typed, ScenarioOK, StoreOK, MemoryOK, SendersOK, ObserversOK, RestartOK, WorldOK,
         RestOK, TypeOK, Named
<1> QED BY <1>1, <1>3, <1>4 DEF Inductive, Safekept

LEMMA StepHolds ==
  ASSUME Inductive, [Next]_vars
  PROVE  Inductive' /\ Moves
<1>1. CASE UNCHANGED vars
  <2>1. \A p : Places(p)' = Places(p)
    BY <1>1, SamePlaces DEF vars, moving, store, told
  <2>2. UNCHANGED <<adapter, happens, store, memory, actors, world, told, bounds>>
    BY <1>1 DEF vars, moving
  <2>3. TypeOK' /\ Named'
    BY <2>2 DEF Inductive, TypeOK, Named, store, memory, actors, world, told, bounds
  <2>4. QueuedOnce' /\ Kept' /\ ConfirmedFirst'
    BY <2>1, <2>2 DEF Inductive, QueuedOnce, Kept, ConfirmedFirst, Queued, store, actors, told
  <2>5. Departed' /\ Owned'
    BY <2>2 DEF Inductive, Departed, Owned, Queued, store, actors, world
  <2> QED BY <2>1, <2>3, <2>4, <2>5 DEF Moves, Inductive
<1> QED BY <1>1, NextKeeps

(* Every reachable state of the delivery satisfies the inductive            *)
(* invariant: types, names, departures, single queueing, custody,           *)
(* confirmation and ownership.                                              *)
THEOREM InvariantHolds == Spec => []Inductive
<1>1. Inductive /\ [Next]_vars => Inductive'
  BY StepHolds
<1> QED BY InitHolds, <1>1, PTL DEF Spec

(* Every variable of the delivery keeps its type, whatever is submitted,    *)
(* dispatched, observed, restarted or lost.                                 *)
THEOREM TypeCorrect == Spec => []TypeOK
<1>1. Inductive => TypeOK
  BY DEF Inductive
<1> QED BY InvariantHolds, <1>1, PTL

(* An accepted prompt is queued once, confirmed, noted or removed, for any  *)
(* number of Agents, prompts, observers, crashes and failed writes:         *)
(* PromptService loses none and queues none twice.                          *)
THEOREM PromptsAccounted == Spec => []Accounted
<1>1. Inductive => Accounted
  BY DEF Inductive, Kept, Accounted
<1> QED BY InvariantHolds, <1>1, PTL

(* Every step of PromptService is a step of the custody protocol or none:   *)
(* a prompt leaves the durable queue only for a place it has already        *)
(* reached.                                                                 *)
THEOREM CustodyKept == Spec => KeepsCustody
<1>1. Init => Custody!Init
  <2> SUFFICES ASSUME Init  PROVE Custody!Init
    OBVIOUS
  <2>1. \A a \in Agents : Queued(a) = {}
    BY EmptyLemma DEF Init, Queued
  <2>2. \A p \in Prompts : Places(p) = {}
    BY <2>1, PlacesLemma DEF Init
  <2> QED BY <2>2 DEF Custody!Init
<1>2. Inductive /\ [Next]_vars => [Custody!Next]_[p \in Prompts |-> Places(p)]
  <2> SUFFICES ASSUME Inductive, [Next]_vars
               PROVE  Custody!Next \/ [p \in Prompts |-> Places(p)]' = [p \in Prompts |-> Places(p)]
    OBVIOUS
  <2>1. Moves
    BY StepHolds
  <2> QED BY <2>1 DEF Moves
<1> QED BY InvariantHolds, <1>1, <1>2, PTL DEF Spec, KeepsCustody, Custody!Spec
-----------------------------------------------------------------------------
(* Who takes a prompt                                                       *)

LEMMA TakenLemma ==
  ASSUME Typed, NEW a \in Agents, TakeComposer(a)
  PROVE  \A p \in Prompts :
           delivered'[p] = IF p \in Elements(pane[a].composer) THEN Append(delivered[p], a)
                           ELSE delivered[p]
  BY DEF TakeComposer

\* Only the keys of a dispatch make a pane take its composer, at once or late.
LEMMA OnlyKeysTake ==
  ASSUME Next
  PROVE  \/ UNCHANGED delivered
         \/ \E a \in Agents : (JobKeys(a) \/ JobRetry(a) \/ TerminalTakes(a)) /\ TakeComposer(a)
<1>1. ASSUME NEW p \in Prompts, Submission(p)  PROVE UNCHANGED delivered
  BY <1>1 DEF Submission, Submit, SubmitRevives, SubmitDecide, SubmitEnqueue, SubmitRefused, world
<1>2. ASSUME NEW a \in Agents, Job(a), ~ JobKeys(a), ~ JobRetry(a)  PROVE UNCHANGED delivered
  BY <1>2 DEF Job, JobNext, JobPaste, JobPasteFails, JobVerify, JobUnverified, JobAccept,
              JobUnaccepted, JobRecord, JobBoundary, JobRemove, JobHold, JobFail,
              DrainNote, DrainFails, DrainEnds, ExternalBoundary, world
<1>3. ASSUME NEW a \in Agents, JobKeys(a) \/ JobRetry(a) \/ TerminalTakes(a)
      PROVE  UNCHANGED delivered \/ TakeComposer(a)
  BY <1>3 DEF JobKeys, JobRetry, Presses, TerminalTakes
<1>4. ASSUME NEW a \in Agents,
             Restore(a) \/ RestoreFails(a) \/ Retire(a) \/ Operator(a) \/ RestartLocks(a) \/ Environment(a),
             ~ TerminalTakes(a)
      PROVE  UNCHANGED delivered
  BY <1>4 DEF Restore, RestoreFails, Retire, Operator, CancelSends, CancelHolds, Remove, Save,
              RestartLocks, Environment, TurnEnds, AttentionChanges, PaneDies, world
<1>5. ASSUME NEW o \in Observers, Observation(o) \/ \E a \in Agents : Observe(o, a)
      PROVE  UNCHANGED delivered
  BY <1>5 DEF Observation, Observe, ObserveLooks, TurnlessStarts, TurnlessEnds, TurnlessWaits,
              ObserveMarks, ObserveAdopts, ObserveSettles, SettleWaits, ObserveHolds,
              ObserveClears, ObserveReleases, AnswerPending, AnswerCompletes, AnswerFails,
              AnswerIsReset, world
<1>6. IdleRestart \/ Crash => UNCHANGED delivered
  BY DEF IdleRestart, RestartScans, RestartChecks, RestartCloses, RestartLaunches,
         RestartHandsOver, HandOverFails, Crash, world
<1> QED BY <1>1, <1>2, <1>3, <1>4, <1>5, <1>6 DEF Next

(* A terminal takes a prompt only for the Agent that the prompt was sent    *)
(* to, or was handed over to.                                               *)
THEOREM OwnAgents == Spec => OwnAgentOnly
<1>1. ASSUME Inductive, Next, NEW p \in Prompts, delivered'[p] # delivered[p]
      PROVE  delivered'[p] = Append(delivered[p], submits[p].agent)
  <2>1. PICK a \in Agents : TakeComposer(a)
    BY <1>1, OnlyKeysTake
  <2>2. p \in Elements(pane[a].composer) /\ delivered'[p] = Append(delivered[p], a)
    BY <1>1, <2>1, TakenLemma, InductiveParts
  <2>3. submits[p].agent = a
    BY <1>1, <2>2 DEF Inductive, Owned
  <2> QED BY <2>2, <2>3
<1>2. Inductive /\ [Next]_vars
        => [\A p \in Prompts : delivered'[p] # delivered[p] =>
              delivered'[p] = Append(delivered[p], submits[p].agent)]_vars
  BY <1>1
<1> QED BY InvariantHolds, <1>2, PTL DEF Spec, OwnAgentOnly
=============================================================================
