---------------------------- MODULE ButtonActions ---------------------------
(***************************************************************************)
(* Configured buttons (button-actions/service.ts): a click starts a shell  *)
(* command or sends a prompt to the Agent of the Workspace, launching one  *)
(* if there is none.  Browsers repeat clicks they had no answer to, several *)
(* browsers click the same button, and polls, launches and submissions     *)
(* overlap at every await.                                                 *)
(*                                                                         *)
(* One Workspace.  An operation is named by the click that created it.     *)
(* The prompt service's view of a submitted prompt only moves forward.     *)
(***************************************************************************)
EXTENDS Naturals, FiniteSets

CONSTANTS
  MaxClicks,       \* bound on the calls of start(), numbered as they come
  Browsers,        \* controller sessions
  RequestIds,      \* what browsers name their requests
  PromptButtons, ShellButtons,
  NoClick

ASSUME ButtonsAssumption == MaxClicks \in Nat /\ NoClick \notin 1..MaxClicks

Clicks == 1..MaxClicks
Buttons == PromptButtons \union ShellButtons

VARIABLES
  click,           \* each call: who asks for what, and where it is
  starts,          \* the retry record of a browser's request id
  operation,       \* what the service knows of each operation
  active,          \* the operation in flight of each button
  request,         \* the submitted prompt, as the prompt service sees it
  polls,           \* operations whose status some caller waits to observe
  launch,          \* the shared launch of the Workspace
  agentHere,       \* discovery lists an Agent in the Workspace
  launched,        \* history: Agents that buttons launched
  shut             \* the service is closed

buttonVars == <<click, starts, operation, active, request, polls, launch, agentHere, launched, shut>>

NoOperation == [state |-> "none", at |-> "none", agent |-> FALSE]
NewClick == [at |-> "new", browser |-> NoClick, id |-> NoClick, button |-> NoClick]

Unfinished(o) == operation[o].state \in {"queued", "launching", "running"}
Retained(o) == operation[o].state \in {"queued", "launching", "running", "over"}

ClickSteps == {"new", "prepare", "refresh", "joined", "done", "refused"}
States == {"none", "queued", "launching", "running", "over", "pruned"}
ExecutionSteps == {"none", "shell", "launching", "launched", "submitting", "tracked", "end"}

Calls == [at : ClickSteps, browser : Browsers \union {NoClick}, id : RequestIds \union {NoClick},
          button : Buttons \union {NoClick}]
Operations == [state : States, at : ExecutionSteps, agent : BOOLEAN]

ButtonsTypeOK ==
  /\ click \in [Clicks -> Calls]
  /\ \A c \in Clicks : click[c].at # "new" =>
       click[c].browser \in Browsers /\ click[c].id \in RequestIds /\ click[c].button \in Buttons
  /\ operation \in [Clicks -> Operations]
  /\ request \in [Clicks -> {"none", "queued", "running", "over"}]
  /\ starts \in [Browsers \X RequestIds -> Clicks \union {NoClick}]
  /\ active \in [Buttons -> Clicks \union {NoClick}]
  /\ polls \subseteq Clicks /\ launch \in {"none", "looking", "starting"}
  /\ launched \in Nat /\ agentHere \in BOOLEAN /\ shut \in BOOLEAN

ButtonsInit ==
  /\ click = [c \in Clicks |-> NewClick]
  /\ starts = [k \in Browsers \X RequestIds |-> NoClick]
  /\ operation = [c \in Clicks |-> NoOperation]
  /\ active = [b \in Buttons |-> NoClick]
  /\ request = [c \in Clicks |-> "none"]
  /\ polls = {} /\ launch = "none" /\ launched = 0
  /\ agentHere \in BOOLEAN /\ shut = FALSE

key(c) == <<click[c].browser, click[c].id>>
button(o) == click[o].button

\* Mutant: the request is on record only once its operation is.
Reserve_Late(k, c) == UNCHANGED starts
\* start(): the retry identity is reserved before anything is awaited.
Reserve(k, c) == starts' = [starts EXCEPT ![k] = c]

\* start(): a known request is joined, if it asks for the same.
Start(c, s, id, b) ==
  LET prior == starts[<<s, id>>]
      at == IF prior = NoClick THEN "prepare"
            ELSE IF click[prior].button = b THEN "joined" ELSE "refused"
  IN
  /\ ~shut /\ click[c].at = "new" /\ (c > 1 => click[c - 1].at # "new")
  /\ click' = [click EXCEPT ![c] = [at |-> at, browser |-> s, id |-> id, button |-> b]]
  /\ IF prior = NoClick THEN Reserve(<<s, id>>, c) ELSE UNCHANGED starts
  /\ UNCHANGED <<operation, active, request, polls, launch, agentHere, launched, shut>>

\* A retry gets what the first call got.
Joined(c) ==
  /\ click[c].at = "joined"
  /\ \E p \in Clicks : p # c /\ key(p) = key(c) /\ click[p].at \in {"done", "refused"}
  /\ click' = [click EXCEPT ![c].at = "done"]
  /\ UNCHANGED <<starts, operation, active, request, polls, launch, agentHere, launched, shut>>

ForgetStart(c) == [starts EXCEPT ![key(c)] = IF @ = c THEN NoClick ELSE @]
Refused(c) ==
  /\ click' = [click EXCEPT ![c].at = "refused"]
  /\ starts' = ForgetStart(c)
  /\ UNCHANGED <<operation, active, request, polls, launch, agentHere, launched, shut>>

(* prepare() registers the operation and execute() runs to its first await:  *)
(* `agent` is whether discovery showed one when prepare() looked.            *)
Register(c, agent) ==
  LET at == CASE shut -> "end"
              [] ~shut /\ button(c) \in ShellButtons -> "shell"
              [] ~shut /\ button(c) \in PromptButtons /\ agent -> "submitting"
              [] OTHER -> "launching"
  IN
  /\ click' = [click EXCEPT ![c].at = "done"]
  /\ operation' = [operation EXCEPT ![c] =
       [state |-> CASE at = "end" -> "over" [] at = "shell" -> "running"
                    [] at = "launching" -> "launching" [] OTHER -> "queued",
        at |-> at, agent |-> agent]]
  /\ active' = IF shut THEN active ELSE [active EXCEPT ![button(c)] = c]
  /\ launch' = IF at = "launching" /\ launch = "none" THEN "looking" ELSE launch
  /\ UNCHANGED <<starts, request, polls, agentHere, launched, shut>>

(* prepare() after its lookups: a button in flight is first refreshed, which *)
(* is awaited.                                                               *)
Validate(c) ==
  /\ click[c].at = "prepare"
  /\ \/ Refused(c)
     \/ active[button(c)] = NoClick /\ Register(c, agentHere)
     \/ /\ active[button(c)] # NoClick
        /\ click' = [click EXCEPT ![c].at = "refresh"]
        /\ operation' = [operation EXCEPT ![c].agent = agentHere]
        /\ UNCHANGED <<starts, active, request, polls, launch, agentHere, launched, shut>>

\* Mutant: the click goes on although the button is still in flight.
Refreshed_NoSecondLook(c) ==
  /\ click[c].at = "refresh"
  /\ Register(c, operation[c].agent)
\* The second look, after the refresh; a browser recovers its own operation.
Refreshed(c) ==
  LET existing == active[button(c)] IN
  /\ click[c].at = "refresh"
  /\ \/ existing = NoClick /\ Register(c, operation[c].agent)
     \/ existing # NoClick /\ click[existing].browser # click[c].browser /\ Refused(c)
     \/ /\ existing # NoClick /\ click[existing].browser = click[c].browser
        /\ click' = [click EXCEPT ![c].at = "done"]
        /\ UNCHANGED <<starts, operation, active, request, polls, launch, agentHere, launched, shut>>

\* finish(): a terminal outcome releases the button, once.
OperationOver(o) == IF Unfinished(o) THEN [operation EXCEPT ![o].state = "over", ![o].at = "end"] ELSE operation
Released(o) == IF Unfinished(o) THEN [active EXCEPT ![button(o)] = NoClick] ELSE active
FinishOperation(o) ==
  /\ operation' = OperationOver(o) /\ active' = Released(o)
  /\ UNCHANGED <<click, starts, launch, agentHere, launched, shut>>

ShellEnds(o) ==
  operation[o].at = "shell" /\ FinishOperation(o) /\ UNCHANGED <<request, polls>>

\* Mutant: the Agents are not looked up again before a launch.
LaunchLooks_Not ==
  /\ launch = "looking"
  /\ launch' = "starting"
  /\ UNCHANGED <<click, starts, operation, active, request, polls, agentHere, launched, shut>>

\* Every operation that waits for the launch learns of its end.
LaunchEnds(found) ==
  /\ launch' = "none"
  /\ operation' = [o \in Clicks |->
       IF operation[o].at = "launching"
       THEN [operation[o] EXCEPT !.at = "launched", !.agent = found] ELSE operation[o]]
  /\ UNCHANGED <<click, starts, active, request, polls, shut>>
\* launchAtPlace: an Agent may have appeared since the click looked.
LaunchLooks ==
  /\ launch = "looking"
  /\ IF agentHere \/ shut THEN LaunchEnds(agentHere /\ ~shut) /\ UNCHANGED <<agentHere, launched>>
     ELSE /\ launch' = "starting"
          /\ UNCHANGED <<click, starts, operation, active, request, polls, agentHere, launched, shut>>
LaunchStarts ==
  /\ launch = "starting"
  /\ \/ LaunchEnds(FALSE) /\ UNCHANGED <<agentHere, launched>>
     \/ LaunchEnds(TRUE) /\ agentHere' = TRUE /\ launched' = launched + 1

\* execute() after the launch
AfterLaunch(o) ==
  /\ operation[o].at = "launched"
  /\ IF shut \/ ~Unfinished(o) \/ ~operation[o].agent
     THEN /\ operation' = [OperationOver(o) EXCEPT ![o].at = "end"] /\ active' = Released(o)
     ELSE operation' = [operation EXCEPT ![o].at = "submitting"] /\ UNCHANGED active
  /\ UNCHANGED <<click, starts, request, polls, launch, agentHere, launched, shut>>

\* execute() after submitTracked: a shut service takes no late result.
Submitted(o) ==
  /\ operation[o].at = "submitting"
  /\ \/ /\ Unfinished(o) /\ ~shut
        /\ operation' = [operation EXCEPT ![o].at = "tracked", ![o].state = "queued"]
        /\ request' = [request EXCEPT ![o] = "queued"] /\ UNCHANGED active
     \/ /\ operation' = [OperationOver(o) EXCEPT ![o].at = "end"] /\ active' = Released(o)
        /\ UNCHANGED request
  /\ UNCHANGED <<click, starts, polls, launch, agentHere, launched, shut>>

\* The Agent takes the prompt, or ends its turn.
PromptMoves(o) ==
  /\ \/ request[o] = "queued" /\ request' = [request EXCEPT ![o] = "running"]
     \/ request[o] \in {"queued", "running"} /\ request' = [request EXCEPT ![o] = "over"]
  /\ UNCHANGED <<click, starts, operation, active, polls, launch, agentHere, launched, shut>>

\* status() of a busy operation waits for an observation of its Agent, ...
Poll(o) ==
  /\ operation[o].at = "tracked" /\ Unfinished(o) /\ o \notin polls
  /\ polls' = polls \union {o}
  /\ UNCHANGED <<click, starts, operation, active, request, launch, agentHere, launched, shut>>
\* ... which may fail, and copies what the prompt service says, unlooked.
Polled(o) ==
  /\ o \in polls /\ polls' = polls \ {o}
  /\ \/ UNCHANGED <<click, starts, operation, active, launch, agentHere, launched, shut>>
     \/ request[o] = "over" /\ FinishOperation(o)
     \/ /\ request[o] # "over"
        /\ operation' = [operation EXCEPT ![o].state = request[o]]
        /\ UNCHANGED <<click, starts, active, launch, agentHere, launched, shut>>
  /\ UNCHANGED request

Close ==
  /\ ~shut /\ shut' = TRUE
  /\ operation' = [o \in Clicks |-> IF Unfinished(o) THEN [operation[o] EXCEPT !.state = "over"] ELSE operation[o]]
  /\ active' = [b \in Buttons |-> NoClick]
  /\ UNCHANGED <<click, starts, request, polls, launch, agentHere, launched>>

\* prune(), ten minutes after the outcome
Prune(o) ==
  /\ operation[o].state = "over"
  /\ operation' = [operation EXCEPT ![o].state = "pruned"]
  /\ starts' = ForgetStart(o)
  /\ UNCHANGED <<click, active, request, polls, launch, agentHere, launched, shut>>

ButtonsNext ==
  \/ \E c \in Clicks, s \in Browsers, id \in RequestIds, b \in Buttons : Start(c, s, id, b)
  \/ \E c \in Clicks : Joined(c) \/ Validate(c) \/ Refreshed(c)
  \/ \E o \in Clicks : \/ ShellEnds(o) \/ AfterLaunch(o) \/ Submitted(o)
                       \/ PromptMoves(o) \/ Poll(o) \/ Polled(o) \/ Prune(o)
  \/ LaunchLooks \/ LaunchStarts \/ Close

ButtonsAlone == ButtonsInit /\ [][ButtonsNext]_buttonVars

(* ------------------------------ properties ------------------------------- *)

(* While the service is open, the operation in flight of a button is the one *)
(* on record for it and no other: overlapping clicks, retries and polls      *)
(* neither run a button twice at a time nor leave it blocked by work that    *)
(* is over.  (A poll that resumes after close() writes over the outcome.)    *)
OneBusyPerButton ==
  ~shut => \A o \in Clicks :
     click[o].at # "new" => (Unfinished(o) <=> (active[button(o)] = o))

(* However often a browser repeats a request, at whatever point of the first *)
(* call, the service has at most one operation of it on record.              *)
RetryRunsOnce ==
  \A o, p \in Clicks : Retained(o) /\ Retained(p) /\ key(o) = key(p) => o = p

(* Buttons launch at most one Agent for the Workspace, and none where there  *)
(* is one, although a click decides to launch on a list that may be old.     *)
OneAgentPerPlace == launched <= 1
=============================================================================
