--------------------------- MODULE ServicesProofs ---------------------------
(***************************************************************************)
(* Theorems about four services of the console, each on its own: the        *)
(* configured buttons (ButtonsAlone), the viewport of a pane                *)
(* (ViewportAlone), the reviews of a Worktree (ReviewsAlone) and the        *)
(* schedule of a note (SchedulesAlone).  They share no state, so the module *)
(* has one part for each: its inductive invariant, a lemma for each action  *)
(* or kind of step, and its theorems.  The last part carries the theorems   *)
(* over to the services side by side (ServicesSpec).                        *)
(***************************************************************************)
EXTENDS Services, WellFoundedInduction, TLAPS

-----------------------------------------------------------------------------
(*                             Button actions                               *)

(* What an operation knows of itself: it belongs to a call that has been     *)
(* answered; the prompt service knows what is tracked; a poll outlives its   *)
(* operation only once the prompt is over; what is tracked is in flight      *)
(* until the service closes.                                                *)
AnsweredAt(o) ==
  /\ operation[o].at = "none" <=> operation[o].state = "none"
  /\ operation[o].at # "none" => click[o].at = "done"
  /\ operation[o].at = "none" => o \notin polls
  /\ operation[o].at = "tracked" => request[o] # "none"
  /\ o \in polls => operation[o].at = "tracked" \/ request[o] = "over"
  /\ ~shut /\ operation[o].at = "tracked" => Unfinished(o)
Answered == \A o \in Clicks : AnsweredAt(o)

(* A button is only held by an answered call for it.                        *)
Held ==
  \A b \in Buttons : active[b] # NoClick =>
    click[active[b]].at = "done" /\ button(active[b]) = b

(* A call has a claim on its request from its start until its operation is   *)
(* pruned, and also as long as a poll may write over the outcome.            *)
Claims(o) ==
  \/ click[o].at \in {"prepare", "refresh"}
  \/ Retained(o)
  \/ o \in polls /\ request[o] # "over"
Recorded == ~shut => \A o \in Clicks : Claims(o) => starts[key(o)] = o
Sole == \A o, p \in Clicks : Claims(o) /\ Claims(p) /\ key(o) = key(p) => o = p

(* An Agent that a button launched is there, and a launch is only under way  *)
(* where there is none.                                                     *)
Launches ==
  /\ launched <= 1
  /\ launched = 1 => agentHere
  /\ launch = "starting" => ~agentHere

ButtonsInv ==
  /\ ButtonsTypeOK /\ Answered /\ Held /\ OneBusyPerButton /\ Recorded /\ Sole /\ Launches
-----------------------------------------------------------------------------
LEMMA ButtonsStart == ButtonsInit => ButtonsInv
<1> SUFFICES ASSUME ButtonsInit PROVE ButtonsInv
  OBVIOUS
<1> USE ButtonsAssumption DEF ButtonsInit, NewClick, NoOperation
<1>1. ButtonsTypeOK
  BY DEF ButtonsTypeOK, Calls, Operations, ClickSteps, States, ExecutionSteps
<1>2. Answered /\ Held /\ Launches /\ OneBusyPerButton
  BY DEF Answered, AnsweredAt, Held, Launches, Unfinished, OneBusyPerButton
<1>3. \A o \in Clicks : ~Claims(o)
  BY DEF Claims, Retained
<1> QED  BY <1>1, <1>2, <1>3 DEF ButtonsInv, Recorded, Sole

(* ---------------------- what the shared steps change --------------------- *)

LEMMA EndsLemma ==
  ASSUME ButtonsTypeOK, NEW o \in Clicks, button(o) \in Buttons,
         operation' \in {OperationOver(o), [OperationOver(o) EXCEPT ![o].at = "end"]},
         active' = Released(o)
  PROVE  /\ operation' \in [Clicks -> Operations]
         /\ active' \in [Buttons -> Clicks \union {NoClick}]
         /\ \A p \in Clicks : p # o => operation'[p] = operation[p]
         /\ Unfinished(o) => operation'[o].state = "over" /\ operation'[o].at = "end"
         /\ ~Unfinished(o) => /\ operation'[o].state = operation[o].state
                             /\ operation'[o].at \in {operation[o].at, "end"}
         /\ \A b \in Buttons :
              active'[b] = IF Unfinished(o) /\ b = button(o) THEN NoClick ELSE active[b]
<1> DEFINE op == operation[o]
           over == [op EXCEPT !.state = "over", !.at = "end"]
           closed == [op EXCEPT !.at = "end"]
<1>1. /\ op \in Operations /\ over \in Operations /\ closed \in Operations
      /\ over.state = "over" /\ over.at = "end"
      /\ closed.state = op.state /\ closed.at = "end"
      /\ [over EXCEPT !.at = "end"] = over
  BY DEF ButtonsTypeOK, Operations, States, ExecutionSteps
<1>2. operation \in [Clicks -> Operations] /\ active \in [Buttons -> Clicks \union {NoClick}]
  BY DEF ButtonsTypeOK
<1>3. CASE Unfinished(o)
  <2>1. OperationOver(o) = [operation EXCEPT ![o] = over]
    BY <1>2, <1>3 DEF OperationOver
  <2>2. operation' = [operation EXCEPT ![o] = over]
    <3> HIDE DEF over
    <3>1. [[operation EXCEPT ![o] = over] EXCEPT ![o].at = "end"] = [operation EXCEPT ![o] = over]
      BY <1>1, <1>2
    <3> QED  BY <2>1, <3>1
  <2>3. active' = [active EXCEPT ![button(o)] = NoClick]
    BY <1>3 DEF Released
  <2> HIDE DEF over, closed, op
  <2> QED  BY <1>1, <1>2, <1>3, <2>2, <2>3
<1>4. CASE ~Unfinished(o)
  <2>1. OperationOver(o) = operation /\ active' = active
    BY <1>4 DEF OperationOver, Released
  <2>2. operation' \in {operation, [operation EXCEPT ![o] = closed]}
    BY <1>2, <2>1
  <2>3. op = operation[o]
    OBVIOUS
  <2> HIDE DEF over, closed, op
  <2> QED  BY <1>1, <1>2, <1>4, <2>1, <2>2, <2>3
<1> QED  BY <1>3, <1>4

LEMMA LaunchEndsLemma ==
  ASSUME ButtonsTypeOK, NEW found \in BOOLEAN, LaunchEnds(found)
  PROVE  /\ operation' \in [Clicks -> Operations]
         /\ \A o \in Clicks :
              /\ operation'[o].state = operation[o].state
              /\ operation'[o].at = IF operation[o].at = "launching" THEN "launched"
                                    ELSE operation[o].at
<1>1. operation \in [Clicks -> Operations]
  BY DEF ButtonsTypeOK
<1>2. operation' = [o \in Clicks |-> IF operation[o].at = "launching"
                     THEN [operation[o] EXCEPT !.at = "launched", !.agent = found] ELSE operation[o]]
  BY DEF LaunchEnds
<1>3. ASSUME NEW o \in Clicks
      PROVE  LET new == [operation[o] EXCEPT !.at = "launched", !.agent = found]
             IN  new \in Operations /\ new.state = operation[o].state /\ new.at = "launched"
  <2>1. operation[o] \in Operations
    BY <1>1
  <2> QED  BY <2>1 DEF Operations, ExecutionSteps
<1> QED  BY <1>1, <1>2, <1>3

LEMMA RegisterLemma ==
  ASSUME ButtonsTypeOK, NEW c \in Clicks, button(c) \in Buttons, NEW agent \in BOOLEAN,
         Register(c, agent)
  PROVE  /\ click' \in [Clicks -> Calls] /\ operation' \in [Clicks -> Operations]
         /\ active' \in [Buttons -> Clicks \union {NoClick}]
         /\ \A p \in Clicks : p # c => operation'[p] = operation[p] /\ click'[p] = click[p]
         /\ click'[c] = [click[c] EXCEPT !.at = "done"]
         /\ operation'[c].at \in {"end", "shell", "submitting", "launching"}
         /\ shut => operation'[c].state = "over" /\ active' = active
         /\ ~shut => operation'[c].state \in {"queued", "launching", "running"}
         /\ ~shut => active' = [active EXCEPT ![button(c)] = c]
         /\ launch' \in {launch, "looking"}
         /\ UNCHANGED <<starts, request, polls, agentHere, launched, shut>>
<1> DEFINE at == CASE shut -> "end"
              [] ~shut /\ button(c) \in ShellButtons -> "shell"
              [] ~shut /\ button(c) \in PromptButtons /\ agent -> "submitting"
              [] OTHER -> "launching"
           state == CASE at = "end" -> "over" [] at = "shell" -> "running"
                    [] at = "launching" -> "launching" [] OTHER -> "queued"
           new == [state |-> state, at |-> at, agent |-> agent]
           call == [click[c] EXCEPT !.at = "done"]
<1>1. at = "end" <=> shut
  OBVIOUS
<1>2. at \in {"end", "shell", "submitting", "launching"}
  OBVIOUS
<1>3. /\ operation' = [operation EXCEPT ![c] = new]
      /\ active' = IF shut THEN active ELSE [active EXCEPT ![button(c)] = c]
      /\ launch' = IF at = "launching" /\ launch = "none" THEN "looking" ELSE launch
      /\ click' = [click EXCEPT ![c].at = "done"]
      /\ UNCHANGED <<starts, request, polls, agentHere, launched, shut>>
  BY DEF Register
<1> HIDE DEF at
<1>4. /\ state \in {"over", "running", "launching", "queued"}
      /\ state = "over" <=> shut
  BY <1>1, <1>2
<1> HIDE DEF state
<1>5. new \in Operations /\ new.state = state /\ new.at = at
  BY <1>2, <1>4 DEF Operations, States, ExecutionSteps
<1>6. /\ click \in [Clicks -> Calls] /\ operation \in [Clicks -> Operations]
      /\ active \in [Buttons -> Clicks \union {NoClick}]
  BY DEF ButtonsTypeOK
<1>7. call \in Calls
  <2>1. click[c] \in Calls
    BY <1>6
  <2> QED  BY <2>1 DEF Calls, ClickSteps
<1>8. click' = [click EXCEPT ![c] = call]
  BY <1>3, <1>6
<1>9. /\ click'[c] = call /\ click' \in [Clicks -> Calls]
      /\ \A p \in Clicks : p # c => click'[p] = click[p]
  BY <1>6, <1>7, <1>8
<1>10. /\ operation'[c] = new /\ operation' \in [Clicks -> Operations]
       /\ \A p \in Clicks : p # c => operation'[p] = operation[p]
  <2> HIDE DEF new
  <2> QED  BY <1>3, <1>5, <1>6
<1> HIDE DEF new
<1> QED  BY <1>2, <1>3, <1>4, <1>5, <1>6, <1>9, <1>10

(* ---------------------- one call or operation moves ---------------------- *)

(* What a step of another call or operation leaves alone                    *)
Keeps(p) ==
  /\ click'[p] = click[p] /\ request'[p] = request[p]
  /\ operation'[p].state = operation[p].state /\ operation'[p].at = operation[p].at
  /\ p \in polls' <=> p \in polls

LEMMA KeepsLemma ==
  ASSUME NEW p \in Clicks, Keeps(p)
  PROVE  /\ Unfinished(p)' <=> Unfinished(p)
         /\ Claims(p)' <=> Claims(p)
         /\ key(p)' = key(p) /\ button(p)' = button(p)
         /\ shut' = shut /\ AnsweredAt(p) => AnsweredAt(p)'
BY DEF Keeps, Unfinished, Claims, Retained, key, button, AnsweredAt

LEMMA AnsweredFrame ==
  ASSUME Answered, NEW o \in Clicks, \A p \in Clicks : p # o => Keeps(p),
         shut' = shut, AnsweredAt(o)'
  PROVE  Answered'
<1> SUFFICES ASSUME NEW p \in Clicks PROVE AnsweredAt(p)'
  BY DEF Answered
<1>1. CASE p = o
  BY <1>1
<1>2. CASE p # o
  BY <1>2, KeepsLemma DEF Answered
<1> QED  BY <1>1, <1>2

(* A button is held as before, or given free.                               *)
LEMMA HeldFrame ==
  ASSUME ButtonsTypeOK, Held, \A b \in Buttons : active'[b] \in {active[b], NoClick},
         \A p \in Clicks : click[p].at = "done" => click'[p] = click[p]
  PROVE  Held'
<1> SUFFICES ASSUME NEW b \in Buttons, active'[b] # NoClick
             PROVE  click'[active'[b]].at = "done" /\ click'[active'[b]].button = b
  BY DEF Held, button
<1>1. active'[b] = active[b] /\ active[b] \in Clicks
  BY DEF ButtonsTypeOK
<1> QED  BY <1>1 DEF Held, button

LEMMA BusyFrame ==
  ASSUME OneBusyPerButton, active' = active, shut' = shut,
         \A p \in Clicks : click'[p].at # "new" =>
            /\ click[p].at # "new" /\ button(p)' = button(p)
            /\ Unfinished(p)' <=> Unfinished(p)
  PROVE  OneBusyPerButton'
BY DEF OneBusyPerButton

LEMMA ClaimsFrame ==
  ASSUME Recorded, Sole, shut => shut',
         \A p \in Clicks : Claims(p)' =>
            /\ Claims(p) /\ key(p)' = key(p)
            /\ ~shut' => starts'[key(p)] = starts[key(p)]
  PROVE  Recorded' /\ Sole'
<1>1. Recorded'
  BY DEF Recorded
<1>2. Sole'
  BY DEF Sole
<1> QED  BY <1>1, <1>2

LEMMA ClaimsLemma ==
  ASSUME ButtonsTypeOK, Answered, NEW p \in Clicks, Claims(p)
  PROVE  click[p].at # "new" /\ key(p) \in Browsers \X RequestIds
<1>1. click[p].at # "new"
  BY DEF Answered, AnsweredAt, Claims, Retained
<1> QED  BY <1>1 DEF ButtonsTypeOK, key

(* A record is only forgotten by the call that it names.                    *)
LEMMA ForgetLemma ==
  ASSUME ButtonsTypeOK, Recorded, ~shut, NEW c \in Clicks, key(c) \in Browsers \X RequestIds,
         NEW p \in Clicks, p # c, Claims(p)
  PROVE  ForgetStart(c)[key(p)] = starts[key(p)]
<1>1. starts[key(p)] = p
  BY DEF Recorded
<1>2. starts \in [Browsers \X RequestIds -> Clicks \union {NoClick}]
  BY DEF ButtonsTypeOK
<1>3. CASE key(p) = key(c)
  BY <1>1, <1>2, <1>3 DEF ForgetStart
<1>4. CASE key(p) # key(c)
  BY <1>2, <1>4 DEF ForgetStart
<1> QED  BY <1>3, <1>4

LEMMA ForgetTyped ==
  ASSUME ButtonsTypeOK, NEW c \in Clicks
  PROVE  ForgetStart(c) \in [Browsers \X RequestIds -> Clicks \union {NoClick}]
BY DEF ButtonsTypeOK, ForgetStart

(* ------------------------------- each step ------------------------------- *)

LEMMA StartKeeps ==
  ASSUME ButtonsInv, NEW c \in Clicks, NEW s \in Browsers, NEW id \in RequestIds,
         NEW b \in Buttons, Start(c, s, id, b)
  PROVE  ButtonsInv'
<1> DEFINE prior == starts[<<s, id>>]
           at == IF prior = NoClick THEN "prepare"
                 ELSE IF click[prior].button = b THEN "joined" ELSE "refused"
           new == [at |-> at, browser |-> s, id |-> id, button |-> b]
<1>1. /\ ~shut /\ click[c].at = "new" /\ click' = [click EXCEPT ![c] = new]
      /\ IF prior = NoClick THEN starts' = [starts EXCEPT ![<<s, id>>] = c] ELSE UNCHANGED starts
      /\ UNCHANGED <<operation, active, request, polls, launch, agentHere, launched, shut>>
  BY DEF Start, Reserve
<1>2. /\ at \in {"prepare", "joined", "refused"}
      /\ at = "prepare" <=> prior = NoClick
  OBVIOUS
<1>3. /\ ButtonsTypeOK /\ Answered /\ Held /\ OneBusyPerButton /\ Recorded /\ Sole /\ Launches
      /\ click \in [Clicks -> Calls]
  BY DEF ButtonsInv, ButtonsTypeOK
<1> HIDE DEF at
<1>4. /\ new \in Calls /\ new.at = at /\ new.browser = s /\ new.id = id /\ new.button = b
  BY <1>2 DEF Calls, ClickSteps
<1> HIDE DEF new
<1>5. /\ click' \in [Clicks -> Calls] /\ click'[c] = new
      /\ \A p \in Clicks : p # c => click'[p] = click[p]
  BY <1>1, <1>3, <1>4
<1>6. \A p \in Clicks : p # c => Keeps(p)
  BY <1>1, <1>5 DEF Keeps
<1>7. /\ operation[c].at = "none" /\ operation[c].state = "none" /\ c \notin polls
      /\ ~Claims(c)
  BY <1>1, <1>3 DEF Answered, AnsweredAt, Claims, Retained
<1>8. ButtonsTypeOK'
  <2>1. starts' \in [Browsers \X RequestIds -> Clicks \union {NoClick}]
    BY <1>1, <1>3 DEF ButtonsTypeOK
  <2>2. \A p \in Clicks : click'[p].at # "new" =>
          click'[p].browser \in Browsers /\ click'[p].id \in RequestIds /\ click'[p].button \in Buttons
    BY <1>3, <1>4, <1>5 DEF ButtonsTypeOK
  <2> QED  BY <1>1, <1>3, <1>5, <2>1, <2>2 DEF ButtonsTypeOK
<1>9. Answered'
  <2>1. AnsweredAt(c)'
    BY <1>1, <1>7 DEF AnsweredAt
  <2> QED  BY <1>1, <1>3, <1>6, <2>1, AnsweredFrame
<1>10. Held'
  <2>1. \A p \in Clicks : click[p].at = "done" => click'[p] = click[p]
    BY <1>1, <1>5
  <2>2. \A d \in Buttons : active'[d] \in {active[d], NoClick}
    BY <1>1
  <2> QED  BY <1>3, <2>1, <2>2, HeldFrame
<1>11. OneBusyPerButton'
  <2> SUFFICES ASSUME NEW p \in Clicks, click'[p].at # "new"
               PROVE  Unfinished(p)' <=> active'[button(p)'] = p
    BY DEF OneBusyPerButton
  <2>1. CASE p # c
    <3>1. click[p].at # "new" /\ button(p)' = button(p) /\ (Unfinished(p)' <=> Unfinished(p))
      BY <1>5, <1>6, <2>1, KeepsLemma
    <3> QED  BY <1>1, <1>3, <3>1 DEF OneBusyPerButton
  <2>2. CASE p = c
    <3>1. ~Unfinished(c)'
      BY <1>1, <1>7 DEF Unfinished
    <3>2. \A d \in Buttons : active[d] # c
      BY <1>1, <1>3, ButtonsAssumption DEF Held, Clicks
    <3>3. button(c)' \in Buttons
      BY <1>4, <1>5 DEF button
    <3> QED  BY <1>1, <2>2, <3>1, <3>2, <3>3
  <2> QED  BY <2>1, <2>2
<1>12. Recorded'
  <2> SUFFICES ASSUME NEW p \in Clicks, Claims(p)' PROVE starts'[key(p)'] = p
    BY DEF Recorded
  <2>1. CASE p = c
    <3>1. at = "prepare"
      BY <1>1, <1>2, <1>4, <1>5, <1>7, <2>1 DEF Claims, Retained
    <3>2. key(c)' = <<s, id>>
      BY <1>4, <1>5 DEF key
    <3> QED  BY <1>1, <1>2, <1>3, <2>1, <3>1, <3>2 DEF ButtonsTypeOK
  <2>2. CASE p # c
    <3>1. Claims(p) /\ key(p)' = key(p)
      BY <1>6, <2>2, KeepsLemma
    <3>2. starts[key(p)] = p
      BY <1>1, <1>3, <3>1 DEF Recorded
    <3>3. prior = NoClick => key(p) # <<s, id>>
      BY <3>2, ButtonsAssumption DEF Clicks
    <3>4. key(p) \in Browsers \X RequestIds
      BY <1>3, <3>1, ClaimsLemma
    <3>5. starts'[key(p)] = starts[key(p)]
      BY <1>1, <1>3, <3>3, <3>4 DEF ButtonsTypeOK
    <3> QED  BY <3>1, <3>2, <3>5
  <2> QED  BY <2>1, <2>2
<1>13. Sole'
  <2>1. ~shut'
    BY <1>1
  <2> QED  BY <1>12, <2>1 DEF Recorded, Sole
<1>14. Launches'
  BY <1>1, <1>3 DEF Launches
<1> QED  BY <1>8, <1>9, <1>10, <1>11, <1>12, <1>13, <1>14 DEF ButtonsInv


(* Only a call moves: it is answered, refused, or waits for a refresh.       *)
LEMMA AsksKeeps ==
  ASSUME ButtonsInv, NEW c \in Clicks, NEW at \in {"refresh", "done", "refused"},
         click[c].at \in {"joined", "prepare", "refresh"},
         at = "refresh" => click[c].at = "prepare",
         click' = [click EXCEPT ![c].at = at],
         starts' \in {starts, ForgetStart(c)}, at # "refused" => starts' = starts,
         operation' \in [Clicks -> Operations],
         \A p \in Clicks : /\ operation'[p].state = operation[p].state
                           /\ operation'[p].at = operation[p].at,
         UNCHANGED <<active, request, polls, launch, agentHere, launched, shut>>
  PROVE  ButtonsInv'
<1> DEFINE new == [click[c] EXCEPT !.at = at]
<1>1. /\ ButtonsTypeOK /\ Answered /\ Held /\ OneBusyPerButton /\ Recorded /\ Sole /\ Launches
      /\ click \in [Clicks -> Calls] /\ click[c] \in Calls
  BY DEF ButtonsInv, ButtonsTypeOK
<1>2. /\ new \in Calls /\ new.at = at /\ new.browser = click[c].browser /\ new.id = click[c].id
      /\ new.button = click[c].button
  BY <1>1 DEF Calls, ClickSteps
<1>3. click' = [click EXCEPT ![c] = new]
  BY <1>1
<1> HIDE DEF new
<1>4. /\ click' \in [Clicks -> Calls] /\ click'[c] = new
      /\ \A p \in Clicks : p # c => click'[p] = click[p]
  BY <1>1, <1>2, <1>3
<1>5. \A p \in Clicks : p # c => Keeps(p)
  BY <1>4 DEF Keeps
<1>6. /\ operation[c].at = "none" /\ operation[c].state = "none" /\ c \notin polls
      /\ key(c) \in Browsers \X RequestIds /\ key(c)' = key(c) /\ button(c)' = button(c)
      /\ click[c].at # "new"
  BY <1>1, <1>2, <1>4 DEF Answered, AnsweredAt, ButtonsTypeOK, key, button
<1>7. ~Claims(c)' \/ at = "refresh"
  BY <1>2, <1>4, <1>6 DEF Claims, Retained
<1>8. ButtonsTypeOK'
  <2>1. \A p \in Clicks : click'[p].at # "new" =>
          click'[p].browser \in Browsers /\ click'[p].id \in RequestIds /\ click'[p].button \in Buttons
    BY <1>1, <1>2, <1>4, <1>6 DEF ButtonsTypeOK
  <2>2. starts' \in [Browsers \X RequestIds -> Clicks \union {NoClick}]
    BY <1>1, ForgetTyped DEF ButtonsTypeOK
  <2> QED  BY <1>1, <1>4, <2>1, <2>2 DEF ButtonsTypeOK
<1>9. Answered'
  <2>1. AnsweredAt(c)'
    BY <1>6 DEF AnsweredAt
  <2> QED  BY <1>1, <1>5, <2>1, AnsweredFrame
<1>10. Held'
  <2>1. \A p \in Clicks : click[p].at = "done" => click'[p] = click[p]
    BY <1>4
  <2> QED  BY <1>1, <2>1, HeldFrame
<1>11. OneBusyPerButton'
  <2>1. \A p \in Clicks : click'[p].at # "new" =>
            /\ click[p].at # "new" /\ button(p)' = button(p)
            /\ Unfinished(p)' <=> Unfinished(p)
    BY <1>4, <1>6 DEF Unfinished, button
  <2> QED  BY <1>1, <2>1, BusyFrame
<1>12. Recorded' /\ Sole'
  <2> SUFFICES ASSUME NEW p \in Clicks, Claims(p)'
               PROVE  /\ Claims(p) /\ key(p)' = key(p)
                      /\ ~shut' => starts'[key(p)] = starts[key(p)]
    BY <1>1, ClaimsFrame
  <2>1. CASE p = c
    BY <1>6, <1>7, <2>1 DEF Claims
  <2>2. CASE p # c
    <3>1. Claims(p) /\ key(p)' = key(p)
      BY <1>5, <2>2, KeepsLemma
    <3> QED  BY <1>1, <1>6, <2>2, <3>1, ForgetLemma
  <2> QED  BY <2>1, <2>2
<1>13. Launches'
  BY <1>1 DEF Launches
<1> QED  BY <1>8, <1>9, <1>10, <1>11, <1>12, <1>13 DEF ButtonsInv

LEMMA RefusedKeeps ==
  ASSUME ButtonsInv, NEW c \in Clicks, click[c].at \in {"prepare", "refresh"}, Refused(c)
  PROVE  ButtonsInv'
<1>1. operation \in [Clicks -> Operations]
  BY DEF ButtonsInv, ButtonsTypeOK
<1> QED  BY <1>1, AsksKeeps DEF Refused

(* The operation of a call begins.                                          *)
LEMMA RegisterKeeps ==
  ASSUME ButtonsInv, NEW c \in Clicks, click[c].at \in {"prepare", "refresh"},
         active[button(c)] = NoClick, NEW agent \in BOOLEAN, Register(c, agent)
  PROVE  ButtonsInv'
<1>1. /\ ButtonsTypeOK /\ Answered /\ Held /\ OneBusyPerButton /\ Recorded /\ Sole /\ Launches
      /\ click \in [Clicks -> Calls] /\ click[c] \in Calls
  BY DEF ButtonsInv, ButtonsTypeOK
<1>2. button(c) \in Buttons /\ key(c) \in Browsers \X RequestIds
  BY <1>1 DEF ButtonsTypeOK, button, key
<1>3. /\ click' \in [Clicks -> Calls] /\ operation' \in [Clicks -> Operations]
      /\ active' \in [Buttons -> Clicks \union {NoClick}]
      /\ \A p \in Clicks : p # c => operation'[p] = operation[p] /\ click'[p] = click[p]
      /\ click'[c] = [click[c] EXCEPT !.at = "done"]
      /\ operation'[c].at \in {"end", "shell", "submitting", "launching"}
      /\ shut => operation'[c].state = "over" /\ active' = active
      /\ ~shut => operation'[c].state \in {"queued", "launching", "running"}
      /\ ~shut => active' = [active EXCEPT ![button(c)] = c]
      /\ launch' \in {launch, "looking"}
      /\ UNCHANGED <<starts, request, polls, agentHere, launched, shut>>
  BY <1>1, <1>2, RegisterLemma
<1>4. /\ click'[c].at = "done" /\ click'[c].browser = click[c].browser
      /\ click'[c].id = click[c].id /\ click'[c].button = click[c].button
  BY <1>1, <1>3 DEF Calls
<1>5. key(c)' = key(c) /\ button(c)' = button(c)
  BY <1>4 DEF key, button
<1>6. \A p \in Clicks : p # c => Keeps(p)
  BY <1>3 DEF Keeps
<1>7. operation[c].at = "none" /\ c \notin polls
  BY <1>1 DEF Answered, AnsweredAt
<1>8. ButtonsTypeOK'
  <2>1. \A p \in Clicks : click'[p].at # "new" =>
          click'[p].browser \in Browsers /\ click'[p].id \in RequestIds /\ click'[p].button \in Buttons
    BY <1>1, <1>3, <1>4 DEF ButtonsTypeOK
  <2> QED  BY <1>1, <1>3, <2>1 DEF ButtonsTypeOK
<1>9. Answered'
  <2>1. AnsweredAt(c)'
    BY <1>3, <1>4, <1>7 DEF AnsweredAt
  <2> QED  BY <1>1, <1>3, <1>6, <2>1, AnsweredFrame
<1>10. Held'
  <2>1. CASE shut
    <3>1. \A p \in Clicks : click[p].at = "done" => click'[p] = click[p]
      BY <1>3
    <3> QED  BY <1>1, <1>3, <2>1, <3>1, HeldFrame
  <2>2. CASE ~shut
    <3> SUFFICES ASSUME NEW b \in Buttons, active'[b] # NoClick
                 PROVE  click'[active'[b]].at = "done" /\ click'[active'[b]].button = b
      BY DEF Held, button
    <3>1. CASE b = button(c)
      BY <1>1, <1>2, <1>3, <1>4, <2>2, <3>1 DEF ButtonsTypeOK, button
    <3>2. CASE b # button(c)
      <4>1. active'[b] = active[b] /\ active[b] \in Clicks /\ active[b] # NoClick
        BY <1>1, <1>3, <2>2, <3>2 DEF ButtonsTypeOK
      <4>2. click[active[b]].at = "done" /\ click[active[b]].button = b
        BY <1>1, <4>1 DEF Held, button
      <4> QED  BY <1>3, <4>1, <4>2
    <3> QED  BY <3>1, <3>2
  <2> QED  BY <2>1, <2>2
<1>11. OneBusyPerButton'
  <2> SUFFICES ASSUME ~shut', NEW p \in Clicks, click'[p].at # "new"
               PROVE  Unfinished(p)' <=> active'[button(p)'] = p
    BY DEF OneBusyPerButton
  <2>1. ~shut /\ active' = [active EXCEPT ![button(c)] = c] /\ active \in [Buttons -> Clicks \union {NoClick}]
    BY <1>1, <1>3 DEF ButtonsTypeOK
  <2>2. CASE p = c
    BY <1>2, <1>3, <1>5, <2>1, <2>2 DEF Unfinished
  <2>3. CASE p # c
    <3>1. /\ click[p].at # "new" /\ button(p)' = button(p) /\ (Unfinished(p)' <=> Unfinished(p))
      BY <1>3, <1>6, <2>3, KeepsLemma
    <3>2. Unfinished(p) <=> active[button(p)] = p
      BY <1>1, <2>1, <3>1 DEF OneBusyPerButton
    <3>3. button(p) \in Buttons /\ p # NoClick
      BY <1>1, <3>1, ButtonsAssumption DEF ButtonsTypeOK, button, Clicks
    <3>4. active'[button(p)] = IF button(p) = button(c) THEN c ELSE active[button(p)]
      BY <2>1, <3>3
    <3> QED  BY <2>3, <3>1, <3>2, <3>3, <3>4
  <2> QED  BY <2>2, <2>3
<1>12. Recorded' /\ Sole'
  <2>1. Claims(c)
    BY DEF Claims
  <2>2. \A p \in Clicks : Claims(p)' => Claims(p) /\ key(p)' = key(p)
    BY <1>5, <1>6, <2>1, KeepsLemma
  <2> QED  BY <1>1, <1>3, <2>2, ClaimsFrame
<1>13. Launches'
  BY <1>1, <1>3 DEF Launches
<1> QED  BY <1>8, <1>9, <1>10, <1>11, <1>12, <1>13 DEF ButtonsInv

(* An operation is over, and its button is free.                            *)
LEMMA EndsKeeps ==
  ASSUME ButtonsInv, NEW o \in Clicks, operation[o].at # "none",
         operation' \in {OperationOver(o), [OperationOver(o) EXCEPT ![o].at = "end"]},
         active' = Released(o), polls' \in {polls, polls \ {o}},
         o \in polls' => operation[o].at # "tracked",
         UNCHANGED <<click, starts, request, launch, agentHere, launched, shut>>
  PROVE  ButtonsInv'
<1>1. /\ ButtonsTypeOK /\ Answered /\ Held /\ OneBusyPerButton /\ Recorded /\ Sole /\ Launches
  BY DEF ButtonsInv
<1>2. button(o) \in Buttons /\ click[o].at = "done"
  BY <1>1 DEF ButtonsTypeOK, Answered, AnsweredAt, button
<1>3. /\ operation' \in [Clicks -> Operations]
      /\ active' \in [Buttons -> Clicks \union {NoClick}]
      /\ \A p \in Clicks : p # o => operation'[p] = operation[p]
      /\ Unfinished(o) => operation'[o].state = "over" /\ operation'[o].at = "end"
      /\ ~Unfinished(o) => /\ operation'[o].state = operation[o].state
                          /\ operation'[o].at \in {operation[o].at, "end"}
      /\ \A b \in Buttons :
           active'[b] = IF Unfinished(o) /\ b = button(o) THEN NoClick ELSE active[b]
  BY <1>1, <1>2, EndsLemma
<1>4. \A p \in Clicks : p # o => Keeps(p)
  BY <1>3 DEF Keeps
<1>5. ButtonsTypeOK'
  BY <1>1, <1>3 DEF ButtonsTypeOK
<1>6. Answered'
  <2>1. AnsweredAt(o)
    BY <1>1 DEF Answered
  <2>2. AnsweredAt(o)'
    <3>1. CASE Unfinished(o)
      BY <1>2, <1>3, <2>1, <3>1 DEF AnsweredAt
    <3>2. CASE ~Unfinished(o)
      BY <1>2, <1>3, <2>1, <3>2 DEF AnsweredAt, Unfinished
    <3> QED  BY <3>1, <3>2
  <2> QED  BY <1>1, <1>4, <2>2, AnsweredFrame
<1>7. Held'
  BY <1>1, <1>3, HeldFrame
<1>8. OneBusyPerButton'
  <2> SUFFICES ASSUME ~shut', NEW p \in Clicks, click'[p].at # "new"
               PROVE  Unfinished(p)' <=> active'[button(p)'] = p
    BY DEF OneBusyPerButton
  <2>1. /\ button(p) \in Buttons /\ button(p)' = button(p) /\ p # NoClick
        /\ Unfinished(p) <=> active[button(p)] = p
    BY <1>1, ButtonsAssumption DEF ButtonsTypeOK, button, Clicks, OneBusyPerButton
  <2>2. active'[button(p)] = IF Unfinished(o) /\ button(p) = button(o) THEN NoClick
                             ELSE active[button(p)]
    BY <1>3, <2>1
  <2>3. CASE p = o
    BY <1>3, <2>1, <2>2, <2>3 DEF Unfinished
  <2>4. CASE p # o
    <3>1. Unfinished(p)' <=> Unfinished(p)
      BY <1>4, <2>4, KeepsLemma
    <3>2. Unfinished(o) => active[button(o)] = o
      BY <1>1, <1>2 DEF OneBusyPerButton
    <3> QED  BY <2>1, <2>2, <2>4, <3>1, <3>2
  <2> QED  BY <2>3, <2>4
<1>9. Recorded' /\ Sole'
  <2> SUFFICES ASSUME NEW p \in Clicks, Claims(p)' PROVE Claims(p) /\ key(p)' = key(p)
    BY <1>1, ClaimsFrame
  <2>1. CASE p = o
    BY <1>3, <2>1 DEF Claims, Retained, Unfinished, key
  <2>2. CASE p # o
    BY <1>4, <2>2, KeepsLemma
  <2> QED  BY <2>1, <2>2
<1>10. Launches'
  BY <1>1 DEF Launches
<1> QED  BY <1>5, <1>6, <1>7, <1>8, <1>9, <1>10 DEF ButtonsInv

(* An operation moves and stays in flight, or stays over.                   *)
LEMMA MovesKeeps ==
  ASSUME ButtonsInv, NEW o \in Clicks,
         operation' \in [Clicks -> Operations], polls' \subseteq Clicks,
         request' \in [Clicks -> {"none", "queued", "running", "over"}],
         \A p \in Clicks : p # o => Keeps(p),
         AnsweredAt(o)', Claims(o)' => Claims(o),
         ~shut => (Unfinished(o)' <=> Unfinished(o)),
         starts' \in {starts, ForgetStart(o)},
         starts' # starts => click[o].at = "done" /\ (shut \/ ~Claims(o)'),
         UNCHANGED <<click, active, launch, agentHere, launched, shut>>
  PROVE  ButtonsInv'
<1>1. /\ ButtonsTypeOK /\ Answered /\ Held /\ OneBusyPerButton /\ Recorded /\ Sole /\ Launches
  BY DEF ButtonsInv
<1>2. ButtonsTypeOK'
  <2>1. starts' \in [Browsers \X RequestIds -> Clicks \union {NoClick}]
    BY <1>1, ForgetTyped DEF ButtonsTypeOK
  <2> QED  BY <1>1, <2>1 DEF ButtonsTypeOK
<1>3. Answered'
  BY <1>1, AnsweredFrame
<1>4. Held'
  BY <1>1, HeldFrame
<1>5. OneBusyPerButton'
  <2>1. \A p \in Clicks : button(p)' = button(p)
    BY DEF button
  <2>2. ~shut => \A p \in Clicks : Unfinished(p)' <=> Unfinished(p)
    BY KeepsLemma
  <2> QED  BY <1>1, <2>1, <2>2 DEF OneBusyPerButton
<1>6. Recorded' /\ Sole'
  <2> SUFFICES ASSUME NEW p \in Clicks, Claims(p)'
               PROVE  /\ Claims(p) /\ key(p)' = key(p)
                      /\ ~shut' => starts'[key(p)] = starts[key(p)]
    BY <1>1, ClaimsFrame
  <2>1. Claims(p) /\ key(p)' = key(p)
    BY KeepsLemma DEF key
  <2>2. ASSUME ~shut', starts' # starts PROVE starts'[key(p)] = starts[key(p)]
    <3>1. key(o) \in Browsers \X RequestIds
      BY <1>1, <2>2 DEF ButtonsTypeOK, key
    <3> QED  BY <1>1, <2>1, <2>2, <3>1, ForgetLemma
  <2> QED  BY <2>1, <2>2
<1>7. Launches'
  BY <1>1 DEF Launches
<1> QED  BY <1>2, <1>3, <1>4, <1>5, <1>6, <1>7 DEF ButtonsInv


LEMMA PrepareKeeps ==
  ASSUME ButtonsInv, NEW c \in Clicks, Joined(c) \/ Validate(c) \/ Refreshed(c)
  PROVE  ButtonsInv'
<1>1. /\ operation \in [Clicks -> Operations] /\ agentHere \in BOOLEAN
      /\ \A p \in Clicks : operation[p] \in Operations
  BY DEF ButtonsInv, ButtonsTypeOK
<1>2. operation[c].agent \in BOOLEAN
  BY <1>1 DEF Operations
<1>3. CASE Joined(c)
  BY <1>1, <1>3, AsksKeeps DEF Joined
<1>4. CASE Validate(c)
  <2>1. CASE Refused(c)
    BY <1>4, <2>1, RefusedKeeps DEF Validate
  <2>2. CASE active[button(c)] = NoClick /\ Register(c, agentHere)
    BY <1>1, <1>4, <2>2, RegisterKeeps DEF Validate
  <2>3. CASE /\ click' = [click EXCEPT ![c].at = "refresh"]
             /\ operation' = [operation EXCEPT ![c].agent = agentHere]
             /\ UNCHANGED <<starts, active, request, polls, launch, agentHere, launched, shut>>
    <3> DEFINE new == [operation[c] EXCEPT !.agent = agentHere]
    <3>1. new \in Operations /\ new.state = operation[c].state /\ new.at = operation[c].at
      BY <1>1 DEF Operations
    <3>2. operation' = [operation EXCEPT ![c] = new]
      BY <1>1, <2>3
    <3> HIDE DEF new
    <3>3. /\ operation' \in [Clicks -> Operations]
          /\ \A p \in Clicks : /\ operation'[p].state = operation[p].state
                               /\ operation'[p].at = operation[p].at
      BY <1>1, <3>1, <3>2
    <3>4. click[c].at = "prepare"
      BY <1>4 DEF Validate
    <3> QED  BY <2>3, <3>3, <3>4, AsksKeeps
  <2> QED  BY <1>4, <2>1, <2>2, <2>3 DEF Validate
<1>5. CASE Refreshed(c)
  <2> DEFINE existing == active[button(c)]
  <2>1. click[c].at = "refresh"
    BY <1>5 DEF Refreshed
  <2>2. CASE Refused(c)
    BY <2>1, <2>2, RefusedKeeps
  <2>3. CASE existing = NoClick /\ Register(c, operation[c].agent)
    BY <1>2, <2>1, <2>3, RegisterKeeps
  <2>4. CASE /\ click' = [click EXCEPT ![c].at = "done"]
             /\ UNCHANGED <<starts, operation, active, request, polls, launch, agentHere, launched, shut>>
    BY <1>1, <2>1, <2>4, AsksKeeps
  <2> QED  BY <1>5, <2>2, <2>3, <2>4 DEF Refreshed
<1> QED  BY <1>3, <1>4, <1>5

LEMMA ShellEndsKeeps ==
  ASSUME ButtonsInv, NEW o \in Clicks, ShellEnds(o)
  PROVE  ButtonsInv'
BY EndsKeeps DEF ShellEnds, FinishOperation

(* The frame of a step that moves the operation o to `new`                   *)
LEMMA MoveLemma ==
  ASSUME ButtonsTypeOK, NEW o \in Clicks, NEW new \in Operations,
         operation' = [operation EXCEPT ![o] = new]
  PROVE  /\ operation' \in [Clicks -> Operations] /\ operation'[o] = new
         /\ \A p \in Clicks : p # o => operation'[p] = operation[p]
BY DEF ButtonsTypeOK

LEMMA AfterLaunchKeeps ==
  ASSUME ButtonsInv, NEW o \in Clicks, AfterLaunch(o)
  PROVE  ButtonsInv'
<1>1. /\ ButtonsTypeOK /\ AnsweredAt(o) /\ operation[o].at = "launched"
      /\ operation[o] \in Operations
      /\ UNCHANGED <<click, starts, request, polls, launch, agentHere, launched, shut>>
  BY DEF ButtonsInv, ButtonsTypeOK, Answered, AfterLaunch
<1>2. CASE shut \/ ~Unfinished(o) \/ ~operation[o].agent
  <2>1. operation' = [OperationOver(o) EXCEPT ![o].at = "end"] /\ active' = Released(o)
    BY <1>2 DEF AfterLaunch
  <2> QED  BY <1>1, <2>1, EndsKeeps
<1>3. CASE ~(shut \/ ~Unfinished(o) \/ ~operation[o].agent)
  <2> DEFINE new == [operation[o] EXCEPT !.at = "submitting"]
  <2>1. /\ new \in Operations /\ new.state = operation[o].state /\ new.at = "submitting"
    BY <1>1 DEF Operations, ExecutionSteps
  <2>2. operation' = [operation EXCEPT ![o] = new] /\ UNCHANGED active
    BY <1>1, <1>3 DEF AfterLaunch, ButtonsTypeOK
  <2> HIDE DEF new
  <2>3. /\ operation' \in [Clicks -> Operations] /\ operation'[o] = new
        /\ \A p \in Clicks : p # o => operation'[p] = operation[p]
    BY <1>1, <2>1, <2>2, MoveLemma
  <2>4. \A p \in Clicks : p # o => Keeps(p)
    BY <1>1, <2>3 DEF Keeps
  <2>5. AnsweredAt(o)' /\ (Claims(o)' => Claims(o)) /\ (Unfinished(o)' <=> Unfinished(o))
    BY <1>1, <2>1, <2>3 DEF AnsweredAt, Claims, Retained, Unfinished
  <2>6. polls' \subseteq Clicks /\ request' \in [Clicks -> {"none", "queued", "running", "over"}]
    BY <1>1 DEF ButtonsTypeOK
  <2> QED  BY <1>1, <2>2, <2>3, <2>4, <2>5, <2>6, MovesKeeps
<1> QED  BY <1>2, <1>3

LEMMA SubmittedKeeps ==
  ASSUME ButtonsInv, NEW o \in Clicks, Submitted(o)
  PROVE  ButtonsInv'
<1>1. /\ ButtonsTypeOK /\ AnsweredAt(o) /\ operation[o].at = "submitting"
      /\ operation[o] \in Operations
      /\ UNCHANGED <<click, starts, polls, launch, agentHere, launched, shut>>
  BY DEF ButtonsInv, ButtonsTypeOK, Answered, Submitted
<1>2. CASE /\ operation' = [OperationOver(o) EXCEPT ![o].at = "end"] /\ active' = Released(o)
           /\ UNCHANGED request
  BY <1>1, <1>2, EndsKeeps
<1>3. CASE /\ Unfinished(o) /\ ~shut
           /\ operation' = [operation EXCEPT ![o].at = "tracked", ![o].state = "queued"]
           /\ request' = [request EXCEPT ![o] = "queued"] /\ UNCHANGED active
  <2> DEFINE new == [operation[o] EXCEPT !.at = "tracked", !.state = "queued"]
  <2>1. /\ new \in Operations /\ new.state = "queued" /\ new.at = "tracked"
    BY <1>1 DEF Operations, ExecutionSteps, States
  <2>2. operation' = [operation EXCEPT ![o] = new]
    BY <1>1, <1>3 DEF ButtonsTypeOK
  <2> HIDE DEF new
  <2>3. /\ operation' \in [Clicks -> Operations] /\ operation'[o] = new
        /\ \A p \in Clicks : p # o => operation'[p] = operation[p]
    BY <1>1, <2>1, <2>2, MoveLemma
  <2>4. /\ polls' \subseteq Clicks /\ request' \in [Clicks -> {"none", "queued", "running", "over"}]
        /\ request'[o] = "queued" /\ \A p \in Clicks : p # o => request'[p] = request[p]
    BY <1>1, <1>3 DEF ButtonsTypeOK
  <2>5. \A p \in Clicks : p # o => Keeps(p)
    BY <1>1, <2>3, <2>4 DEF Keeps
  <2>6. AnsweredAt(o)' /\ (Claims(o)' => Claims(o)) /\ (Unfinished(o)' <=> Unfinished(o))
    BY <1>1, <1>3, <2>1, <2>3, <2>4 DEF AnsweredAt, Claims, Retained, Unfinished
  <2> QED  BY <1>1, <1>3, <2>3, <2>4, <2>5, <2>6, MovesKeeps
<1> QED  BY <1>2, <1>3 DEF Submitted

LEMMA PromptMovesKeeps ==
  ASSUME ButtonsInv, NEW o \in Clicks, PromptMoves(o)
  PROVE  ButtonsInv'
<1>1. /\ ButtonsTypeOK /\ AnsweredAt(o) /\ operation \in [Clicks -> Operations]
      /\ polls \subseteq Clicks
      /\ UNCHANGED <<click, starts, operation, active, polls, launch, agentHere, launched, shut>>
  BY DEF ButtonsInv, ButtonsTypeOK, Answered, PromptMoves
<1>2. PICK s \in {"running", "over"} :
        /\ request' = [request EXCEPT ![o] = s] /\ request[o] \in {"queued", "running"}
  BY DEF PromptMoves
<1>3. /\ request' \in [Clicks -> {"none", "queued", "running", "over"}]
      /\ request'[o] = s /\ \A p \in Clicks : p # o => request'[p] = request[p]
  BY <1>1, <1>2 DEF ButtonsTypeOK
<1>4. \A p \in Clicks : p # o => Keeps(p)
  BY <1>1, <1>3 DEF Keeps
<1>5. AnsweredAt(o)' /\ (Claims(o)' => Claims(o)) /\ (Unfinished(o)' <=> Unfinished(o))
  BY <1>1, <1>2, <1>3 DEF AnsweredAt, Claims, Retained, Unfinished
<1> QED  BY <1>1, <1>3, <1>4, <1>5, MovesKeeps

LEMMA PollKeeps ==
  ASSUME ButtonsInv, NEW o \in Clicks, Poll(o)
  PROVE  ButtonsInv'
<1>1. /\ ButtonsTypeOK /\ AnsweredAt(o) /\ operation \in [Clicks -> Operations]
      /\ request \in [Clicks -> {"none", "queued", "running", "over"}]
      /\ polls \subseteq Clicks /\ polls' = polls \union {o}
      /\ operation[o].at = "tracked" /\ Unfinished(o)
      /\ UNCHANGED <<click, starts, operation, active, request, launch, agentHere, launched, shut>>
  BY DEF ButtonsInv, ButtonsTypeOK, Answered, Poll
<1>2. \A p \in Clicks : p # o => Keeps(p)
  BY <1>1 DEF Keeps
<1>3. AnsweredAt(o)' /\ (Claims(o)' => Claims(o)) /\ (Unfinished(o)' <=> Unfinished(o))
  BY <1>1 DEF AnsweredAt, Claims, Retained, Unfinished
<1> QED  BY <1>1, <1>2, <1>3, MovesKeeps

LEMMA PolledKeeps ==
  ASSUME ButtonsInv, NEW o \in Clicks, Polled(o)
  PROVE  ButtonsInv'
<1>1. /\ ButtonsTypeOK /\ AnsweredAt(o) /\ operation \in [Clicks -> Operations]
      /\ request \in [Clicks -> {"none", "queued", "running", "over"}]
      /\ polls \subseteq Clicks /\ o \in polls /\ polls' = polls \ {o}
      /\ operation[o].at # "none" /\ operation[o] \in Operations
      /\ UNCHANGED request
  BY DEF ButtonsInv, ButtonsTypeOK, Answered, AnsweredAt, Polled
<1>2. CASE UNCHANGED <<click, starts, operation, active, launch, agentHere, launched, shut>>
  <2>1. \A p \in Clicks : p # o => Keeps(p)
    BY <1>1, <1>2 DEF Keeps
  <2>2. AnsweredAt(o)' /\ (Claims(o)' => Claims(o)) /\ (Unfinished(o)' <=> Unfinished(o))
    BY <1>1, <1>2 DEF AnsweredAt, Claims, Retained, Unfinished
  <2> QED  BY <1>1, <1>2, <2>1, <2>2, MovesKeeps
<1>3. CASE FinishOperation(o)
  BY <1>1, <1>3, EndsKeeps DEF FinishOperation
<1>4. CASE /\ request[o] # "over"
           /\ operation' = [operation EXCEPT ![o].state = request[o]]
           /\ UNCHANGED <<click, starts, active, launch, agentHere, launched, shut>>
  <2> DEFINE new == [operation[o] EXCEPT !.state = request[o]]
  <2>1. operation[o].at = "tracked" /\ request[o] \in {"queued", "running"}
    BY <1>1, <1>4 DEF AnsweredAt
  <2>2. new \in Operations /\ new.state = request[o] /\ new.at = "tracked"
    BY <1>1, <2>1 DEF Operations, States
  <2>3. operation' = [operation EXCEPT ![o] = new]
    BY <1>1, <1>4
  <2> HIDE DEF new
  <2>4. /\ operation' \in [Clicks -> Operations] /\ operation'[o] = new
        /\ \A p \in Clicks : p # o => operation'[p] = operation[p]
    BY <1>1, <2>2, <2>3, MoveLemma
  <2>5. \A p \in Clicks : p # o => Keeps(p)
    BY <1>1, <1>4, <2>4 DEF Keeps
  <2>6. /\ AnsweredAt(o)' /\ (Claims(o)' => Claims(o))
        /\ ~shut => (Unfinished(o)' <=> Unfinished(o))
    BY <1>1, <1>4, <2>1, <2>2, <2>4 DEF AnsweredAt, Claims, Retained, Unfinished
  <2> QED  BY <1>1, <1>4, <2>4, <2>5, <2>6, MovesKeeps
<1> QED  BY <1>2, <1>3, <1>4 DEF Polled

LEMMA PruneKeeps ==
  ASSUME ButtonsInv, NEW o \in Clicks, Prune(o)
  PROVE  ButtonsInv'
<1>1. /\ ButtonsTypeOK /\ AnsweredAt(o) /\ operation \in [Clicks -> Operations]
      /\ request \in [Clicks -> {"none", "queued", "running", "over"}]
      /\ polls \subseteq Clicks /\ operation[o].state = "over" /\ operation[o] \in Operations
      /\ operation' = [operation EXCEPT ![o].state = "pruned"] /\ starts' = ForgetStart(o)
      /\ UNCHANGED <<click, active, request, polls, launch, agentHere, launched, shut>>
  BY DEF ButtonsInv, ButtonsTypeOK, Answered, Prune
<1> DEFINE new == [operation[o] EXCEPT !.state = "pruned"]
<1>2. new \in Operations /\ new.state = "pruned" /\ new.at = operation[o].at
  BY <1>1 DEF Operations, States
<1>3. operation' = [operation EXCEPT ![o] = new]
  BY <1>1
<1> HIDE DEF new
<1>4. /\ operation' \in [Clicks -> Operations] /\ operation'[o] = new
      /\ \A p \in Clicks : p # o => operation'[p] = operation[p]
  BY <1>1, <1>2, <1>3, MoveLemma
<1>5. \A p \in Clicks : p # o => Keeps(p)
  BY <1>1, <1>4 DEF Keeps
<1>6. /\ AnsweredAt(o)' /\ (Claims(o)' => Claims(o))
      /\ (Unfinished(o)' <=> Unfinished(o))
      /\ click[o].at = "done" /\ (shut \/ ~Claims(o)')
  BY <1>1, <1>2, <1>4 DEF AnsweredAt, Claims, Retained, Unfinished
<1> QED  BY <1>1, <1>4, <1>5, <1>6, MovesKeeps

(* --------------------- all operations move together ---------------------- *)

LEMMA LaunchEndsKeeps ==
  ASSUME ButtonsInv, NEW found \in BOOLEAN, LaunchEnds(found), Launches',
         agentHere' \in BOOLEAN, launched' \in Nat
  PROVE  ButtonsInv'
<1>1. /\ ButtonsTypeOK /\ Answered /\ Held /\ OneBusyPerButton /\ Recorded /\ Sole
      /\ launch' = "none" /\ UNCHANGED <<click, starts, active, request, polls, shut>>
  BY DEF ButtonsInv, LaunchEnds
<1>2. /\ operation' \in [Clicks -> Operations]
      /\ \A o \in Clicks :
           /\ operation'[o].state = operation[o].state
           /\ operation'[o].at = IF operation[o].at = "launching" THEN "launched"
                                 ELSE operation[o].at
  BY <1>1, LaunchEndsLemma
<1>3. ButtonsTypeOK'
  BY <1>1, <1>2 DEF ButtonsTypeOK
<1>4. \A o \in Clicks : /\ Unfinished(o)' <=> Unfinished(o)
                        /\ Claims(o)' <=> Claims(o)
                        /\ button(o)' = button(o) /\ key(o)' = key(o)
  BY <1>1, <1>2 DEF Unfinished, Claims, Retained, button, key
<1>5. Answered'
  <2> SUFFICES ASSUME NEW o \in Clicks PROVE AnsweredAt(o)'
    BY DEF Answered
  <2>1. AnsweredAt(o)
    BY <1>1 DEF Answered
  <2> QED  BY <1>1, <1>2, <1>4, <2>1 DEF AnsweredAt
<1>6. Held'
  BY <1>1, HeldFrame
<1>7. OneBusyPerButton'
  BY <1>1, <1>4, BusyFrame
<1>8. Recorded' /\ Sole'
  BY <1>1, <1>4, ClaimsFrame
<1> QED  BY <1>3, <1>5, <1>6, <1>7, <1>8 DEF ButtonsInv

LEMMA LaunchKeeps ==
  ASSUME ButtonsInv, LaunchLooks \/ LaunchStarts
  PROVE  ButtonsInv'
<1>1. /\ ButtonsTypeOK /\ Launches /\ launched \in Nat /\ agentHere \in BOOLEAN
      /\ shut \in BOOLEAN
  BY DEF ButtonsInv, ButtonsTypeOK
<1>2. CASE LaunchLooks /\ (agentHere \/ shut)
  <2>1. (agentHere /\ ~shut) \in BOOLEAN
    BY <1>1
  <2>2. LaunchEnds(agentHere /\ ~shut) /\ UNCHANGED <<agentHere, launched>>
    BY <1>2 DEF LaunchLooks
  <2>3. Launches'
    BY <1>1, <2>2 DEF Launches, LaunchEnds
  <2> QED  BY <1>1, <2>1, <2>2, <2>3, LaunchEndsKeeps
<1>3. CASE LaunchLooks /\ ~(agentHere \/ shut)
  <2>1. /\ launch' = "starting"
        /\ UNCHANGED <<click, starts, operation, active, request, polls, agentHere, launched, shut>>
    BY <1>3 DEF LaunchLooks
  <2>2. ButtonsTypeOK' /\ Launches'
    BY <1>1, <1>3, <2>1 DEF ButtonsTypeOK, Launches
  <2>3. Answered' /\ Held' /\ OneBusyPerButton' /\ Recorded' /\ Sole'
    BY <2>1 DEF ButtonsInv, Answered, AnsweredAt, Held, OneBusyPerButton, Recorded, Sole, Claims,
                Retained, Unfinished, key, button
  <2> QED  BY <2>2, <2>3 DEF ButtonsInv
<1>4. CASE LaunchStarts
  <2>1. CASE LaunchEnds(FALSE) /\ UNCHANGED <<agentHere, launched>>
    <3>1. Launches'
      BY <1>1, <2>1 DEF Launches, LaunchEnds
    <3> QED  BY <1>1, <2>1, <3>1, LaunchEndsKeeps
  <2>2. CASE LaunchEnds(TRUE) /\ agentHere' = TRUE /\ launched' = launched + 1
    <3>1. launched = 0
      BY <1>1, <1>4 DEF Launches, LaunchStarts
    <3>2. launch' = "none"
      BY <2>2 DEF LaunchEnds
    <3>3. agentHere' = TRUE /\ launched' = 1
      BY <2>2, <3>1
    <3>4. Launches'
      BY <3>2, <3>3 DEF Launches
    <3>5. LaunchEnds(TRUE)
      BY <2>2
    <3> QED  BY <3>3, <3>4, <3>5, LaunchEndsKeeps
  <2> QED  BY <1>4, <2>1, <2>2 DEF LaunchStarts
<1> QED  BY <1>2, <1>3, <1>4

LEMMA CloseKeeps ==
  ASSUME ButtonsInv, Close
  PROVE  ButtonsInv'
<1>1. /\ ButtonsTypeOK /\ Answered /\ Held /\ Recorded /\ Sole /\ Launches
      /\ operation \in [Clicks -> Operations]
      /\ operation' = [o \in Clicks |-> IF Unfinished(o)
                         THEN [operation[o] EXCEPT !.state = "over"] ELSE operation[o]]
      /\ active' = [b \in Buttons |-> NoClick] /\ shut' = TRUE
      /\ UNCHANGED <<click, starts, request, polls, launch, agentHere, launched>>
  BY DEF ButtonsInv, ButtonsTypeOK, Close
<1>2. ASSUME NEW o \in Clicks
      PROVE  LET new == [operation[o] EXCEPT !.state = "over"]
             IN  new \in Operations /\ new.state = "over" /\ new.at = operation[o].at
  <2>1. operation[o] \in Operations
    BY <1>1
  <2> QED  BY <2>1 DEF Operations, States
<1>3. /\ operation' \in [Clicks -> Operations]
      /\ \A o \in Clicks :
           /\ operation'[o].at = operation[o].at
           /\ operation'[o].state = IF Unfinished(o) THEN "over" ELSE operation[o].state
  BY <1>1, <1>2
<1>4. ButtonsTypeOK'
  BY <1>1, <1>3 DEF ButtonsTypeOK
<1>5. Answered'
  <2> SUFFICES ASSUME NEW o \in Clicks PROVE AnsweredAt(o)'
    BY DEF Answered
  <2>1. AnsweredAt(o)
    BY <1>1 DEF Answered
  <2> QED  BY <1>1, <1>3, <2>1 DEF AnsweredAt, Unfinished
<1>6. Held' /\ OneBusyPerButton' /\ Launches'
  BY <1>1 DEF Held, OneBusyPerButton, Launches
<1>7. Recorded' /\ Sole'
  <2> SUFFICES ASSUME NEW p \in Clicks, Claims(p)'
               PROVE  /\ Claims(p) /\ key(p)' = key(p)
                      /\ ~shut' => starts'[key(p)] = starts[key(p)]
    BY <1>1, ClaimsFrame
  <2> QED  BY <1>1, <1>3 DEF Claims, Retained, Unfinished, key
<1> QED  BY <1>1, <1>4, <1>5, <1>6, <1>7 DEF ButtonsInv

LEMMA ButtonsStep == ButtonsInv /\ [ButtonsNext]_buttonVars => ButtonsInv'
<1> SUFFICES ASSUME ButtonsInv, [ButtonsNext]_buttonVars PROVE ButtonsInv'
  OBVIOUS
<1>1. ASSUME NEW c \in Clicks, NEW s \in Browsers, NEW id \in RequestIds, NEW b \in Buttons,
             Start(c, s, id, b)
      PROVE  ButtonsInv'
  BY <1>1, StartKeeps
<1>2. ASSUME NEW c \in Clicks, Joined(c) \/ Validate(c) \/ Refreshed(c) PROVE ButtonsInv'
  BY <1>2, PrepareKeeps
<1>3. ASSUME NEW o \in Clicks, ShellEnds(o) PROVE ButtonsInv'
  BY <1>3, ShellEndsKeeps
<1>4. ASSUME NEW o \in Clicks, AfterLaunch(o) PROVE ButtonsInv'
  BY <1>4, AfterLaunchKeeps
<1>5. ASSUME NEW o \in Clicks, Submitted(o) PROVE ButtonsInv'
  BY <1>5, SubmittedKeeps
<1>6. ASSUME NEW o \in Clicks, PromptMoves(o) PROVE ButtonsInv'
  BY <1>6, PromptMovesKeeps
<1>7. ASSUME NEW o \in Clicks, Poll(o) PROVE ButtonsInv'
  BY <1>7, PollKeeps
<1>8. ASSUME NEW o \in Clicks, Polled(o) PROVE ButtonsInv'
  BY <1>8, PolledKeeps
<1>9. ASSUME NEW o \in Clicks, Prune(o) PROVE ButtonsInv'
  BY <1>9, PruneKeeps
<1>10. CASE LaunchLooks \/ LaunchStarts
  BY <1>10, LaunchKeeps
<1>11. CASE Close
  BY <1>11, CloseKeeps
<1>12. CASE UNCHANGED buttonVars
  BY <1>12 DEF buttonVars, ButtonsInv, ButtonsTypeOK, Answered, AnsweredAt, Held, OneBusyPerButton,
               Recorded, Sole, Launches, Claims, Retained, Unfinished, key, button
<1> QED
  BY <1>1, <1>2, <1>3, <1>4, <1>5, <1>6, <1>7, <1>8, <1>9, <1>10, <1>11, <1>12 DEF ButtonsNext

(* Type correctness of clicks, retry records, operations and polls.          *)
THEOREM ButtonsTypeCorrect == ButtonsAlone => []ButtonsTypeOK
<1>1. ButtonsInv => ButtonsTypeOK
  BY DEF ButtonsInv
<1> QED  BY <1>1, ButtonsStart, ButtonsStep, PTL DEF ButtonsAlone

(* The button of an operation in flight is held by it and no other, for any  *)
(* number of clicks, browsers and buttons, until the service closes.        *)
THEOREM ButtonsRunOnce == ButtonsAlone => []OneBusyPerButton
<1>1. ButtonsInv => OneBusyPerButton
  BY DEF ButtonsInv
<1> QED  BY <1>1, ButtonsStart, ButtonsStep, PTL DEF ButtonsAlone

(* A browser's request has one operation however often it is repeated, also *)
(* when the record of an operation is pruned while a poll of it waits.      *)
THEOREM RetriesRunOneOperation == ButtonsAlone => []RetryRunsOnce
<1>1. ButtonsInv => RetryRunsOnce
  BY DEF ButtonsInv, Sole, Claims, RetryRunsOnce
<1> QED  BY <1>1, ButtonsStart, ButtonsStep, PTL DEF ButtonsAlone

(* Buttons launch one Agent for the Workspace and none where there is one.   *)
THEOREM ButtonsLaunchOneAgent == ButtonsAlone => []OneAgentPerPlace
<1>1. ButtonsInv => OneAgentPerPlace
  BY DEF ButtonsInv, Launches, OneAgentPerPlace
<1> QED  BY <1>1, ButtonsStart, ButtonsStep, PTL DEF ButtonsAlone
-----------------------------------------------------------------------------
(*                           The pane's viewport                            *)

(* Only the task of the pane's entry is under way.  It gives the pane back   *)
(* only with a size to give, and only a release makes the entry go.         *)
StepAt(e) ==
  LET n == entries[e] IN
  n.step # "begin" =>
    /\ e = paneEntry /\ n.queue # <<>>
    /\ n.step = "delete" => n.queue[1].kind = "release"
    /\ n.queue[1].kind = "release" /\ n.step # "delete" => n.restore # 0

(* A task of a lease was asked for by it and is in its entry's queue; a      *)
(* release is marked, so it is nobody's once another browser came.          *)
TaskFor(t, e, leases) ==
  IF t.kind = "release" THEN t.by[2] # 0
  ELSE /\ t.by = <<t.by[1], 0>> /\ leases[t.by[1]].entry = e /\ t.size \in Sizes
TaskOf(t, e) == TaskFor(t, e, lease)
TasksAt(e) == \A i \in DOMAIN entries[e].queue : TaskOf(entries[e].queue[i], e)

Queues == \A e \in DOMAIN entries : StepAt(e) /\ TasksAt(e)

(* Leases come in order, and an open one has an entry; the mark of a release *)
(* counts the releases of its lease.                                        *)
Order ==
  /\ \A l \in Leases : lease[l].open => Acquired(l)
  /\ \A k, l \in Leases : Acquired(l) /\ k < l => Acquired(k)
  /\ ~closing => \A e \in DOMAIN entries : entries[e].owner[2] # 2

(* The size to restore is known before the owner's first task changes the    *)
(* pane: a clamp only follows a resize of the same browser.                 *)
Resizes(n, i) == n.queue[i].kind = "resize" /\ n.queue[i].by = n.owner
ClampsFollow(n) ==
  \A i \in DOMAIN n.queue : n.queue[i].kind = "ensure" /\ n.queue[i].by = n.owner =>
    n.restore # 0 \/ \E j \in 1..(i - 1) : Resizes(n, j)
ResizeKnown(n) == n.restore # 0 \/ \E j \in DOMAIN n.queue : Resizes(n, j)
Restorable ==
  LET n == entries[paneEntry] IN
  ~unlucky /\ paneEntry # 0 =>
    /\ n.restore # 0 => n.restore >= OriginalSize
    /\ n.restore = 0 \/ n.step = "delete" => paneSize >= OriginalSize
    /\ n.restore # 0 \/ n.step # "apply"
    /\ ClampsFollow(n)
    /\ \A l \in Leases : n.owner = <<l, 0>> /\ lease[l].entry = paneEntry /\ lease[l].size # 0 =>
         ResizeKnown(n)

(* The browser that came last owns the pane as long as its lease is open,    *)
(* and the pane has its size or its last task has it yet to bring.          *)
IsLatest(l) == Acquired(l) /\ \A k \in Leases : Acquired(k) => k <= l
Brings(n, l, i) == n.queue[i].by = <<l, 0>>
LastBrings(n, l, size) ==
  \E i \in DOMAIN n.queue :
    /\ Brings(n, l, i) /\ n.queue[i].size = size
    /\ \A j \in DOMAIN n.queue : j > i => ~Brings(n, l, j)
NoneBrings(n, l) == \A j \in DOMAIN n.queue : ~Brings(n, l, j)
Served(l) ==
  LET n == entries[paneEntry] IN
  \/ LastBrings(n, l, lease[l].size)
  \/ paneSize = lease[l].size /\ n.step = "begin" /\ NoneBrings(n, l)
OwnerServed ==
  /\ entries # <<>> => \E l \in Leases : IsLatest(l)
  /\ ~closing => \A l \in Leases : IsLatest(l) /\ lease[l].open =>
       /\ paneEntry # 0 /\ lease[l].entry = paneEntry /\ entries[paneEntry].owner = <<l, 0>>
       /\ ~unlucky /\ lease[l].size # 0 => Served(l)

ViewportInv ==
  /\ ViewportTypeOK /\ Queues /\ Order /\ Restorable /\ SizeComesBack /\ OwnerServed
-----------------------------------------------------------------------------
(* Lemmas on sequences                                                      *)
LEMMA TailLemma ==
  ASSUME NEW S, NEW s \in Seq(S), s # <<>>
  PROVE  /\ Tail(s) \in Seq(S) /\ DOMAIN Tail(s) = 1..(Len(s) - 1)
         /\ Len(s) \in Nat \ {0} /\ DOMAIN s = 1..Len(s)
         /\ \A i \in 1..(Len(s) - 1) : i \in DOMAIN s /\ i + 1 \in DOMAIN s /\ Tail(s)[i] = s[i + 1]
<1>1. Len(s) \in Nat \ {0}
  OBVIOUS
<1>2. Tail(s) \in Seq(S) /\ Len(Tail(s)) = Len(s) - 1
  OBVIOUS
<1>3. \A i \in 1..(Len(s) - 1) : i + 1 \in 1..Len(s) /\ Tail(s)[i] = s[i + 1]
  OBVIOUS
<1> QED  BY <1>1, <1>2, <1>3

LEMMA AppendLemma ==
  ASSUME NEW S, NEW s \in Seq(S), NEW x \in S
  PROVE  /\ Append(s, x) \in Seq(S) /\ DOMAIN s = 1..Len(s) /\ Len(s) \in Nat
         /\ DOMAIN Append(s, x) = 1..(Len(s) + 1)
         /\ Append(s, x) # <<>> /\ Append(s, x)[Len(s) + 1] = x
         /\ Len(Append(s, x)) = Len(s) + 1
         /\ \A i \in DOMAIN s : i \in 1..(Len(s) + 1) /\ i # Len(s) + 1 /\ Append(s, x)[i] = s[i]
<1>1. Len(s) \in Nat /\ DOMAIN s = 1..Len(s)
  OBVIOUS
<1>2. Append(s, x) \in Seq(S) /\ Len(Append(s, x)) = Len(s) + 1
  OBVIOUS
<1>3. \A i \in 1..Len(s) : Append(s, x)[i] = s[i]
  OBVIOUS
<1>4. Append(s, x)[Len(s) + 1] = x
  OBVIOUS
<1> QED  BY <1>1, <1>2, <1>3, <1>4

LEMMA EntryLemma ==
  ASSUME ViewportTypeOK, NEW e \in DOMAIN entries
  PROVE  /\ entries[e] \in Entries /\ e \in 1..Len(entries) /\ DOMAIN entries = 1..Len(entries)
         /\ entries[e].owner \in Leases \X (0..2) /\ entries[e].restore \in Sizes \union {0}
         /\ entries[e].queue \in Seq(Tasks)
         /\ entries[e].step \in {"begin", "read", "apply", "delete"}
         /\ \A i \in DOMAIN entries[e].queue :
              /\ entries[e].queue[i] \in Tasks
              /\ i \in Nat \ {0}
<1>1. entries \in Seq(Entries)
  BY DEF ViewportTypeOK
<1>2. entries[e] \in Entries /\ e \in 1..Len(entries) /\ DOMAIN entries = 1..Len(entries)
  BY <1>1
<1>3. entries[e].queue \in Seq(Tasks)
  BY <1>2 DEF Entries
<1>4. \A i \in DOMAIN entries[e].queue : entries[e].queue[i] \in Tasks /\ i \in Nat \ {0}
  BY <1>3
<1> QED  BY <1>2, <1>3, <1>4 DEF Entries

(* The frame of a step that changes one entry                               *)
LEMMA ChangeLemma ==
  ASSUME ViewportTypeOK, NEW e \in DOMAIN entries, NEW new \in Entries,
         entries' = [entries EXCEPT ![e] = new]
  PROVE  /\ entries' \in Seq(Entries) /\ Len(entries') = Len(entries)
         /\ DOMAIN entries' = DOMAIN entries /\ entries'[e] = new
         /\ \A f \in DOMAIN entries : f # e => entries'[f] = entries[f]
<1>1. entries \in Seq(Entries)
  BY DEF ViewportTypeOK
<1> QED  BY <1>1

LEMMA ViewportStart == ViewportInit => ViewportInv
<1> SUFFICES ASSUME ViewportInit PROVE ViewportInv
  OBVIOUS
<1>1. /\ entries = <<>> /\ DOMAIN entries = {} /\ Len(entries) = 0 /\ entries \in Seq(Entries)
      /\ paneSize = OriginalSize /\ paneEntry = 0 /\ lease = [l \in Leases |-> NoLease]
      /\ tasks = 0 /\ closing = FALSE /\ unlucky = FALSE
  BY DEF ViewportInit
<1>2. \A l \in Leases : lease[l] = [entry |-> 0, size |-> 0, open |-> FALSE]
  BY <1>1 DEF NoLease
<1>3. ViewportTypeOK
  <2>1. lease \in [Leases -> [entry : Nat, size : Sizes \union {0}, open : BOOLEAN]]
    <3>1. NoLease \in [entry : Nat, size : Sizes \union {0}, open : BOOLEAN]
      BY DEF NoLease
    <3> QED  BY <1>1, <3>1
  <2>2. \A l \in Leases : lease[l].entry <= Len(entries)
    BY <1>1, <1>2
  <2>3. tasks \in Nat /\ closing \in BOOLEAN /\ unlucky \in BOOLEAN /\ paneSize \in Sizes
    BY <1>1, ViewportAssumption
  <2>4. /\ paneEntry \in 0..Len(entries)
        /\ \A e \in DOMAIN entries : entries[e].step # "begin" => entries[e].queue # <<>>
    BY <1>1
  <2> QED  BY <1>1, <2>1, <2>2, <2>3, <2>4 DEF ViewportTypeOK
<1>4. Queues /\ Restorable
  BY <1>1 DEF Queues, Restorable
<1>5. Order
  BY <1>1, <1>2 DEF Order, Acquired
<1>6. OwnerServed
  BY <1>1, <1>2 DEF OwnerServed, IsLatest, Acquired
<1>7. SizeComesBack
  BY <1>1, ViewportAssumption DEF SizeComesBack
<1> QED  BY <1>3, <1>4, <1>5, <1>6, <1>7 DEF ViewportInv

(* ------------------------ a task begins or goes on ----------------------- *)

LEMMA AdvanceKeeps ==
  ASSUME ViewportInv, NEW e \in DOMAIN entries, e = paneEntry, entries[e].queue # <<>>,
         NEW st \in {"read", "apply", "delete"}, NEW r \in Sizes \union {0},
         entries' = [entries EXCEPT ![e] = [entries[e] EXCEPT !.step = st, !.restore = r]],
         paneSize' \in Sizes, unlucky' \in {unlucky, TRUE},
         UNCHANGED <<paneEntry, lease, tasks, closing>>,
         entries[e].step = "begin" => entries[e].queue[1].by = entries[e].owner,
         st = "delete" => entries[e].queue[1].kind = "release",
         entries[e].queue[1].kind = "release" /\ st # "delete" => r # 0,
         entries[e].restore # 0 => r # 0,
         ~unlucky' => /\ r # 0 => r >= OriginalSize
                      /\ r = 0 \/ st = "delete" => paneSize' >= OriginalSize
                      /\ r # 0 \/ st # "apply"
  PROVE  ViewportInv'
<1> DEFINE n == entries[e]
           new == [n EXCEPT !.step = st, !.restore = r]
<1>1. /\ ViewportTypeOK /\ Queues /\ Order /\ Restorable /\ SizeComesBack /\ OwnerServed
      /\ paneEntry # 0
  <2>1. 0 \notin DOMAIN entries
    BY DEF ViewportInv, ViewportTypeOK
  <2> QED  BY <2>1 DEF ViewportInv
<1>2. n \in Entries
  BY <1>1, EntryLemma
<1>3. /\ new \in Entries /\ new.step = st /\ new.restore = r
      /\ new.owner = n.owner /\ new.queue = n.queue
  BY <1>2 DEF Entries
<1>4. entries' = [entries EXCEPT ![e] = new]
  OBVIOUS
<1> HIDE DEF new
<1>5. /\ entries' \in Seq(Entries) /\ Len(entries') = Len(entries)
      /\ DOMAIN entries' = DOMAIN entries /\ entries'[e] = new
      /\ \A f \in DOMAIN entries : f # e => entries'[f] = entries[f]
  BY <1>1, <1>3, <1>4, ChangeLemma
<1>6. ViewportTypeOK'
  <2>1. \A f \in DOMAIN entries' : entries'[f].step # "begin" => entries'[f].queue # <<>>
    BY <1>1, <1>3, <1>5 DEF ViewportTypeOK
  <2> QED  BY <1>1, <1>5, <2>1 DEF ViewportTypeOK
<1>12. ~unlucky' => ~unlucky
  BY <1>1 DEF ViewportTypeOK
<1>7. Queues'
  <2> SUFFICES ASSUME NEW f \in DOMAIN entries PROVE StepAt(f)' /\ TasksAt(f)'
    BY <1>5 DEF Queues
  <2>1. StepAt(f) /\ TasksAt(f)
    BY <1>1 DEF Queues
  <2>2. CASE f # e
    BY <1>5, <2>1, <2>2 DEF StepAt, TasksAt, TaskOf, TaskFor
  <2>3. CASE f = e
    BY <1>3, <1>5, <2>1, <2>3 DEF StepAt, TasksAt, TaskOf, TaskFor
  <2> QED  BY <2>2, <2>3
<1>8. Order'
  <2>1. \A f \in DOMAIN entries : entries'[f].owner = entries[f].owner
    BY <1>3, <1>5
  <2> QED  BY <1>1, <1>5, <2>1 DEF Order, Acquired
<1>9. Restorable'
  <2>1. CASE unlucky'
    BY <2>1 DEF Restorable
  <2>2. CASE ~unlucky'
    <3>1. entries'[paneEntry'] = new /\ paneEntry' = e /\ ~unlucky
      BY <1>5, <1>12, <2>2
    <3>2. \A i : Resizes(new, i) <=> Resizes(n, i)
      BY <1>3 DEF Resizes
    <3>3. /\ ClampsFollow(n)
          /\ \A l \in Leases : n.owner = <<l, 0>> /\ lease[l].entry = e /\ lease[l].size # 0 =>
               ResizeKnown(n)
      BY <1>1, <3>1 DEF Restorable
    <3>4. /\ ClampsFollow(new)
          /\ \A l \in Leases : new.owner = <<l, 0>> /\ lease[l].entry = e /\ lease[l].size # 0 =>
               ResizeKnown(new)
      BY <1>3, <3>2, <3>3 DEF ClampsFollow, ResizeKnown
    <3>5. /\ r # 0 => r >= OriginalSize
          /\ r = 0 \/ st = "delete" => paneSize' >= OriginalSize
          /\ r # 0 \/ st # "apply"
      BY <2>2
    <3>6. lease' = lease
      OBVIOUS
    <3> QED  BY <1>3, <3>1, <3>4, <3>5, <3>6 DEF Restorable
  <2> QED  BY <2>1, <2>2
<1>10. SizeComesBack'
  BY <1>1 DEF SizeComesBack
<1>11. OwnerServed'
  <2>1. \A l \in Leases : IsLatest(l)' <=> IsLatest(l)
    BY DEF IsLatest, Acquired
  <2>2. entries # <<>>
    BY <1>5
  <2>3. ASSUME ~closing, NEW l \in Leases, IsLatest(l), lease[l].open
        PROVE  /\ entries'[paneEntry'].owner = <<l, 0>> /\ lease[l].entry = paneEntry
               /\ ~unlucky' /\ lease'[l].size # 0 => Served(l)'
    <3>1. n.owner = <<l, 0>> /\ lease[l].entry = paneEntry
      BY <1>1, <2>3 DEF OwnerServed
    <3>2. ASSUME ~unlucky', lease[l].size # 0 PROVE Served(l)'
      <4>1. Served(l)
        BY <1>1, <1>12, <2>3, <3>2 DEF OwnerServed
      <4>2. 1 \in DOMAIN n.queue
        BY <1>1, EntryLemma
      <4>3. LastBrings(n, l, lease[l].size) \/ (n.step = "begin" /\ NoneBrings(n, l))
        BY <4>1 DEF Served
      <4>4. n.step = "begin" => ~NoneBrings(n, l)
        BY <3>1, <4>2 DEF Brings, NoneBrings
      <4>5. LastBrings(n, l, lease[l].size)
        BY <4>3, <4>4
      <4>6. LastBrings(new, l, lease[l].size)
        <5>1. new.queue = n.queue
          BY <1>3
        <5> HIDE DEF n
        <5> QED  BY <4>5, <5>1, ZenonT(60) DEF LastBrings, Brings
      <4> QED  BY <1>5, <4>6 DEF Served
    <3> QED  BY <1>3, <1>5, <3>1, <3>2
  <2> QED  BY <1>1, <2>1, <2>2, <2>3 DEF OwnerServed
<1> QED  BY <1>6, <1>7, <1>8, <1>9, <1>10, <1>11 DEF ViewportInv

(* ---------------------------- a task is over ----------------------------- *)

LEMMA DoneLemma ==
  ASSUME ViewportTypeOK, NEW e \in DOMAIN entries, entries[e].queue # <<>>
  PROVE  LET n == entries[e]
             new == [n EXCEPT !.queue = Tail(n.queue), !.step = "begin"]
         IN  /\ new \in Entries /\ new.step = "begin" /\ new.restore = n.restore
             /\ new.owner = n.owner /\ new.queue = Tail(n.queue)
             /\ Done(e) = [entries EXCEPT ![e] = new]
<1> DEFINE n == entries[e]
           new == [n EXCEPT !.queue = Tail(n.queue), !.step = "begin"]
<1>1. n \in Entries /\ n.queue \in Seq(Tasks) /\ entries \in Seq(Entries)
  BY EntryLemma DEF ViewportTypeOK
<1>2. Tail(n.queue) \in Seq(Tasks)
  BY <1>1, TailLemma
<1>3. /\ new \in Entries /\ new.step = "begin" /\ new.restore = n.restore
      /\ new.owner = n.owner /\ new.queue = Tail(n.queue)
  BY <1>1, <1>2 DEF Entries
<1>4. Done(e) = [entries EXCEPT ![e] = new]
  BY <1>1 DEF Done
<1> QED  BY <1>3, <1>4

(* What the rest of the queue knows once its head is over                   *)
LEMMA RestLemma ==
  ASSUME NEW n \in Entries, n.queue # <<>>, NEW new \in Entries, new.queue = Tail(n.queue),
         new.owner = n.owner, new.restore = n.restore
  PROVE  /\ \/ Resizes(n, 1) /\ n.restore = 0
            \/ /\ ClampsFollow(n) => ClampsFollow(new)
               /\ ResizeKnown(n) => ResizeKnown(new)
         /\ \A l : NoneBrings(n, l) => NoneBrings(new, l)
         /\ \A l, size : LastBrings(n, l, size) =>
              \/ LastBrings(new, l, size)
              \/ NoneBrings(new, l) /\ Brings(n, l, 1) /\ n.queue[1].size = size
<1>1. n.queue \in Seq(Tasks)
  BY DEF Entries
<1> DEFINE N == Len(n.queue)
<1>2. /\ DOMAIN n.queue = 1..N /\ DOMAIN new.queue = 1..(N - 1) /\ N \in Nat \ {0}
      /\ \A i \in 1..(N - 1) : new.queue[i] = n.queue[i + 1]
  BY <1>1, TailLemma
<1> HIDE DEF N
<1>3. \A i \in 1..(N - 1) : Resizes(new, i) <=> Resizes(n, i + 1)
  BY <1>2 DEF Resizes
<1>4. ASSUME ~(Resizes(n, 1) /\ n.restore = 0), ResizeKnown(n) PROVE ResizeKnown(new)
  <2>1. CASE n.restore # 0
    BY <2>1 DEF ResizeKnown
  <2>2. CASE n.restore = 0
    <3>1. PICK j \in 1..N : Resizes(n, j)
      BY <1>2, <1>4, <2>2 DEF ResizeKnown
    <3>2. j # 1
      BY <1>4, <2>2, <3>1
    <3>3. j - 1 \in 1..(N - 1) /\ (j - 1) + 1 = j
      BY <1>2, <3>2
    <3>4. Resizes(new, j - 1)
      BY <1>3, <3>1, <3>3
    <3> QED  BY <1>2, <3>3, <3>4 DEF ResizeKnown
  <2> QED  BY <2>1, <2>2
<1>5. ASSUME ~(Resizes(n, 1) /\ n.restore = 0), ClampsFollow(n) PROVE ClampsFollow(new)
  <2> SUFFICES ASSUME NEW i \in 1..(N - 1), new.queue[i].kind = "ensure",
                      new.queue[i].by = new.owner, new.restore = 0
               PROVE  \E j \in 1..(i - 1) : Resizes(new, j)
    BY <1>2 DEF ClampsFollow
  <2>1. i + 1 \in 1..N /\ n.queue[i + 1].kind = "ensure" /\ n.queue[i + 1].by = n.owner
    BY <1>2
  <2>2. PICK j \in 1..((i + 1) - 1) : Resizes(n, j)
    BY <1>2, <1>5, <2>1 DEF ClampsFollow
  <2>3. j # 1
    BY <1>5, <2>2
  <2>4. j - 1 \in 1..(i - 1) /\ (j - 1) + 1 = j /\ j - 1 \in 1..(N - 1)
    BY <1>2, <2>3
  <2>5. Resizes(new, j - 1)
    BY <1>3, <2>2, <2>4
  <2> QED  BY <2>4, <2>5
<1>6. ASSUME NEW l, NoneBrings(n, l) PROVE NoneBrings(new, l)
  <2> SUFFICES ASSUME NEW j \in 1..(N - 1) PROVE new.queue[j].by # <<l, 0>>
    BY <1>2 DEF NoneBrings, Brings
  <2>1. j + 1 \in 1..N /\ new.queue[j] = n.queue[j + 1]
    BY <1>2
  <2> QED  BY <1>2, <1>6, <2>1 DEF NoneBrings, Brings
<1>7. ASSUME NEW l, NEW size, LastBrings(n, l, size)
      PROVE  \/ LastBrings(new, l, size)
             \/ NoneBrings(new, l) /\ Brings(n, l, 1) /\ n.queue[1].size = size
  <2>1. PICK i \in 1..N : /\ Brings(n, l, i) /\ n.queue[i].size = size
                          /\ \A j \in 1..N : j > i => ~Brings(n, l, j)
    BY <1>2, <1>7 DEF LastBrings
  <2>2. CASE i = 1
    <3>1. \A j \in 1..(N - 1) : ~Brings(n, l, j + 1)
      BY <1>2, <2>1, <2>2
    <3>2. NoneBrings(new, l)
      BY <1>2, <3>1 DEF NoneBrings, Brings
    <3> QED  BY <2>1, <2>2, <3>2
  <2>3. CASE i # 1
    <3>1. i - 1 \in 1..(N - 1) /\ (i - 1) + 1 = i
      BY <1>2, <2>3
    <3>2. Brings(new, l, i - 1) /\ new.queue[i - 1].size = size
      BY <1>2, <2>1, <3>1 DEF Brings
    <3>3. \A j \in 1..(N - 1) : j > i - 1 => ~Brings(new, l, j)
      <4> SUFFICES ASSUME NEW j \in 1..(N - 1), j > i - 1 PROVE ~Brings(new, l, j)
        OBVIOUS
      <4>1. j + 1 \in 1..N /\ j + 1 > i
        BY <1>2, <3>1
      <4>2. ~Brings(n, l, j + 1)
        BY <2>1, <4>1
      <4> QED  BY <1>2, <4>2 DEF Brings
    <3> QED  BY <1>2, <3>1, <3>2, <3>3 DEF LastBrings
  <2> QED  BY <2>2, <2>3
<1> QED  BY <1>4, <1>5, <1>6, <1>7

LEMMA DoneKeeps ==
  ASSUME ViewportInv, NEW e \in DOMAIN entries, entries[e].queue # <<>>,
         entries' = Done(e), paneSize' \in Sizes, unlucky' \in {unlucky, TRUE},
         UNCHANGED <<paneEntry, lease, tasks, closing>>,
         ~unlucky' =>
           /\ e # paneEntry => paneSize' = paneSize
           /\ entries[e].step = "begin" => paneSize' = paneSize
           /\ e = paneEntry /\ entries[e].restore = 0 => paneSize' >= OriginalSize
           /\ e = paneEntry /\ Resizes(entries[e], 1) => entries[e].restore # 0
           /\ \A l \in Leases : e = paneEntry /\ Brings(entries[e], l, 1) /\ entries[e].owner = <<l, 0>> =>
                paneSize' = entries[e].queue[1].size
  PROVE  ViewportInv'
<1> DEFINE n == entries[e]
           new == [n EXCEPT !.queue = Tail(n.queue), !.step = "begin"]
<1>1. /\ ViewportTypeOK /\ Queues /\ Order /\ Restorable /\ SizeComesBack /\ OwnerServed
      /\ n \in Entries /\ n.queue \in Seq(Tasks)
  BY EntryLemma DEF ViewportInv
<1>2. /\ new \in Entries /\ new.step = "begin" /\ new.restore = n.restore
      /\ new.owner = n.owner /\ new.queue = Tail(n.queue)
      /\ entries' = [entries EXCEPT ![e] = new]
  BY <1>1, DoneLemma
<1> HIDE DEF new
<1>3. /\ entries' \in Seq(Entries) /\ Len(entries') = Len(entries)
      /\ DOMAIN entries' = DOMAIN entries /\ entries'[e] = new
      /\ \A f \in DOMAIN entries : f # e => entries'[f] = entries[f]
  BY <1>1, <1>2, ChangeLemma
<1>4. ~unlucky' => ~unlucky
  BY <1>1 DEF ViewportTypeOK
<1>5. ViewportTypeOK'
  <2>1. \A f \in DOMAIN entries' : entries'[f].step # "begin" => entries'[f].queue # <<>>
    BY <1>1, <1>2, <1>3 DEF ViewportTypeOK
  <2>2. paneEntry' \in 0..Len(entries') /\ lease' \in [Leases -> [entry : Nat, size : Sizes \union {0}, open : BOOLEAN]]
        /\ (\A l \in Leases : lease'[l].entry <= Len(entries')) /\ tasks' \in Nat /\ closing' \in BOOLEAN
        /\ unlucky' \in BOOLEAN
    BY <1>1, <1>3 DEF ViewportTypeOK
  <2> QED  BY <1>3, <2>1, <2>2 DEF ViewportTypeOK
<1>6. Queues'
  <2> SUFFICES ASSUME NEW f \in DOMAIN entries PROVE StepAt(f)' /\ TasksAt(f)'
    BY <1>3 DEF Queues
  <2>1. StepAt(f) /\ TasksAt(f)
    BY <1>1 DEF Queues
  <2>2. CASE f # e
    BY <1>3, <2>1, <2>2 DEF StepAt, TasksAt, TaskOf, TaskFor
  <2>3. CASE f = e
    <3>1. StepAt(f)'
      BY <1>2, <1>3, <2>3 DEF StepAt
    <3>2. DOMAIN new.queue = 1..(Len(n.queue) - 1)
          /\ \A i \in 1..(Len(n.queue) - 1) : i + 1 \in DOMAIN n.queue /\ new.queue[i] = n.queue[i + 1]
      BY <1>1, <1>2, TailLemma
    <3>3. \A i \in DOMAIN n.queue : TaskOf(n.queue[i], e)
      BY <2>1, <2>3 DEF TasksAt
    <3>4. \A i \in DOMAIN new.queue : TaskOf(new.queue[i], e)
      BY <3>2, <3>3
    <3>5. \A t : TaskOf(t, e)' <=> TaskOf(t, e)
      BY DEF TaskOf, TaskFor
    <3>6. \A i \in DOMAIN entries'[e].queue : TaskOf(entries'[e].queue[i], e)
      BY <1>3, <3>4
    <3>7. TasksAt(e)'
      BY <3>6 DEF TasksAt, TaskOf, TaskFor
    <3> QED  BY <2>3, <3>1, <3>7
  <2> QED  BY <2>2, <2>3
<1>7. Order'
  <2>1. \A f \in DOMAIN entries : entries'[f].owner = entries[f].owner
    BY <1>2, <1>3
  <2> QED  BY <1>1, <1>3, <2>1 DEF Order, Acquired
<1>8. SizeComesBack'
  <2>1. 0 \notin DOMAIN entries
    BY <1>1 DEF ViewportTypeOK
  <2> QED  BY <1>1, <1>4, <2>1 DEF SizeComesBack
<1>9. Restorable'
  <2> SUFFICES ASSUME ~unlucky', paneEntry # 0 PROVE Restorable'
    BY DEF Restorable
  <2>1. /\ paneEntry' = paneEntry /\ lease' = lease /\ ~unlucky
    BY <1>4
  <2>2. CASE paneEntry = e
    <3>1. /\ n.restore # 0 => n.restore >= OriginalSize
          /\ ClampsFollow(n)
          /\ \A l \in Leases : n.owner = <<l, 0>> /\ lease[l].entry = e /\ lease[l].size # 0 =>
               ResizeKnown(n)
      BY <1>1, <2>1, <2>2 DEF Restorable
    <3>2. ~(Resizes(n, 1) /\ n.restore = 0) /\ (n.restore = 0 => paneSize' >= OriginalSize)
      BY <2>2
    <3>3. ClampsFollow(new) /\ (ResizeKnown(n) => ResizeKnown(new))
      BY <1>1, <1>2, <3>1, <3>2, RestLemma
    <3>4. /\ new.restore # 0 => new.restore >= OriginalSize
          /\ new.restore = 0 \/ new.step = "delete" => paneSize' >= OriginalSize
          /\ new.restore # 0 \/ new.step # "apply"
          /\ ClampsFollow(new)
          /\ \A l \in Leases : new.owner = <<l, 0>> /\ lease[l].entry = e /\ lease[l].size # 0 =>
               ResizeKnown(new)
      BY <1>2, <3>1, <3>2, <3>3
    <3>5. entries'[paneEntry'] = new /\ paneEntry' = e
      BY <1>3, <2>2
    <3> QED  BY <2>1, <3>4, <3>5 DEF Restorable
  <2>3. CASE paneEntry # e
    <3>1. paneEntry \in DOMAIN entries
      BY <1>1 DEF ViewportTypeOK
    <3>2. entries'[paneEntry'] = entries[paneEntry] /\ paneSize' = paneSize
      BY <1>3, <2>1, <2>3, <3>1
    <3> QED  BY <1>1, <2>1, <3>2 DEF Restorable
  <2> QED  BY <2>2, <2>3
<1>10. OwnerServed'
  <2>1. \A l \in Leases : IsLatest(l)' <=> IsLatest(l)
    BY DEF IsLatest, Acquired
  <2>2. entries # <<>>
    BY <1>1 DEF ViewportTypeOK
  <2>3. ASSUME ~closing, NEW l \in Leases, IsLatest(l), lease[l].open
        PROVE  /\ paneEntry # 0 /\ entries'[paneEntry'].owner = <<l, 0>> /\ lease[l].entry = paneEntry
               /\ ~unlucky' /\ lease'[l].size # 0 => Served(l)'
    <3>1. paneEntry # 0 /\ entries[paneEntry].owner = <<l, 0>> /\ lease[l].entry = paneEntry
      BY <1>1, <2>3 DEF OwnerServed
    <3>2. paneEntry \in DOMAIN entries
      BY <1>1, <3>1 DEF ViewportTypeOK
    <3>3. entries'[paneEntry'].owner = <<l, 0>>
      BY <1>2, <1>3, <3>1, <3>2
    <3>4. ASSUME ~unlucky', lease[l].size # 0 PROVE Served(l)'
      <4>1. Served(l)
        BY <1>1, <1>4, <2>3, <3>4 DEF OwnerServed
      <4>2. CASE paneEntry # e
        <5>1. entries'[paneEntry'] = entries[paneEntry] /\ paneSize' = paneSize /\ lease' = lease
          BY <1>3, <3>2, <3>4, <4>2
        <5> QED  BY <4>1, <5>1 DEF Served
      <4>3. CASE paneEntry = e
        <5>1. entries'[paneEntry'] = new /\ lease' = lease
          BY <1>3, <4>3
        <5>2. \/ LastBrings(n, l, lease[l].size)
              \/ paneSize = lease[l].size /\ n.step = "begin" /\ NoneBrings(n, l)
          BY <4>1, <4>3 DEF Served
        <5>3. CASE LastBrings(n, l, lease[l].size)
          <6>1. \/ LastBrings(new, l, lease[l].size)
                \/ NoneBrings(new, l) /\ Brings(n, l, 1) /\ n.queue[1].size = lease[l].size
            BY <1>1, <1>2, <5>3, RestLemma
          <6>2. Brings(n, l, 1) => paneSize' = n.queue[1].size
            BY <3>1, <3>4, <4>3
          <6> QED  BY <1>2, <5>1, <6>1, <6>2 DEF Served
        <5>4. CASE paneSize = lease[l].size /\ n.step = "begin" /\ NoneBrings(n, l)
          <6>1. NoneBrings(new, l)
            BY <1>1, <1>2, <5>4, RestLemma
          <6>2. paneSize' = paneSize
            BY <3>4, <5>4
          <6> QED  BY <1>2, <5>1, <5>4, <6>1, <6>2 DEF Served
        <5> QED  BY <5>2, <5>3, <5>4
      <4> QED  BY <4>2, <4>3
    <3> QED  BY <3>1, <3>3, <3>4
  <2> QED  BY <1>1, <2>1, <2>2, <2>3 DEF OwnerServed
<1> QED  BY <1>5, <1>6, <1>7, <1>8, <1>9, <1>10 DEF ViewportInv

(* --------------------------- the task's own steps ------------------------ *)

GivingBack(e, st, r) == [AtStep(e, st) EXCEPT ![e].restore = r]

LEMMA StepLemma ==
  ASSUME ViewportTypeOK, NEW e \in DOMAIN entries, NEW st
  PROVE  AtStep(e, st) =
           [entries EXCEPT ![e] = [entries[e] EXCEPT !.step = st, !.restore = entries[e].restore]]
<1>1. entries[e] \in Entries
  BY EntryLemma
<1>2. [entries[e] EXCEPT !.step = st] =
        [entries[e] EXCEPT !.step = st, !.restore = entries[e].restore]
  BY <1>1 DEF Entries
<1>3. AtStep(e, st) = [entries EXCEPT ![e] = [entries[e] EXCEPT !.step = st]]
  BY DEF AtStep
<1> QED  BY <1>2, <1>3

(* What is known of the entry whose task takes a step                       *)
LEMMA TaskLemma ==
  ASSUME ViewportInv, NEW st, NEW e, HasTask(e, st)
  PROVE  /\ ViewportTypeOK
         /\ e \in DOMAIN entries /\ entries[e].queue # <<>> /\ entries[e].step = st
         /\ entries[e].restore \in Sizes \union {0} /\ task(e) = entries[e].queue[1]
         /\ task(e).kind \in {"resize", "ensure", "release"}
         /\ task(e).kind = "release" => task(e).by[2] # 0
         /\ task(e).kind # "release" => task(e).size \in Sizes
         /\ paneSize \in Sizes /\ unlucky \in BOOLEAN
         /\ StepAt(e)
         /\ ~unlucky /\ e = paneEntry =>
              /\ entries[e].restore # 0 => entries[e].restore >= OriginalSize
              /\ entries[e].restore = 0 \/ st = "delete" => paneSize >= OriginalSize
              /\ entries[e].restore # 0 \/ st # "apply"
              /\ ClampsFollow(entries[e])
<1>1. ViewportTypeOK /\ Queues /\ Restorable
  BY DEF ViewportInv
<1>2. e \in DOMAIN entries /\ entries[e].queue # <<>> /\ entries[e].step = st
  BY DEF HasTask
<1>3. task(e) = entries[e].queue[1] /\ 1 \in DOMAIN entries[e].queue /\ task(e) \in Tasks
  BY <1>1, <1>2, EntryLemma DEF task
<1>4. StepAt(e) /\ TaskOf(task(e), e)
  BY <1>1, <1>2, <1>3 DEF Queues, TasksAt
<1>5. entries[e].restore \in Sizes \union {0} /\ paneSize \in Sizes /\ unlucky \in BOOLEAN /\ 0 \notin DOMAIN entries
  BY <1>1, <1>2, EntryLemma DEF ViewportTypeOK
<1>6. ~unlucky /\ e = paneEntry =>
              /\ entries[e].restore # 0 => entries[e].restore >= OriginalSize
              /\ entries[e].restore = 0 \/ st = "delete" => paneSize >= OriginalSize
              /\ entries[e].restore # 0 \/ st # "apply"
              /\ ClampsFollow(entries[e])
  BY <1>1, <1>2, <1>5 DEF Restorable
<1>7. task(e).kind \in {"resize", "ensure", "release"}
  BY <1>3 DEF Tasks
<1> QED  BY <1>1, <1>2, <1>3, <1>4, <1>5, <1>6, <1>7 DEF TaskOf, TaskFor

LEMMA BeginKeeps ==
  ASSUME ViewportInv, NEW e, BeginTask(e)  PROVE ViewportInv'
<1> DEFINE n == entries[e]
<1>1. /\ HasTask(e, "begin") /\ UNCHANGED <<paneSize, paneEntry, lease, tasks, closing, unlucky>>
      /\ entries' = IF ~Owns(e) THEN Done(e)
                    ELSE IF task(e).kind = "release" /\ n.restore = 0 THEN AtStep(e, "delete")
                    ELSE AtStep(e, "read")
  BY DEF BeginTask
<1>2. /\ e \in DOMAIN entries /\ n.queue # <<>> /\ n.step = "begin" /\ n.restore \in Sizes \union {0}
      /\ task(e) = n.queue[1] /\ paneSize \in Sizes /\ unlucky \in BOOLEAN /\ ViewportTypeOK
      /\ ~unlucky /\ e = paneEntry =>
           /\ n.restore # 0 => n.restore >= OriginalSize
           /\ n.restore = 0 => paneSize >= OriginalSize
  BY <1>1, TaskLemma
<1>3. CASE ~Owns(e)
  <2>1. e = paneEntry => n.queue[1].by # n.owner
    BY <1>2, <1>3 DEF Owns
  <2>2. e = paneEntry => ~Resizes(n, 1) /\ \A l \in Leases : ~(Brings(n, l, 1) /\ n.owner = <<l, 0>>)
    BY <2>1 DEF Resizes, Brings
  <2>3. entries' = Done(e) /\ paneSize' = paneSize /\ unlucky' = unlucky
    BY <1>1, <1>3
  <2> HIDE DEF n
  <2>4. e = paneEntry /\ n.restore = 0 /\ ~unlucky => paneSize >= OriginalSize
    BY <1>2
  <2> USE DEF n
  <2> QED  BY <1>1, <1>2, <2>2, <2>3, <2>4, DoneKeeps
<1>4. CASE Owns(e)
  <2>1. e = paneEntry /\ n.queue[1].by = n.owner
    BY <1>2, <1>4 DEF Owns
  <2>2. PICK st \in {"read", "delete"} :
           /\ entries' = AtStep(e, st)
           /\ st = "delete" <=> n.queue[1].kind = "release" /\ n.restore = 0
    BY <1>1, <1>2, <1>4
  <2>3. entries' = [entries EXCEPT ![e] = [n EXCEPT !.step = st, !.restore = n.restore]]
    BY <1>2, <2>2, StepLemma
  <2> QED  BY <1>1, <1>2, <2>1, <2>2, <2>3, AdvanceKeeps
<1> QED  BY <1>3, <1>4

LEMMA ReadKeeps ==
  ASSUME ViewportInv, NEW e, ReadPane(e)  PROVE ViewportInv'
<1> DEFINE n == entries[e]
<1>1. /\ HasTask(e, "read") /\ UNCHANGED <<paneSize, paneEntry, lease, tasks, closing, unlucky>>
  BY DEF ReadPane
<1>2. /\ e \in DOMAIN entries /\ n.queue # <<>> /\ n.step = "read" /\ n.restore \in Sizes \union {0}
      /\ task(e) = n.queue[1] /\ paneSize \in Sizes /\ unlucky \in BOOLEAN /\ ViewportTypeOK
      /\ task(e).kind \in {"resize", "ensure", "release"}
      /\ task(e).kind # "release" => task(e).size \in Sizes
      /\ ~unlucky /\ e = paneEntry =>
           /\ n.restore # 0 => n.restore >= OriginalSize
           /\ n.restore = 0 => paneSize >= OriginalSize
           /\ ClampsFollow(n)
      /\ e = paneEntry /\ (n.queue[1].kind = "release" => n.restore # 0)
  BY <1>1, TaskLemma DEF StepAt
<1>3. CASE n.queue[1].kind = "release"
  <2>1. entries' = AtStep(e, "apply")
    BY <1>2, <1>3 DEF ReadPane
  <2>2. entries' = [entries EXCEPT ![e] = [n EXCEPT !.step = "apply", !.restore = n.restore]]
    BY <1>2, <2>1, StepLemma
  <2> QED  BY <1>1, <1>2, <1>3, <2>2, AdvanceKeeps
<1>4. CASE n.queue[1].kind # "release" /\ n.owner # n.queue[1].by
  <2>1. entries' = Done(e)
    BY <1>2, <1>4 DEF ReadPane
  <2>2. ~Resizes(n, 1) /\ \A l \in Leases : ~(Brings(n, l, 1) /\ n.owner = <<l, 0>>)
    BY <1>4 DEF Resizes, Brings
  <2>3. ~unlucky /\ n.restore = 0 => paneSize >= OriginalSize
    BY <1>2
  <2> QED  BY <1>1, <1>2, <2>1, <2>2, <2>3, DoneKeeps
<1>5. CASE n.queue[1].kind = "ensure" /\ n.owner = n.queue[1].by
  <2>1. entries' = IF paneSize = n.queue[1].size THEN Done(e) ELSE AtStep(e, "apply")
    BY <1>2, <1>5 DEF ReadPane
  <2>2. CASE paneSize = n.queue[1].size
    <3>1. ~Resizes(n, 1)
      BY <1>5 DEF Resizes
    <3>2. ~unlucky /\ n.restore = 0 => paneSize >= OriginalSize
      BY <1>2
    <3> QED  BY <1>1, <1>2, <2>1, <2>2, <3>1, <3>2, DoneKeeps
  <2>3. CASE paneSize # n.queue[1].size
    <3>1. ~unlucky => n.restore # 0
      <4>1. 1 \in DOMAIN n.queue
        BY <1>2, EntryLemma
      <4> QED  BY <1>2, <1>5, <4>1 DEF ClampsFollow
    <3>2. entries' = [entries EXCEPT ![e] = [n EXCEPT !.step = "apply", !.restore = n.restore]]
      BY <1>2, <2>1, <2>3, StepLemma
    <3> QED  BY <1>1, <1>2, <1>5, <3>1, <3>2, AdvanceKeeps
  <2> QED  BY <2>2, <2>3
<1>6. CASE n.queue[1].kind = "resize" /\ n.owner = n.queue[1].by
  <2> DEFINE r == Bigger(Baseline(e), task(e).size)
  <2>1. entries' = GivingBack(e, "apply", r)
    BY <1>2, <1>6 DEF ReadPane, GivingBack
  <2>2. /\ r \in Sizes /\ r # 0
        /\ ~unlucky => r >= OriginalSize
    <3>1. task(e).size \in Sizes
      BY <1>2, <1>6
    <3>2. Baseline(e) \in Sizes /\ (~unlucky => Baseline(e) >= OriginalSize)
      BY <1>2 DEF Baseline
    <3>3. OriginalSize \in Nat /\ 0 \notin Sizes /\ task(e).size \in Nat /\ Baseline(e) \in Nat
      BY <3>1, <3>2, ViewportAssumption
    <3>4. r = task(e).size \/ (r = Baseline(e) /\ Baseline(e) > task(e).size)
      BY DEF Bigger
    <3>5. r >= Baseline(e)
      BY <3>3 DEF Bigger
    <3> HIDE DEF r, n
    <3> QED  BY <3>1, <3>2, <3>3, <3>4, <3>5
  <2> HIDE DEF r
  <2>3. entries' = [entries EXCEPT ![e] = [n EXCEPT !.step = "apply", !.restore = r]]
    <3>1. n \in Entries /\ entries \in Seq(Entries) /\ e \in DOMAIN entries
      BY <1>2, EntryLemma DEF ViewportTypeOK
    <3>2. PICK at : at = [n EXCEPT !.step = "apply"]
      OBVIOUS
    <3>3. AtStep(e, "apply") = [entries EXCEPT ![e] = at]
      BY <3>2 DEF AtStep
    <3>4. entries' = [entries EXCEPT ![e] = [at EXCEPT !.restore = r]]
      BY <2>1, <3>1, <3>3 DEF GivingBack
    <3>5. [at EXCEPT !.restore = r] = [n EXCEPT !.step = "apply", !.restore = r]
      BY <3>1, <3>2 DEF Entries
    <3> QED  BY <3>4, <3>5
  <2> QED  BY <1>1, <1>2, <1>6, <2>2, <2>3, AdvanceKeeps
<1> QED  BY <1>2, <1>3, <1>4, <1>5, <1>6

LEMMA ReadFailsKeeps ==
  ASSUME ViewportInv, NEW e, ReadFails(e)  PROVE ViewportInv'
<1> DEFINE n == entries[e]
<1>1. /\ HasTask(e, "read") /\ UNCHANGED <<paneSize, paneEntry, lease, tasks, closing>> /\ unlucky' = TRUE
      /\ entries' = IF task(e).kind = "release" THEN AtStep(e, "apply") ELSE Done(e)
  BY DEF ReadFails
<1>2. /\ e \in DOMAIN entries /\ n.queue # <<>> /\ n.step = "read" /\ n.restore \in Sizes \union {0}
      /\ task(e) = n.queue[1] /\ paneSize \in Sizes /\ ViewportTypeOK
      /\ e = paneEntry /\ (n.queue[1].kind = "release" => n.restore # 0)
  BY <1>1, TaskLemma DEF StepAt
<1>3. CASE n.queue[1].kind = "release"
  <2>1. entries' = [entries EXCEPT ![e] = [n EXCEPT !.step = "apply", !.restore = n.restore]]
    BY <1>1, <1>2, <1>3, StepLemma
  <2> QED  BY <1>1, <1>2, <1>3, <2>1, AdvanceKeeps
<1>4. CASE n.queue[1].kind # "release"
  <2>1. entries' = Done(e)
    BY <1>1, <1>2, <1>4
  <2> QED  BY <1>1, <1>2, <2>1, DoneKeeps
<1> QED  BY <1>3, <1>4

LEMMA ApplyKeeps ==
  ASSUME ViewportInv, NEW e, ApplySize(e)  PROVE ViewportInv'
<1> DEFINE n == entries[e]
<1>1. /\ HasTask(e, "apply") /\ UNCHANGED <<paneEntry, lease, tasks, closing>>
      /\ entries' = IF task(e).kind = "release" THEN AtStep(e, "delete") ELSE Done(e)
      /\ \/ /\ paneSize' = IF task(e).kind = "release" THEN n.restore ELSE task(e).size
            /\ unlucky' = unlucky
         \/ paneSize' = paneSize /\ unlucky' = TRUE
  BY DEF ApplySize
<1>2. /\ e \in DOMAIN entries /\ n.queue # <<>> /\ n.step = "apply" /\ n.restore \in Sizes \union {0}
      /\ task(e) = n.queue[1] /\ paneSize \in Sizes /\ unlucky \in BOOLEAN /\ ViewportTypeOK
      /\ task(e).kind # "release" => task(e).size \in Sizes
      /\ ~unlucky => n.restore # 0 /\ n.restore >= OriginalSize
      /\ e = paneEntry /\ (n.queue[1].kind = "release" => n.restore # 0)
  BY <1>1, TaskLemma DEF StepAt
<1>3. paneSize' \in Sizes /\ unlucky' \in {unlucky, TRUE} /\ (~unlucky' => ~unlucky)
  BY <1>1, <1>2
<1>4. CASE n.queue[1].kind = "release"
  <2>1. entries' = [entries EXCEPT ![e] = [n EXCEPT !.step = "delete", !.restore = n.restore]]
    BY <1>1, <1>2, <1>4, StepLemma
  <2>2. ~unlucky' => paneSize' = n.restore
    BY <1>1, <1>2, <1>4
  <2> QED  BY <1>1, <1>2, <1>3, <1>4, <2>1, <2>2, AdvanceKeeps, ZenonT(60)
<1>5. CASE n.queue[1].kind # "release"
  <2>1. entries' = Done(e)
    BY <1>1, <1>2, <1>5
  <2>2. ~unlucky' => paneSize' = n.queue[1].size
    BY <1>1, <1>2, <1>5
  <2> QED  BY <1>1, <1>2, <1>3, <2>1, <2>2, DoneKeeps
<1> QED  BY <1>4, <1>5

LEMMA DeleteKeeps ==
  ASSUME ViewportInv, NEW e, DeleteEntry(e)  PROVE ViewportInv'
<1> DEFINE n == entries[e]
<1>1. /\ HasTask(e, "delete") /\ UNCHANGED <<paneSize, lease, tasks, closing, unlucky>>
      /\ entries' = Done(e) /\ paneEntry' = IF Owns(e) THEN 0 ELSE paneEntry
  BY DEF DeleteEntry
<1>2. /\ e \in DOMAIN entries /\ n.queue # <<>> /\ n.step = "delete"
      /\ task(e) = n.queue[1] /\ paneSize \in Sizes /\ unlucky \in BOOLEAN /\ ViewportTypeOK
      /\ ~unlucky => paneSize >= OriginalSize
      /\ e = paneEntry /\ n.queue[1].kind = "release" /\ n.queue[1].by[2] # 0
  BY <1>1, TaskLemma DEF StepAt
<1>3. CASE ~Owns(e)
  <2>1. n.queue[1].by # n.owner
    BY <1>2, <1>3 DEF Owns
  <2>2. ~Resizes(n, 1) /\ \A l \in Leases : ~(Brings(n, l, 1) /\ n.owner = <<l, 0>>)
    BY <2>1 DEF Resizes, Brings
  <2>3. paneEntry' = paneEntry
    BY <1>1, <1>3
  <2> QED  BY <1>1, <1>2, <2>2, <2>3, DoneKeeps
<1>4. CASE Owns(e)
  <2> DEFINE new == [n EXCEPT !.queue = Tail(n.queue), !.step = "begin"]
  <2>1. /\ Queues /\ Order /\ OwnerServed /\ paneEntry' = 0 /\ n.owner = n.queue[1].by
        /\ n.queue \in Seq(Tasks)
    BY <1>1, <1>2, <1>4, EntryLemma DEF ViewportInv, Owns
  <2>2. /\ new \in Entries /\ new.step = "begin" /\ new.owner = n.owner /\ new.queue = Tail(n.queue)
        /\ entries' = [entries EXCEPT ![e] = new]
    BY <1>1, <1>2, DoneLemma
  <2> HIDE DEF new
  <2>3. /\ entries' \in Seq(Entries) /\ Len(entries') = Len(entries)
        /\ DOMAIN entries' = DOMAIN entries /\ entries'[e] = new
        /\ \A f \in DOMAIN entries : f # e => entries'[f] = entries[f]
    BY <1>2, <2>2, ChangeLemma
  <2>4. ViewportTypeOK'
    <3>1. \A f \in DOMAIN entries' : entries'[f].step # "begin" => entries'[f].queue # <<>>
      BY <1>2, <2>2, <2>3 DEF ViewportTypeOK
    <3>2. paneEntry' \in 0..Len(entries') /\ lease' \in [Leases -> [entry : Nat, size : Sizes \union {0}, open : BOOLEAN]]
          /\ (\A l \in Leases : lease'[l].entry <= Len(entries')) /\ tasks' \in Nat /\ closing' \in BOOLEAN
          /\ unlucky' \in BOOLEAN /\ paneSize' \in Sizes
      BY <1>1, <1>2, <2>1, <2>3 DEF ViewportTypeOK
    <3> QED  BY <2>3, <3>1, <3>2 DEF ViewportTypeOK
  <2>5. Queues'
    <3> SUFFICES ASSUME NEW f \in DOMAIN entries PROVE StepAt(f)' /\ TasksAt(f)'
      BY <2>3 DEF Queues
    <3>1. StepAt(f) /\ TasksAt(f)
      BY <2>1 DEF Queues
    <3>2. \A t : TaskOf(t, f)' <=> TaskOf(t, f)
      BY <1>1 DEF TaskOf, TaskFor
    <3>3. CASE f # e
      BY <1>2, <2>3, <3>1, <3>2, <3>3 DEF StepAt, TasksAt
    <3>4. CASE f = e
      <4>1. DOMAIN new.queue = 1..(Len(n.queue) - 1)
            /\ \A i \in 1..(Len(n.queue) - 1) : i + 1 \in DOMAIN n.queue /\ new.queue[i] = n.queue[i + 1]
        BY <1>2, <2>1, <2>2, TailLemma
      <4>2. \A i \in DOMAIN n.queue : TaskOf(n.queue[i], e)
        BY <3>1, <3>4 DEF TasksAt
      <4>3. \A i \in DOMAIN entries'[e].queue : TaskOf(entries'[e].queue[i], e)
        BY <2>3, <4>1, <4>2
      <4>4. TasksAt(f)'
        BY <1>1, <3>4, <4>3 DEF TasksAt, TaskOf, TaskFor
      <4>5. StepAt(f)'
        BY <2>2, <2>3, <3>4 DEF StepAt
      <4> QED  BY <4>4, <4>5
    <3> QED  BY <3>3, <3>4
  <2>6. Order'
    <3>1. \A f \in DOMAIN entries : entries'[f].owner = entries[f].owner
      BY <2>2, <2>3
    <3> QED  BY <1>1, <2>1, <2>3, <3>1 DEF Order, Acquired
  <2>7. Restorable' /\ SizeComesBack'
    BY <1>1, <1>2, <2>1 DEF Restorable, SizeComesBack
  <2>8. OwnerServed'
    <3>1. \A l \in Leases : IsLatest(l)' <=> IsLatest(l)
      BY <1>1 DEF IsLatest, Acquired
    <3>2. ~closing => \A l \in Leases : IsLatest(l) => ~lease[l].open
      BY <1>2, <2>1 DEF OwnerServed
    <3>3. entries # <<>>
      BY <1>2
    <3> QED  BY <1>1, <2>1, <3>1, <3>2, <3>3 DEF OwnerServed
  <2> QED  BY <2>4, <2>5, <2>6, <2>7, <2>8 DEF ViewportInv
<1> QED  BY <1>3, <1>4

(* ---------------------------- a browser comes ---------------------------- *)

LEMMA AcquireLemma ==
  ASSUME ViewportInv, NEW l \in Leases, Acquire(l)
  PROVE  /\ lease' \in [Leases -> [entry : Nat, size : Sizes \union {0}, open : BOOLEAN]]
         /\ lease'[l] = [entry |-> paneEntry', size |-> 0, open |-> TRUE]
         /\ \A k \in Leases : k # l => lease'[k] = lease[k]
         /\ lease[l].entry = 0 /\ paneEntry' # 0
         /\ \A k \in Leases : IsLatest(k)' <=> k = l
         /\ \A k \in Leases : lease'[k].open => Acquired(k)'
         /\ \A j, k \in Leases : Acquired(k)' /\ j < k => Acquired(j)'
<1>1. ViewportTypeOK /\ Order
  BY DEF ViewportInv
<1>2. paneEntry' \in Nat \ {0}
  <2>1. Len(entries) \in Nat /\ paneEntry \in 0..Len(entries)
    BY <1>1 DEF ViewportTypeOK
  <2> QED  BY <2>1 DEF Acquire
<1>3. /\ lease[l].entry = 0 /\ (l > 1 => lease[l - 1].entry # 0)
      /\ lease' = [lease EXCEPT ![l] = [entry |-> paneEntry', size |-> 0, open |-> TRUE]]
  BY DEF Acquire, Acquired
<1>4. /\ lease' \in [Leases -> [entry : Nat, size : Sizes \union {0}, open : BOOLEAN]]
      /\ lease'[l] = [entry |-> paneEntry', size |-> 0, open |-> TRUE]
      /\ \A k \in Leases : k # l => lease'[k] = lease[k]
  BY <1>1, <1>2, <1>3 DEF ViewportTypeOK
<1>5. \A k \in Leases : Acquired(k)' <=> Acquired(k) \/ k = l
  BY <1>2, <1>4 DEF Acquired
<1>6. \A k \in Leases : lease'[k].open => Acquired(k)'
  BY <1>1, <1>4, <1>5 DEF Order
<1>7. Leases \subseteq Nat /\ \A k \in Leases : k > 1 => k - 1 \in Leases
  BY ViewportAssumption DEF Leases
<1>8. \A k \in Leases : Acquired(k) => k < l
  <2> SUFFICES ASSUME NEW k \in Leases, Acquired(k), k >= l PROVE FALSE
    BY <1>7
  <2>1. k # l
    BY <1>3 DEF Acquired
  <2>2. l < k
    BY <1>7, <2>1
  <2> QED  BY <1>1, <1>3, <2>2 DEF Order, Acquired
<1>9. \A j \in Leases : j < l => Acquired(j)
  <2> SUFFICES ASSUME NEW j \in Leases, j < l PROVE Acquired(j)
    OBVIOUS
  <2>1. l > 1 /\ l - 1 \in Leases
    BY <1>7, ViewportAssumption DEF Leases
  <2>2. Acquired(l - 1)
    BY <1>3, <2>1 DEF Acquired
  <2>3. j = l - 1 \/ j < l - 1
    BY <1>7
  <2> QED  BY <1>1, <2>1, <2>2, <2>3 DEF Order
<1>10. \A j, k \in Leases : Acquired(k)' /\ j < k => Acquired(j)'
  BY <1>1, <1>5, <1>9 DEF Order
<1>11. \A k \in Leases : IsLatest(k)' <=> k = l
  <2> SUFFICES ASSUME NEW k \in Leases PROVE IsLatest(k)' <=> k = l
    OBVIOUS
  <2>1. IsLatest(k)' <=> Acquired(k)' /\ \A j \in Leases : Acquired(j)' => j <= k
    BY DEF IsLatest
  <2> HIDE DEF Acquired
  <2> QED  BY <1>5, <1>7, <1>8, <2>1
<1> QED  BY <1>2, <1>3, <1>4, <1>6, <1>10, <1>11

LEMMA AcquireKeeps ==
  ASSUME ViewportInv, NEW l \in Leases, Acquire(l)  PROVE ViewportInv'
<1>1. /\ ViewportTypeOK /\ Queues /\ Order /\ Restorable /\ SizeComesBack /\ OwnerServed
      /\ l \in Nat /\ entries \in Seq(Entries)
  <2>1. ViewportTypeOK /\ Queues /\ Order /\ Restorable /\ SizeComesBack /\ OwnerServed
    BY DEF ViewportInv
  <2>2. l \in Nat
    BY ViewportAssumption DEF Leases
  <2>3. entries \in Seq(Entries)
    BY <2>1 DEF ViewportTypeOK
  <2> QED  BY <2>1, <2>2, <2>3
<1>2. /\ lease' \in [Leases -> [entry : Nat, size : Sizes \union {0}, open : BOOLEAN]]
      /\ lease'[l].entry = paneEntry' /\ lease'[l].size = 0
      /\ \A k \in Leases : k # l => lease'[k] = lease[k]
      /\ lease[l].entry = 0 /\ paneEntry' # 0
      /\ \A k \in Leases : IsLatest(k)' <=> k = l
      /\ \A k \in Leases : lease'[k].open => Acquired(k)'
      /\ \A j, k \in Leases : Acquired(k)' /\ j < k => Acquired(j)'
  BY AcquireLemma
<1>3. ~closing /\ UNCHANGED <<paneSize, tasks, closing, unlucky>>
  BY DEF Acquire
<1>4. \A e \in DOMAIN entries : TasksAt(e) /\ StepAt(e)
  BY <1>1 DEF Queues
(* no task was asked for by the browser that comes                          *)
<1>5. ASSUME NEW e \in DOMAIN entries, NEW i \in DOMAIN entries[e].queue
      PROVE  /\ TaskFor(entries[e].queue[i], e, lease')
             /\ entries[e].queue[i].kind # "release" => entries[e].queue[i].by # <<l, 0>>
  <2> DEFINE t == entries[e].queue[i]
  <2>1. t \in Tasks /\ e # 0
    BY <1>1, EntryLemma
  <2>2. t.by[1] \in Leases
    BY <2>1 DEF Tasks
  <2>3. TaskFor(t, e, lease)
    BY <1>4 DEF TasksAt, TaskOf
  <2> HIDE DEF t
  <2>4. t.kind # "release" => t.by[1] # l
    BY <1>2, <2>1, <2>3 DEF TaskFor
  <2>5. TaskFor(t, e, lease')
    BY <1>2, <2>2, <2>3, <2>4 DEF TaskFor
  <2> QED  BY <2>4, <2>5 DEF t
<1>6. CASE paneEntry = 0
  <2> DEFINE new == NewEntry(l)
             N == Len(entries)
  <2>1. entries' = Append(entries, new) /\ paneEntry' = N + 1
    BY <1>6 DEF Acquire
  <2>2. /\ new \in Entries /\ new.step = "begin" /\ new.queue = <<>> /\ new.restore = 0
        /\ new.owner = <<l, 0>>
    BY DEF NewEntry, Entries
  <2> HIDE DEF new
  <2>3. /\ entries' \in Seq(Entries) /\ DOMAIN entries = 1..N /\ N \in Nat
        /\ DOMAIN entries' = 1..(N + 1) /\ entries' # <<>> /\ entries'[N + 1] = new
        /\ Len(entries') = N + 1
        /\ \A e \in DOMAIN entries : e \in 1..(N + 1) /\ e # N + 1 /\ entries'[e] = entries[e]
    BY <1>1, <2>1, <2>2, AppendLemma
  <2> HIDE DEF N
  <2>4. \A e \in DOMAIN entries' : e \in DOMAIN entries \/ (e = N + 1 /\ entries'[e] = new)
    BY <2>3
  <2>5. ViewportTypeOK'
    <3>1. \A e \in DOMAIN entries' : entries'[e].step # "begin" => entries'[e].queue # <<>>
      BY <1>1, <2>2, <2>3, <2>4 DEF ViewportTypeOK
    <3>2. \A k \in Leases : lease'[k].entry <= N + 1
      <4>1. \A k \in Leases : lease[k].entry <= N /\ lease[k].entry \in Nat
        BY <1>1 DEF ViewportTypeOK, N
      <4>2. ASSUME NEW k \in Leases PROVE lease'[k].entry <= N + 1
        <5>1. lease'[k].entry = N + 1 \/ lease'[k].entry = lease[k].entry
          BY <1>2, <2>1
        <5> QED  BY <2>3, <4>1, <5>1
      <4> QED  BY <4>2
    <3>3. paneEntry' \in 0..(N + 1) /\ paneSize' \in Sizes /\ tasks' \in Nat /\ closing' \in BOOLEAN
          /\ unlucky' \in BOOLEAN
      BY <1>1, <1>3, <2>1, <2>3 DEF ViewportTypeOK
    <3> QED  BY <1>2, <2>3, <3>1, <3>2, <3>3 DEF ViewportTypeOK
  <2>6. Queues'
    <3> SUFFICES ASSUME NEW e \in DOMAIN entries' PROVE StepAt(e)' /\ TasksAt(e)'
      BY DEF Queues
    <3>1. CASE e \in DOMAIN entries
      <4>1. entries'[e] = entries[e] /\ entries[e].step = "begin"
        <5>1. e # 0
          BY <2>3, <3>1
        <5> QED  BY <1>4, <1>6, <2>3, <3>1, <5>1 DEF StepAt
      <4>2. \A i \in DOMAIN entries'[e].queue : TaskFor(entries'[e].queue[i], e, lease')
        BY <1>5, <3>1, <4>1
      <4> QED  BY <4>1, <4>2 DEF StepAt, TasksAt, TaskOf
    <3>2. CASE e = N + 1 /\ entries'[e] = new
      BY <2>2, <3>2 DEF StepAt, TasksAt, TaskOf
    <3> QED  BY <2>4, <3>1, <3>2
  <2>7. Order'
    <3>1. \A e \in DOMAIN entries' : entries'[e].owner[2] # 2
      <4>1. \A e \in DOMAIN entries : entries[e].owner[2] # 2
        BY <1>1, <1>3 DEF Order
      <4>2. new.owner[2] # 2
        BY <2>2
      <4> QED  BY <2>3, <2>4, <4>1, <4>2
    <3> QED  BY <1>2, <3>1 DEF Order
  <2>8. entries'[paneEntry'] = new
    BY <2>1, <2>3
  <2>9. Restorable'
    <3>1. ~unlucky => paneSize >= OriginalSize
      BY <1>1, <1>6 DEF SizeComesBack
    <3>2. ClampsFollow(new) /\ new.restore = 0 /\ new.step = "begin"
      BY <2>2 DEF ClampsFollow
    <3>3. \A k \in Leases : new.owner = <<k, 0>> => k = l
      BY <2>2
    <3> QED  BY <1>2, <1>3, <2>8, <3>1, <3>2, <3>3 DEF Restorable
  <2>10. SizeComesBack'
    BY <1>2 DEF SizeComesBack
  <2>11. OwnerServed'
    BY <1>2, <2>2, <2>8 DEF OwnerServed
  <2> QED  BY <2>5, <2>6, <2>7, <2>9, <2>10, <2>11 DEF ViewportInv
<1>7. CASE paneEntry # 0
  <2> DEFINE e == paneEntry
             n == entries[e]
             new == [n EXCEPT !.owner = <<l, 0>>]
  <2>1. e \in DOMAIN entries /\ paneEntry' = e
    BY <1>1, <1>7 DEF ViewportTypeOK, Acquire
  <2>2. n \in Entries
    BY <1>1, <2>1, EntryLemma
  <2>3. /\ new \in Entries /\ new.step = n.step /\ new.queue = n.queue /\ new.restore = n.restore
        /\ new.owner = <<l, 0>>
    <3>1. <<l, 0>> \in Leases \X (0..2)
      OBVIOUS
    <3> QED  BY <2>2, <3>1 DEF Entries
  <2>4. entries' = [entries EXCEPT ![e] = new]
    BY <1>7 DEF Acquire
  <2> HIDE DEF new
  <2>5. /\ entries' \in Seq(Entries) /\ Len(entries') = Len(entries)
        /\ DOMAIN entries' = DOMAIN entries /\ entries'[e] = new
        /\ \A f \in DOMAIN entries : f # e => entries'[f] = entries[f]
    BY <1>1, <2>1, <2>3, <2>4, ChangeLemma
  <2>6. ViewportTypeOK'
    <3>1. \A f \in DOMAIN entries' : entries'[f].step # "begin" => entries'[f].queue # <<>>
      BY <1>1, <2>3, <2>5 DEF ViewportTypeOK
    <3>2. \A k \in Leases : lease'[k].entry <= Len(entries)
      <4>1. paneEntry <= Len(entries)
        BY <1>1 DEF ViewportTypeOK
      <4> QED  BY <1>1, <1>2, <2>1, <4>1 DEF ViewportTypeOK
    <3>3. paneEntry' \in 0..Len(entries') /\ paneSize' \in Sizes /\ tasks' \in Nat /\ closing' \in BOOLEAN
          /\ unlucky' \in BOOLEAN
      BY <1>1, <1>3, <2>1, <2>5 DEF ViewportTypeOK
    <3> QED  BY <1>2, <2>5, <3>1, <3>2, <3>3 DEF ViewportTypeOK
  <2>7. Queues'
    <3> SUFFICES ASSUME NEW f \in DOMAIN entries PROVE StepAt(f)' /\ TasksAt(f)'
      BY <2>5 DEF Queues
    <3>1. entries'[f].queue = entries[f].queue /\ entries'[f].step = entries[f].step
          /\ entries'[f].restore = entries[f].restore
      BY <2>3, <2>5
    <3>2. StepAt(f)'
      BY <1>4, <2>1, <3>1 DEF StepAt
    <3>3. \A i \in DOMAIN entries'[f].queue : TaskFor(entries'[f].queue[i], f, lease')
      BY <1>5, <3>1
    <3> QED  BY <3>2, <3>3 DEF TasksAt, TaskOf
  <2>8. Order'
    <3>1. \A f \in DOMAIN entries' : entries'[f].owner[2] # 2
      <4>1. \A f \in DOMAIN entries : entries[f].owner[2] # 2
        BY <1>1, <1>3 DEF Order
      <4>2. new.owner[2] # 2
        BY <2>3
      <4> QED  BY <2>5, <4>1, <4>2
    <3> QED  BY <1>2, <3>1 DEF Order
  <2>9. Restorable'
    <3> SUFFICES ASSUME ~unlucky PROVE Restorable'
      BY <1>3 DEF Restorable
    <3>1. /\ n.restore # 0 => n.restore >= OriginalSize
          /\ n.restore = 0 \/ n.step = "delete" => paneSize >= OriginalSize
          /\ n.restore # 0 \/ n.step # "apply"
      BY <1>1, <1>7 DEF Restorable
    <3>2. ClampsFollow(new)
      <4>1. \A i \in DOMAIN new.queue : new.queue[i].kind = "ensure" => new.queue[i].by # new.owner
        BY <1>5, <2>1, <2>3
      <4> QED  BY <4>1 DEF ClampsFollow
    <3>3. \A k \in Leases : new.owner = <<k, 0>> => k = l
      BY <2>3
    <3>4. entries'[paneEntry'] = new
      BY <2>1, <2>5
    <3> QED  BY <1>2, <1>3, <2>3, <3>1, <3>2, <3>3, <3>4 DEF Restorable
  <2>10. SizeComesBack'
    BY <1>2 DEF SizeComesBack
  <2>11. OwnerServed'
    <3>1. entries'[paneEntry'].owner = <<l, 0>>
      BY <2>1, <2>3, <2>5
    <3> QED  BY <1>2, <3>1 DEF OwnerServed
  <2> QED  BY <2>6, <2>7, <2>8, <2>9, <2>10, <2>11 DEF ViewportInv
<1> QED  BY <1>6, <1>7

(* ---------------------- a browser asks, or releases ---------------------- *)

(* What a task at the end of the queue changes of what the queue knows      *)
LEMMA MoreLemma ==
  ASSUME NEW n \in Entries, NEW t \in Tasks, NEW new \in Entries, new.queue = Append(n.queue, t),
         new.owner = n.owner, new.restore = n.restore
  PROVE  /\ ResizeKnown(n) => ResizeKnown(new)
         /\ t.kind = "resize" /\ t.by = n.owner => ResizeKnown(new)
         /\ ClampsFollow(n) /\ (t.kind = "ensure" /\ t.by = n.owner => ResizeKnown(n)) => ClampsFollow(new)
         /\ \A l : t.by # <<l, 0>> => /\ NoneBrings(n, l) => NoneBrings(new, l)
                                      /\ \A size : LastBrings(n, l, size) => LastBrings(new, l, size)
         /\ \A l : t.by = <<l, 0>> => LastBrings(new, l, t.size)
<1> DEFINE N == Len(n.queue)
<1>1. n.queue \in Seq(Tasks)
  BY DEF Entries
<1>2. /\ DOMAIN n.queue = 1..N /\ N \in Nat /\ DOMAIN new.queue = 1..(N + 1)
      /\ new.queue[N + 1] = t
      /\ \A i \in 1..N : i \in 1..(N + 1) /\ i # N + 1 /\ new.queue[i] = n.queue[i]
  <2> HIDE DEF N
  <2>1. N = Len(n.queue)
    BY DEF N
  <2> QED  BY <1>1, <2>1, AppendLemma
<1> HIDE DEF N
<1>3. \A i \in 1..(N + 1) : i \in 1..N \/ i = N + 1
  BY <1>2
<1>4. \A i \in 1..N : Resizes(new, i) <=> Resizes(n, i)
  BY <1>2 DEF Resizes
<1>5. ASSUME ResizeKnown(n) PROVE ResizeKnown(new)
  BY <1>2, <1>4, <1>5 DEF ResizeKnown
<1>6. ASSUME t.kind = "resize" /\ t.by = n.owner PROVE ResizeKnown(new)
  <2>1. N + 1 \in DOMAIN new.queue /\ Resizes(new, N + 1)
    BY <1>2, <1>6 DEF Resizes
  <2> QED  BY <2>1 DEF ResizeKnown
<1>7. ASSUME ClampsFollow(n), t.kind = "ensure" /\ t.by = n.owner => ResizeKnown(n)
      PROVE  ClampsFollow(new)
  <2> SUFFICES ASSUME NEW i \in 1..(N + 1), new.queue[i].kind = "ensure",
                      new.queue[i].by = new.owner, new.restore = 0
               PROVE  \E j \in 1..(i - 1) : Resizes(new, j)
    BY <1>2 DEF ClampsFollow
  <2>1. CASE i \in 1..N
    <3>1. n.queue[i].kind = "ensure" /\ n.queue[i].by = n.owner /\ n.restore = 0
      BY <1>2, <2>1
    <3>2. PICK j \in 1..(i - 1) : Resizes(n, j)
      BY <1>2, <1>7, <2>1, <3>1 DEF ClampsFollow
    <3>3. j \in 1..N
      BY <1>2, <2>1, <3>2
    <3> QED  BY <1>4, <3>2, <3>3
  <2>2. CASE i = N + 1
    <3>1. ResizeKnown(n) /\ n.restore = 0
      BY <1>2, <1>7, <2>2
    <3>2. PICK j \in 1..N : Resizes(n, j)
      BY <1>2, <3>1 DEF ResizeKnown
    <3>3. j \in 1..(i - 1)
      BY <1>2, <2>2
    <3> QED  BY <1>4, <3>2, <3>3
  <2> QED  BY <1>3, <2>1, <2>2
<1>8. ASSUME NEW l, t.by # <<l, 0>>, NoneBrings(n, l)  PROVE NoneBrings(new, l)
  <2> SUFFICES ASSUME NEW j \in 1..(N + 1) PROVE ~Brings(new, l, j)
    BY <1>2 DEF NoneBrings
  <2>1. CASE j \in 1..N
    BY <1>2, <1>8, <2>1 DEF NoneBrings, Brings
  <2>2. CASE j = N + 1
    BY <1>2, <1>8, <2>2 DEF Brings
  <2> QED  BY <1>3, <2>1, <2>2
<1>9. ASSUME NEW l, t.by # <<l, 0>>, NEW size, LastBrings(n, l, size)  PROVE LastBrings(new, l, size)
  <2>1. PICK i \in 1..N : /\ Brings(n, l, i) /\ n.queue[i].size = size
                          /\ \A j \in 1..N : j > i => ~Brings(n, l, j)
    BY <1>2, <1>9 DEF LastBrings
  <2>2. i \in 1..(N + 1) /\ Brings(new, l, i) /\ new.queue[i].size = size
    BY <1>2, <2>1 DEF Brings
  <2>3. ASSUME NEW j \in 1..(N + 1), j > i PROVE ~Brings(new, l, j)
    <3>1. CASE j \in 1..N
      BY <1>2, <2>1, <2>3, <3>1 DEF Brings
    <3>2. CASE j = N + 1
      BY <1>2, <1>9, <3>2 DEF Brings
    <3> QED  BY <1>3, <3>1, <3>2
  <2> QED  BY <1>2, <2>2, <2>3 DEF LastBrings
<1>10. ASSUME NEW l, t.by = <<l, 0>>  PROVE LastBrings(new, l, t.size)
  <2>1. N + 1 \in 1..(N + 1) /\ \A j \in 1..(N + 1) : ~(j > N + 1)
    BY <1>2
  <2>2. Brings(new, l, N + 1) /\ new.queue[N + 1].size = t.size
    BY <1>2, <1>10 DEF Brings
  <2> QED  BY <1>2, <2>1, <2>2 DEF LastBrings
<1> QED  BY <1>5, <1>6, <1>7, <1>8, <1>9, <1>10

(* The frame of a task that is added                                        *)
LEMMA AddedLemma ==
  ASSUME ViewportTypeOK, Queues, NEW e \in DOMAIN entries, NEW t \in Tasks, NEW new \in Entries,
         new.queue = Append(entries[e].queue, t), new.step = entries[e].step,
         new.restore = entries[e].restore, entries' = [entries EXCEPT ![e] = new],
         paneEntry' = paneEntry,
         \A k \in Leases : lease'[k].entry = lease[k].entry,
         TaskFor(t, e, lease)
  PROVE  Queues' /\ \A f \in DOMAIN entries' : entries'[f].step # "begin" => entries'[f].queue # <<>>
<1>1. /\ DOMAIN entries' = DOMAIN entries /\ entries'[e] = new
      /\ \A f \in DOMAIN entries : f # e => entries'[f] = entries[f]
  BY ChangeLemma
<1>2. entries[e].queue \in Seq(Tasks)
  BY EntryLemma
<1>3. /\ new.queue # <<>> /\ \A i \in DOMAIN entries[e].queue : new.queue[i] = entries[e].queue[i]
      /\ \A i \in DOMAIN new.queue : i \in DOMAIN entries[e].queue \/ new.queue[i] = t
      /\ entries[e].queue # <<>> => 1 \in DOMAIN entries[e].queue
  BY <1>2, AppendLemma
<1>4. ASSUME NEW f \in DOMAIN entries PROVE StepAt(f)' /\ TasksAt(f)'
  <2>1. StepAt(f) /\ TasksAt(f)
    BY DEF Queues
  <2>2. ASSUME NEW i \in DOMAIN entries[f].queue PROVE TaskFor(entries[f].queue[i], f, lease')
    <3>1. entries[f].queue[i] \in Tasks
      BY EntryLemma
    <3>2. entries[f].queue[i].by[1] \in Leases
      BY <3>1 DEF Tasks
    <3>3. TaskFor(entries[f].queue[i], f, lease)
      BY <2>1 DEF TasksAt, TaskOf
    <3> QED  BY <3>2, <3>3 DEF TaskFor
  <2>3. CASE f # e
    BY <1>1, <2>1, <2>2, <2>3 DEF StepAt, TasksAt, TaskOf
  <2>4. CASE f = e
    <3>1. StepAt(f)'
      BY <1>1, <1>3, <2>1, <2>4 DEF StepAt
    <3>2. TaskFor(t, e, lease')
      <4>1. t.by[1] \in Leases
        BY DEF Tasks
      <4> QED  BY <4>1 DEF TaskFor
    <3>3. \A i \in DOMAIN new.queue : TaskFor(new.queue[i], e, lease')
      BY <1>3, <2>2, <2>4, <3>2
    <3>4. TasksAt(f)'
      BY <1>1, <2>4, <3>3 DEF TasksAt, TaskOf
    <3> QED  BY <3>1, <3>4
  <2> QED  BY <2>3, <2>4
<1>5. \A f \in DOMAIN entries' : entries'[f].step # "begin" => entries'[f].queue # <<>>
  BY <1>1, <1>3 DEF ViewportTypeOK
<1> QED  BY <1>1, <1>4, <1>5 DEF Queues

LEMMA AskKeeps ==
  ASSUME ViewportInv, NEW l \in Leases, NEW kind \in {"resize", "ensure"}, NEW size \in Sizes,
         AskFor(l, kind, size)
  PROVE  ViewportInv'
<1> DEFINE e == lease[l].entry
           n == entries[e]
           t == [kind |-> kind, by |-> <<l, 0>>, size |-> size]
           new == [n EXCEPT !.queue = Append(n.queue, t), !.owner = n.owner]
<1>1. /\ ViewportTypeOK /\ Queues /\ Order /\ Restorable /\ SizeComesBack /\ OwnerServed
      /\ UNCHANGED <<paneSize, paneEntry, closing, unlucky>> /\ tasks' = tasks + 1
      /\ lease[l].open /\ (kind = "ensure" => size = lease[l].size) /\ size # 0
      /\ lease' = [lease EXCEPT ![l].size = size]
      /\ entries' = [entries EXCEPT ![e].queue = Append(@, t)]
  BY DEF ViewportInv, AskFor, Enqueue
<1>2. /\ lease' \in [Leases -> [entry : Nat, size : Sizes \union {0}, open : BOOLEAN]]
      /\ \A k \in Leases : lease'[k].entry = lease[k].entry /\ lease'[k].open = lease[k].open
      /\ lease'[l].size = size /\ \A k \in Leases : k # l => lease'[k].size = lease[k].size
  BY <1>1 DEF ViewportTypeOK
<1>3. e \in DOMAIN entries /\ e # 0
  BY <1>1 DEF Order, Acquired, ViewportTypeOK
<1>4. n \in Entries /\ n.owner \in Leases \X (0..2)
  BY <1>1, <1>3, EntryLemma
<1>5. t \in Tasks /\ t.kind = kind /\ t.by = <<l, 0>> /\ t.size = size /\ t.by[1] = l
  <2>1. <<l, 0>> \in Leases \X (0..2)
    OBVIOUS
  <2> QED  BY <2>1 DEF Tasks
<1> HIDE DEF t
<1>6. /\ new \in Entries /\ new.step = n.step /\ new.restore = n.restore
      /\ new.owner = n.owner /\ new.queue = Append(n.queue, t)
      /\ entries' = [entries EXCEPT ![e] = new]
  <2>1. n.queue \in Seq(Tasks) /\ entries \in Seq(Entries)
    BY <1>1, <1>3, EntryLemma DEF ViewportTypeOK
  <2>2. Append(n.queue, t) \in Seq(Tasks)
    BY <1>5, <2>1
  <2>3. /\ new \in Entries /\ new.step = n.step /\ new.restore = n.restore
        /\ new.owner = n.owner /\ new.queue = Append(n.queue, t)
    BY <1>4, <2>2 DEF Entries
  <2>4. [n EXCEPT !.queue = Append(n.queue, t)] = new
    BY <1>4 DEF Entries
  <2>5. entries' = [entries EXCEPT ![e] = [n EXCEPT !.queue = Append(n.queue, t)]]
    BY <1>1, <1>3, <2>1
  <2> QED  BY <2>3, <2>4, <2>5
<1> HIDE DEF new
<1>7. /\ entries' \in Seq(Entries) /\ Len(entries') = Len(entries)
      /\ DOMAIN entries' = DOMAIN entries /\ entries'[e] = new
      /\ \A f \in DOMAIN entries : f # e => entries'[f] = entries[f]
  BY <1>1, <1>3, <1>6, ChangeLemma
<1>8. /\ ResizeKnown(n) => ResizeKnown(new)
      /\ kind = "resize" /\ n.owner = <<l, 0>> => ResizeKnown(new)
      /\ ClampsFollow(n) /\ (kind = "ensure" /\ n.owner = <<l, 0>> => ResizeKnown(n)) => ClampsFollow(new)
      /\ \A k : k # l => /\ NoneBrings(n, k) => NoneBrings(new, k)
                         /\ \A s : LastBrings(n, k, s) => LastBrings(new, k, s)
      /\ LastBrings(new, l, size)
  <2>1. \A k : k # l => t.by # <<k, 0>>
    BY <1>5
  <2>2. t.by = <<l, 0>> /\ t.kind = kind /\ t.size = size /\ t \in Tasks
    BY <1>5
  <2>3. n \in Entries /\ new \in Entries /\ new.queue = Append(n.queue, t)
        /\ new.owner = n.owner /\ new.restore = n.restore
    BY <1>4, <1>6
  <2> HIDE DEF n
  <2>4. /\ ResizeKnown(n) => ResizeKnown(new)
        /\ t.kind = "resize" /\ t.by = n.owner => ResizeKnown(new)
        /\ ClampsFollow(n) /\ (t.kind = "ensure" /\ t.by = n.owner => ResizeKnown(n)) => ClampsFollow(new)
        /\ \A k : t.by # <<k, 0>> => /\ NoneBrings(n, k) => NoneBrings(new, k)
                                     /\ \A s : LastBrings(n, k, s) => LastBrings(new, k, s)
        /\ \A k : t.by = <<k, 0>> => LastBrings(new, k, t.size)
    BY <2>2, <2>3, MoreLemma
  <2> QED  BY <2>1, <2>2, <2>4
<1>9. Queues' /\ \A f \in DOMAIN entries' : entries'[f].step # "begin" => entries'[f].queue # <<>>
  <2>1. TaskFor(t, e, lease)
    BY <1>5 DEF TaskFor
  <2>2. /\ ViewportTypeOK /\ Queues /\ e \in DOMAIN entries /\ t \in Tasks /\ new \in Entries
        /\ paneEntry' = paneEntry /\ \A k \in Leases : lease'[k].entry = lease[k].entry
    BY <1>1, <1>2, <1>3, <1>5, <1>6
  <2> QED  BY <1>6, <2>1, <2>2, AddedLemma
<1>10. ViewportTypeOK'
  <2>1. \A k \in Leases : lease'[k].entry <= Len(entries')
    BY <1>1, <1>2, <1>7 DEF ViewportTypeOK
  <2>2. paneEntry' \in 0..Len(entries') /\ paneSize' \in Sizes /\ tasks' \in Nat /\ closing' \in BOOLEAN
        /\ unlucky' \in BOOLEAN
    BY <1>1, <1>7 DEF ViewportTypeOK
  <2> QED  BY <1>2, <1>7, <1>9, <2>1, <2>2 DEF ViewportTypeOK
<1>11. \A k \in Leases : (Acquired(k)' <=> Acquired(k)) /\ (IsLatest(k)' <=> IsLatest(k))
  BY <1>2 DEF Acquired, IsLatest
<1>12. Order'
  <2>1. \A f \in DOMAIN entries : entries'[f].owner = entries[f].owner
    BY <1>6, <1>7
  <2> QED  BY <1>1, <1>2, <1>7, <1>11, <2>1 DEF Order
<1>13. SizeComesBack'
  BY <1>1 DEF SizeComesBack
<1>14. Restorable'
  <2> SUFFICES ASSUME ~unlucky, paneEntry # 0 PROVE Restorable'
    BY <1>1 DEF Restorable
  <2>1. CASE paneEntry # e
    <3>1. paneEntry \in DOMAIN entries
      BY <1>1 DEF ViewportTypeOK
    <3>2. entries'[paneEntry'] = entries[paneEntry] /\ paneSize' = paneSize /\ paneEntry' = paneEntry
      BY <1>1, <1>7, <2>1, <3>1
    <3>3. \A k \in Leases : lease'[k].entry = paneEntry /\ lease'[k].size # 0 =>
             lease[k].entry = paneEntry /\ lease[k].size # 0
      BY <1>2, <2>1
    <3> QED  BY <1>1, <3>2, <3>3 DEF Restorable
  <2>2. CASE paneEntry = e
    <3>1. /\ n.restore # 0 => n.restore >= OriginalSize
          /\ n.restore = 0 \/ n.step = "delete" => paneSize >= OriginalSize
          /\ n.restore # 0 \/ n.step # "apply"
          /\ ClampsFollow(n)
          /\ \A k \in Leases : n.owner = <<k, 0>> /\ lease[k].entry = e /\ lease[k].size # 0 =>
               ResizeKnown(n)
      BY <1>1, <2>2 DEF Restorable
    <3>2. kind = "ensure" /\ n.owner = <<l, 0>> => ResizeKnown(n)
      BY <1>1, <3>1
    <3>3. ClampsFollow(new)
      BY <1>8, <3>1, <3>2
    <3>4. ASSUME NEW k \in Leases, new.owner = <<k, 0>>, lease'[k].entry = e, lease'[k].size # 0
          PROVE  ResizeKnown(new)
      <4>1. CASE k = l
        BY <1>6, <1>8, <3>2, <3>4, <4>1
      <4>2. CASE k # l
        BY <1>2, <1>6, <1>8, <3>1, <3>4, <4>2
      <4> QED  BY <4>1, <4>2
    <3>5. entries'[paneEntry'] = new /\ paneEntry' = e /\ paneSize' = paneSize
      BY <1>1, <1>7, <2>2
    <3>6. /\ new.restore # 0 => new.restore >= OriginalSize
          /\ new.restore = 0 \/ new.step = "delete" => paneSize' >= OriginalSize
          /\ new.restore # 0 \/ new.step # "apply"
      BY <1>6, <3>1, <3>5
    <3> QED  BY <3>3, <3>4, <3>5, <3>6 DEF Restorable
  <2> QED  BY <2>1, <2>2
<1>15. OwnerServed'
  <2>1. ASSUME ~closing, NEW k \in Leases, IsLatest(k), lease[k].open
        PROVE  /\ paneEntry # 0 /\ lease'[k].entry = paneEntry /\ entries'[paneEntry].owner = <<k, 0>>
               /\ ~unlucky /\ lease'[k].size # 0 => Served(k)'
    <3>1. /\ paneEntry # 0 /\ lease[k].entry = paneEntry /\ entries[paneEntry].owner = <<k, 0>>
          /\ ~unlucky /\ lease[k].size # 0 => Served(k)
      BY <1>1, <2>1 DEF OwnerServed
    <3>2. paneEntry \in DOMAIN entries
      BY <1>1, <3>1 DEF ViewportTypeOK
    <3>3. entries'[paneEntry].owner = <<k, 0>>
      BY <1>6, <1>7, <3>1, <3>2
    <3>4. ASSUME ~unlucky, lease'[k].size # 0 PROVE Served(k)'
      <4>1. CASE k = l
        <5>1. entries'[paneEntry'] = new /\ lease'[k].size = size
          BY <1>1, <1>2, <1>7, <3>1, <4>1
        <5>2. LastBrings(new, k, size)
          BY <1>8, <4>1
        <5> QED  BY <5>1, <5>2 DEF Served
      <4>2. CASE k # l
        <5>1. Served(k) /\ lease'[k].size = lease[k].size /\ paneSize' = paneSize /\ paneEntry' = paneEntry
          BY <1>1, <1>2, <3>1, <3>4, <4>2
        <5>2. CASE paneEntry = e
          <6>1. entries'[paneEntry'] = new
            BY <1>1, <1>7, <5>2
          <6>2. \/ LastBrings(n, k, lease[k].size)
                \/ paneSize = lease[k].size /\ n.step = "begin" /\ NoneBrings(n, k)
            BY <5>1, <5>2 DEF Served
          <6>3. \/ LastBrings(new, k, lease[k].size)
                \/ paneSize = lease[k].size /\ new.step = "begin" /\ NoneBrings(new, k)
            BY <1>6, <1>8, <4>2, <6>2
          <6> QED  BY <5>1, <6>1, <6>3 DEF Served
        <5>3. CASE paneEntry # e
          <6>1. entries'[paneEntry'] = entries[paneEntry]
            BY <1>1, <1>7, <3>2, <5>3
          <6> QED  BY <5>1, <6>1 DEF Served
        <5> QED  BY <5>2, <5>3
      <4> QED  BY <4>1, <4>2
    <3> QED  BY <1>2, <3>1, <3>3, <3>4
  <2>2. entries # <<>>
    BY <1>3
  <2> QED  BY <1>1, <1>2, <1>11, <2>1, <2>2 DEF OwnerServed
<1> QED  BY <1>9, <1>10, <1>12, <1>13, <1>14, <1>15 DEF ViewportInv

LEMMA ReleaseKeeps ==
  ASSUME ViewportInv, NEW e \in DOMAIN entries, e = paneEntry,
         NEW l \in Leases, NEW c \in {0, 1}, entries[e].owner = <<l, c>>,
         entries' = ReleaseAs(e, <<l, c>>),
         UNCHANGED <<paneSize, paneEntry, tasks, unlucky>>,
         lease' \in [Leases -> [entry : Nat, size : Sizes \union {0}, open : BOOLEAN]],
         \A k \in Leases : /\ lease'[k].entry = lease[k].entry /\ lease'[k].size = lease[k].size
                           /\ lease'[k].open => lease[k].open,
         closing' \in BOOLEAN, closing => closing',
         ~closing' => c = 0 /\ ~lease'[l].open
  PROVE  ViewportInv'
<1> DEFINE n == entries[e]
           mark == <<l, c + 1>>
           t == [kind |-> "release", by |-> mark, size |-> 0]
           new == [n EXCEPT !.queue = Append(n.queue, t), !.owner = mark]
<1>1. /\ ViewportTypeOK /\ Queues /\ Order /\ Restorable /\ SizeComesBack /\ OwnerServed
      /\ e # 0
  <2>1. 0 \notin DOMAIN entries
    BY DEF ViewportInv, ViewportTypeOK
  <2> QED  BY <2>1 DEF ViewportInv
<1>2. mark \in Leases \X (0..2) /\ mark[2] = c + 1 /\ mark[2] # 0 /\ (~closing' => mark[2] # 2)
  OBVIOUS
<1>3. t \in Tasks /\ t.kind = "release" /\ t.by = mark
  <2> HIDE DEF mark
  <2> QED  BY <1>2 DEF Tasks
<1>4. n \in Entries /\ n.queue \in Seq(Tasks) /\ entries \in Seq(Entries)
  BY <1>1, EntryLemma DEF ViewportTypeOK
<1>5. entries' = [entries EXCEPT ![e] = new]
  <2>1. entries' = [Enqueue(e, "release", mark, 0) EXCEPT ![e].owner = mark]
    BY DEF ReleaseAs
  <2>2. PICK more : more = [n EXCEPT !.queue = Append(n.queue, t)]
    OBVIOUS
  <2>3. Enqueue(e, "release", mark, 0) = [entries EXCEPT ![e] = more]
    BY <2>2 DEF Enqueue
  <2>4. entries' = [entries EXCEPT ![e] = [more EXCEPT !.owner = mark]]
    <3> HIDE DEF mark, t, n
    <3> QED  BY <1>4, <2>1, <2>3
  <2>5. [more EXCEPT !.owner = mark] = new
    <3> HIDE DEF mark, t
    <3> QED  BY <1>4, <2>2 DEF Entries
  <2> QED  BY <2>4, <2>5
<1> HIDE DEF mark, t
<1>6. /\ new \in Entries /\ new.step = n.step /\ new.restore = n.restore
      /\ new.owner = mark /\ new.queue = Append(n.queue, t)
  <2>1. Append(n.queue, t) \in Seq(Tasks)
    BY <1>3, <1>4
  <2> QED  BY <1>2, <1>4, <2>1 DEF Entries
<1> HIDE DEF new
<1>7. /\ entries' \in Seq(Entries) /\ Len(entries') = Len(entries)
      /\ DOMAIN entries' = DOMAIN entries /\ entries'[e] = new
      /\ \A f \in DOMAIN entries : f # e => entries'[f] = entries[f]
  BY <1>1, <1>5, <1>6, ChangeLemma
<1>8. Queues' /\ \A f \in DOMAIN entries' : entries'[f].step # "begin" => entries'[f].queue # <<>>
  <2>1. TaskFor(t, e, lease)
    BY <1>2, <1>3 DEF TaskFor
  <2>2. ViewportTypeOK /\ Queues /\ paneEntry' = paneEntry /\ t \in Tasks /\ new \in Entries
    BY <1>1, <1>3, <1>6
  <2> QED  BY <1>5, <1>6, <2>1, <2>2, AddedLemma
<1>9. ViewportTypeOK'
  <2>1. \A k \in Leases : lease'[k].entry <= Len(entries')
    BY <1>1, <1>7 DEF ViewportTypeOK
  <2>2. paneEntry' \in 0..Len(entries') /\ paneSize' \in Sizes /\ tasks' \in Nat /\ unlucky' \in BOOLEAN
    BY <1>1, <1>7 DEF ViewportTypeOK
  <2> QED  BY <1>7, <1>8, <2>1, <2>2 DEF ViewportTypeOK
<1>10. \A k \in Leases : (Acquired(k)' <=> Acquired(k)) /\ (IsLatest(k)' <=> IsLatest(k))
  BY DEF Acquired, IsLatest
<1>11. Order'
  <2>1. ~closing' => \A f \in DOMAIN entries : entries'[f].owner[2] # 2
    <3> SUFFICES ASSUME ~closing', NEW f \in DOMAIN entries PROVE entries'[f].owner[2] # 2
      OBVIOUS
    <3>1. CASE f = e
      BY <1>2, <1>6, <1>7, <3>1
    <3>2. CASE f # e
      BY <1>1, <1>7, <3>2 DEF Order
    <3> QED  BY <3>1, <3>2
  <2> QED  BY <1>1, <1>7, <1>10, <2>1 DEF Order
<1>12. SizeComesBack'
  BY <1>1 DEF SizeComesBack
<1>13. Restorable'
  <2> SUFFICES ASSUME ~unlucky PROVE Restorable'
    BY DEF Restorable
  <2>1. /\ n.restore # 0 => n.restore >= OriginalSize
        /\ n.restore = 0 \/ n.step = "delete" => paneSize >= OriginalSize
        /\ n.restore # 0 \/ n.step # "apply"
    BY <1>1 DEF Restorable
(* no clamp is asked for by a release                                       *)
  <2>2. ClampsFollow(new)
    <3>1. \A i \in DOMAIN new.queue : new.queue[i].kind = "ensure" => new.queue[i].by # new.owner
      <4> SUFFICES ASSUME NEW i \in DOMAIN new.queue, new.queue[i].kind = "ensure"
                   PROVE  new.queue[i].by # new.owner
        OBVIOUS
      <4>1. TaskFor(entries'[e].queue[i], e, lease')
        BY <1>7, <1>8 DEF Queues, TasksAt, TaskOf
      <4>2. new.queue[i].by = <<new.queue[i].by[1], 0>>
        BY <1>7, <4>1 DEF TaskFor
      <4>3. new.queue[i].by[2] = 0
        BY <4>2
      <4> QED  BY <1>2, <1>6, <4>3
    <3> QED  BY <3>1 DEF ClampsFollow
  <2>3. \A k \in Leases : new.owner # <<k, 0>>
    BY <1>2, <1>6
  <2>4. entries'[paneEntry'] = new /\ paneSize' = paneSize
    BY <1>7
  <2> QED  BY <1>6, <2>1, <2>2, <2>3, <2>4 DEF Restorable
<1>14. OwnerServed'
  <2>1. ASSUME ~closing', NEW k \in Leases, IsLatest(k), lease'[k].open PROVE FALSE
    <3>1. ~closing /\ lease[k].open
      BY <1>1, <2>1 DEF ViewportTypeOK
    <3>2. <<l, c>> = <<k, 0>>
      BY <1>1, <2>1, <3>1 DEF OwnerServed
    <3> QED  BY <2>1, <3>2
  <2>2. entries # <<>> /\ \E k \in Leases : IsLatest(k)
    BY <1>1 DEF OwnerServed
  <2> QED  BY <1>10, <2>1, <2>2 DEF OwnerServed
<1> QED  BY <1>8, <1>9, <1>11, <1>12, <1>13, <1>14 DEF ViewportInv

LEMMA ReleaseLeaseKeeps ==
  ASSUME ViewportInv, NEW l \in Leases, ReleaseLease(l)  PROVE ViewportInv'
<1> DEFINE e == lease[l].entry
<1>1. /\ ViewportTypeOK /\ Queues /\ Order /\ Restorable /\ SizeComesBack /\ OwnerServed
      /\ UNCHANGED <<paneSize, paneEntry, tasks, closing, unlucky>>
      /\ lease[l].open /\ lease' = [lease EXCEPT ![l].open = FALSE]
      /\ entries' = ReleaseAs(e, <<l, 0>>)
  BY DEF ViewportInv, ReleaseLease
<1>2. /\ lease' \in [Leases -> [entry : Nat, size : Sizes \union {0}, open : BOOLEAN]]
      /\ \A k \in Leases : /\ lease'[k].entry = lease[k].entry /\ lease'[k].size = lease[k].size
                           /\ lease'[k].open => lease[k].open
      /\ ~lease'[l].open
  BY <1>1 DEF ViewportTypeOK
<1>3. e \in DOMAIN entries
  BY <1>1 DEF Order, Acquired, ViewportTypeOK
<1>4. CASE paneEntry = e /\ entries[e].owner = <<l, 0>>
  <2>1. closing \in BOOLEAN
    BY <1>1 DEF ViewportTypeOK
  <2> QED  BY <1>1, <1>2, <1>3, <1>4, <2>1, ReleaseKeeps
<1>5. CASE ~(paneEntry = e /\ entries[e].owner = <<l, 0>>)
  <2>1. entries' = entries
    BY <1>1, <1>5 DEF ReleaseAs
  <2>2. \A k \in Leases : (Acquired(k)' <=> Acquired(k)) /\ (IsLatest(k)' <=> IsLatest(k))
    BY <1>2 DEF Acquired, IsLatest
  <2>3. ViewportTypeOK'
    BY <1>1, <1>2, <2>1, ZenonT(60) DEF ViewportTypeOK
  <2>4. Queues'
    <3> SUFFICES ASSUME NEW f \in DOMAIN entries PROVE StepAt(f)' /\ TasksAt(f)'
      BY <2>1 DEF Queues
    <3>1. StepAt(f)'
      BY <1>1, <2>1 DEF Queues, StepAt
    <3>2. ASSUME NEW i \in DOMAIN entries[f].queue PROVE TaskFor(entries[f].queue[i], f, lease')
      <4>1. entries[f].queue[i] \in Tasks
        BY <1>1, EntryLemma
      <4>2. entries[f].queue[i].by[1] \in Leases
        BY <4>1 DEF Tasks
      <4>3. TaskFor(entries[f].queue[i], f, lease)
        BY <1>1 DEF Queues, TasksAt, TaskOf
      <4> QED  BY <1>2, <4>2, <4>3 DEF TaskFor
    <3> QED  BY <2>1, <3>1, <3>2 DEF TasksAt, TaskOf
  <2>5. Order'
    BY <1>1, <1>2, <2>1, <2>2 DEF Order
  <2>6. SizeComesBack'
    BY <1>1 DEF SizeComesBack
  <2>7. Restorable'
    BY <1>1, <1>2, <2>1 DEF Restorable
  <2>8. OwnerServed'
    <3>1. ASSUME NEW k \in Leases, Served(k) PROVE Served(k)'
      BY <1>1, <1>2, <2>1, <3>1 DEF Served
    <3> QED  BY <1>1, <1>2, <2>1, <2>2, <3>1 DEF OwnerServed
  <2> QED  BY <2>3, <2>4, <2>5, <2>6, <2>7, <2>8 DEF ViewportInv
<1> QED  BY <1>4, <1>5

LEMMA RestoreAllKeeps ==
  ASSUME ViewportInv, RestoreAll  PROVE ViewportInv'
<1> DEFINE e == paneEntry
<1>1. /\ ViewportTypeOK /\ Order
      /\ UNCHANGED <<paneSize, paneEntry, lease, tasks, unlucky>>
      /\ ~closing /\ closing' = TRUE /\ e # 0 /\ entries' = ReleaseAs(e, entries[e].owner)
  BY DEF ViewportInv, RestoreAll
<1>2. e \in DOMAIN entries
  BY <1>1 DEF ViewportTypeOK
<1>3. PICK l \in Leases, c \in 0..2 : entries[e].owner = <<l, c>>
  BY <1>1, <1>2, EntryLemma
<1>4. c \in {0, 1}
  <2>1. c # 2
    BY <1>1, <1>2, <1>3 DEF Order
  <2> QED  BY <2>1
<1>5. lease \in [Leases -> [entry : Nat, size : Sizes \union {0}, open : BOOLEAN]]
  BY <1>1 DEF ViewportTypeOK
<1> QED  BY <1>1, <1>2, <1>3, <1>4, <1>5, ReleaseKeeps

LEMMA ViewportStep == ViewportInv /\ [ViewportNext]_viewport => ViewportInv'
<1> SUFFICES ASSUME ViewportInv, [ViewportNext]_viewport PROVE ViewportInv'
  OBVIOUS
<1>1. ASSUME NEW l \in Leases, Acquire(l) PROVE ViewportInv'
  BY <1>1, AcquireKeeps
<1>2. ASSUME NEW l \in Leases, ReleaseLease(l) PROVE ViewportInv'
  BY <1>2, ReleaseLeaseKeeps
<1>3. ASSUME NEW l \in Leases, NEW kind \in {"resize", "ensure"}, NEW size \in Sizes, AskFor(l, kind, size)
      PROVE  ViewportInv'
  BY <1>3, AskKeeps
<1>4. CASE RestoreAll
  BY <1>4, RestoreAllKeeps
<1>5. ASSUME NEW e, BeginTask(e) PROVE ViewportInv'
  BY <1>5, BeginKeeps
<1>6. ASSUME NEW e, ReadPane(e) PROVE ViewportInv'
  BY <1>6, ReadKeeps
<1>7. ASSUME NEW e, ReadFails(e) PROVE ViewportInv'
  BY <1>7, ReadFailsKeeps
<1>8. ASSUME NEW e, ApplySize(e) PROVE ViewportInv'
  BY <1>8, ApplyKeeps
<1>9. ASSUME NEW e, DeleteEntry(e) PROVE ViewportInv'
  BY <1>9, DeleteKeeps
<1>10. CASE UNCHANGED viewport
  <2>1. UNCHANGED <<paneSize, paneEntry, entries, lease, tasks, closing, unlucky>>
    BY <1>10 DEF viewport
  <2>2. ViewportTypeOK' /\ Queues' /\ Order'
    BY <2>1 DEF ViewportInv, ViewportTypeOK, Queues, StepAt, TasksAt, TaskOf, Order, Acquired
  <2>3. Restorable' /\ SizeComesBack'
    BY <2>1 DEF ViewportInv, Restorable, SizeComesBack
  <2>4. OwnerServed'
    BY <2>1 DEF ViewportInv, OwnerServed, IsLatest, Acquired, Served
  <2> QED  BY <2>2, <2>3, <2>4 DEF ViewportInv
<1> QED  BY <1>1, <1>2, <1>3, <1>4, <1>5, <1>6, <1>7, <1>8, <1>9, <1>10 DEF ViewportNext

LEMMA ViewportInvariant == ViewportAlone => []ViewportInv
<1> QED  BY ViewportStart, ViewportStep, PTL DEF ViewportAlone

(* What the coordinator of the panes keeps has the types it is declared      *)
(* with: an entry in the middle of a task has one queued.                   *)
THEOREM ViewportTypeCorrect == ViewportAlone => []ViewportTypeOK
<1>1. ViewportInv => ViewportTypeOK
  BY DEF ViewportInv
<1> QED  BY <1>1, ViewportInvariant, PTL

(* However many browsers come, resize and go, the last one gives the pane    *)
(* back no smaller than it was before the first.                            *)
THEOREM PaneComesBack == ViewportAlone => []SizeComesBack
<1>1. ViewportInv => SizeComesBack
  BY DEF ViewportInv
<1> QED  BY <1>1, ViewportInvariant, PTL

(* When nothing is left to do, the pane has the size of the browser that     *)
(* came last, however many came before it and whatever they asked for.      *)
THEOREM LatestIsServed == ViewportAlone => []LatestBrowserIsServed
<1>1. ViewportInv => LatestBrowserIsServed
  <2> SUFFICES ASSUME ViewportInv, Calm, ~unlucky, ~closing, entries # <<>>
               PROVE  LET l == Latest IN lease[l].open /\ lease[l].size # 0 => paneSize = lease[l].size
    BY DEF LatestBrowserIsServed
  <2>1. ViewportTypeOK /\ OwnerServed
    BY DEF ViewportInv
  <2>2. \E l \in Leases : Acquired(l) /\ \A k \in Leases : Acquired(k) => k <= l
    BY <2>1 DEF OwnerServed, IsLatest
  <2>3. Latest \in Leases /\ IsLatest(Latest)
    BY <2>2 DEF Latest, IsLatest
  <2>4. ASSUME NEW l \in Leases, IsLatest(l), lease[l].open, lease[l].size # 0
        PROVE  paneSize = lease[l].size
    <3>1. paneEntry # 0 /\ Served(l)
      BY <2>1, <2>4 DEF OwnerServed
    <3>2. paneEntry \in DOMAIN entries
      BY <2>1, <3>1 DEF ViewportTypeOK
    <3>3. DOMAIN entries[paneEntry].queue = {}
      BY <3>2 DEF Calm
    <3> QED  BY <3>1, <3>3 DEF Served, LastBrings
  <2> QED  BY <2>3, <2>4
<1> QED  BY <1>1, ViewportInvariant, PTL
-----------------------------------------------------------------------------
(*                               The reviews                                *)

(* What the store of the reviews relates, for a chain of mutations c, the    *)
(* generations v, what may be kept w, the tours ts, the Code reviews rs, and *)
(* the files as they will be when the running mutation is over.             *)
Target == IF writing = Nil THEN kept ELSE writing.kept
ToWrite ==
  writing # Nil =>
    /\ kept.tour # writing.kept.tour => \E i \in DOMAIN writing.files : writing.files[i] = "tour"
    /\ kept.review # writing.kept.review => \E i \in DOMAIN writing.files : writing.files[i] = "review"

(* A tour that may still be saved in the running generation is the one that *)
(* may be kept.                                                             *)
Begun(x) == x.at \in {"pending", "saving"}
ToursBegun(v, w, ts) ==
  \A t \in Tours : Begun(ts[t]) =>
    ts[t].gen <= v.tour /\ (ts[t].gen = v.tour => w.tour = t)

(* What waits in the chain: a start belongs to a tour that waits for it, and *)
(* a save to a tour that waits for it or that has ended, behind which comes  *)
(* a drop; a drop of the running generation comes only after a cancel.      *)
DropAfter(c, i, v) == \E j \in DOMAIN c : j > i /\ c[j].op = "drop" /\ c[j].gen = v.tour
TourWaits(m, v, w, ts) ==
  /\ m.op = "invalidate" => ts[m.job].at = "start"
  /\ m.op = "save tour" =>
       /\ ts[m.job].at \in {"saving", "over"}
       /\ ts[m.job].at = "saving" => m.gen = ts[m.job].gen
       /\ m.gen <= v.tour
  /\ m.op = "drop" => m.gen <= v.tour /\ (m.gen = v.tour => w.tour = 0)
ReviewWaits(m, v, w) ==
  /\ m.op = "save review" => m.gen <= v.review /\ (m.gen = v.review => m.job \in w.review)
  /\ m.op = "stored" => (v.review = 0 => m.job \in w.review)
OfTour(m) == m.op \in {"invalidate", "save tour"}
Waits(c, v, w, ts) ==
  /\ \A i \in DOMAIN c : TourWaits(c[i], v, w, ts) /\ ReviewWaits(c[i], v, w)
  /\ \A i \in DOMAIN c : c[i].op = "save tour" /\ c[i].gen = v.tour =>
       w.tour = c[i].job \/ DropAfter(c, i, v)
  /\ \A i, j \in DOMAIN c :
       i # j /\ OfTour(c[i]) /\ c[i].op = c[j].op => c[i].job # c[j].job

(* What the running mutation has changed already                            *)
HeadRuns ==
  writing # Nil =>
    LET m == chain[1] IN
    /\ m.op = "invalidate" => wanted.tour = m.job /\ Target.tour = Nil
    /\ m.op = "save tour" /\ writing.how = "done" => Target.tour # Nil
    /\ m.op = "save review" /\ writing.how = "done" => Target.review # Nil /\ Target.review.by = m.job
    /\ m.op = "drop" => m.gen # version.tour

TourFile(f, c, v, w, ts) ==
  /\ f # Nil =>
       /\ f.by = w.tour \/ DropAfter(c, 0, v)
       /\ v.branch # Nil => f.branch = v.branch
       /\ Begun(ts[f.by]) => ts[f.by].gen = v.tour
  /\ \A t \in Tours : ts[t].at = "ready" /\ w.tour = t => f # Nil

(* A Code review that may still be saved may be kept: one begun in the       *)
(* running generation, or one from before a restart as long as none began.   *)
ReviewsBegun(v, w, rs) ==
  \A r \in CodeReviews :
    /\ rs[r].at = "pending" => rs[r].gen <= v.review /\ (rs[r].gen = v.review => r \in w.review)
    /\ rs[r].at \in {"orphan", "asked", "joining"} => (v.review = 0 => r \in w.review)
ReviewFile(f, w, rs) ==
  /\ w.review = {} => f = Nil
  /\ \A r \in CodeReviews : rs[r].at \in {"ready", "recovered"} /\ w.review = {r} => f # Nil /\ f.by = r

Unbroken ==
  /\ ToWrite /\ HeadRuns
  /\ Waits(chain, version, wanted, tour)
  /\ ToursBegun(version, wanted, tour) /\ TourFile(Target.tour, chain, version, wanted, tour)
  /\ ReviewsBegun(version, wanted, review) /\ ReviewFile(Target.review, wanted, review)
ReviewsInv == ReviewsTypeOK /\ (~broken => Unbroken)
-----------------------------------------------------------------------------
(* Lemmas on what waits                                                     *)

Versions == [tour : Nat, branch : Branches \union {Nil}, review : Nat]
Kept == [tour : Tours \union {0}, review : SUBSET CodeReviews]

LEMMA MutationLemma ==
  ASSUME NEW m \in Mutations
  PROVE  /\ m.gen \in Nat /\ m.branch \in Branches \union {Nil}
         /\ m.op \in {"invalidate", "save tour", "save review", "stored", "dismiss", "drop", "reconcile"}
         /\ OfTour(m) => m.job \in Tours
         /\ m.op \in {"save review", "stored"} => m.job \in CodeReviews
         /\ m.op \in {"dismiss", "drop", "reconcile"} => m.job = 0
<1> QED  BY DEF Mutations, OfTour

LEMMA WaitingLemma ==
  ASSUME NEW c \in Seq(Mutations), NEW i \in DOMAIN c
  PROVE  /\ c[i] \in Mutations /\ c[i].gen \in Nat /\ i \in Nat \ {0}
         /\ OfTour(c[i]) => c[i].job \in Tours
<1>1. c[i] \in Mutations /\ i \in Nat \ {0}
  OBVIOUS
<1> QED  BY <1>1, MutationLemma

LEMMA NewMutationLemma ==
  ASSUME NEW op, NEW j, NEW x, x.branch \in Branches \union {Nil}, NEW g \in Nat,
         \/ op \in {"invalidate", "save tour"} /\ j \in Tours
         \/ op \in {"save review", "stored"} /\ j \in CodeReviews
         \/ op \in {"dismiss", "drop", "reconcile"} /\ j = 0
  PROVE  LET m == Mutation(op, j, x, g) IN
         /\ m \in Mutations /\ m.op = op /\ m.job = j /\ m.gen = g /\ m.branch = x.branch
<1> QED  BY DEF Mutation, Mutations

(* The head leaves                                                          *)
LEMMA PopWaits ==
  ASSUME NEW c \in Seq(Mutations), c # <<>>, NEW v, NEW w, NEW ts, Waits(c, v, w, ts)
  PROVE  /\ Waits(Tail(c), v, w, ts)
         /\ DropAfter(c, 0, v) /\ ~(c[1].op = "drop" /\ c[1].gen = v.tour) => DropAfter(Tail(c), 0, v)
         /\ Tail(c) \in Seq(Mutations) /\ c[1] \in Mutations /\ Head(c) = c[1]
<1> DEFINE N == Len(c)
           d == Tail(c)
<1>1. /\ d \in Seq(Mutations) /\ DOMAIN d = 1..(N - 1) /\ N \in Nat \ {0} /\ DOMAIN c = 1..N
      /\ \A i \in 1..(N - 1) : i + 1 \in 1..N /\ d[i] = c[i + 1]
  BY TailLemma
<1>2. c[1] \in Mutations /\ Head(c) = c[1]
  OBVIOUS
<1> HIDE DEF N, d
<1>3. ASSUME NEW i \in 0..(N - 1), DropAfter(c, i + 1, v)  PROVE DropAfter(d, i, v)
  <2>1. PICK j \in 1..N : j > i + 1 /\ c[j].op = "drop" /\ c[j].gen = v.tour
    BY <1>1, <1>3 DEF DropAfter
  <2>2. j - 1 \in 1..(N - 1) /\ j - 1 > i /\ (j - 1) + 1 = j
    BY <1>1, <2>1
  <2>3. d[j - 1] = c[j]
    BY <1>1, <2>2
  <2> QED  BY <1>1, <2>1, <2>2, <2>3 DEF DropAfter
<1>4. ASSUME NEW i \in 1..(N - 1)
      PROVE  /\ TourWaits(d[i], v, w, ts) /\ ReviewWaits(d[i], v, w)
             /\ d[i].op = "save tour" /\ d[i].gen = v.tour => w.tour = d[i].job \/ DropAfter(d, i, v)
  <2>1. i + 1 \in 1..N /\ d[i] = c[i + 1] /\ (DropAfter(c, i + 1, v) => DropAfter(d, i, v))
    BY <1>1, <1>3
  <2>2. /\ TourWaits(c[i + 1], v, w, ts) /\ ReviewWaits(c[i + 1], v, w)
        /\ c[i + 1].op = "save tour" /\ c[i + 1].gen = v.tour => w.tour = c[i + 1].job \/ DropAfter(c, i + 1, v)
    BY <1>1, <2>1 DEF Waits
  <2> QED  BY <2>1, <2>2
<1>5. ASSUME NEW i \in 1..(N - 1), NEW j \in 1..(N - 1), i # j, OfTour(d[i]), d[i].op = d[j].op
      PROVE  d[i].job # d[j].job
  <2>1. i + 1 \in 1..N /\ j + 1 \in 1..N /\ i + 1 # j + 1 /\ d[i] = c[i + 1] /\ d[j] = c[j + 1]
    BY <1>1, <1>5
  <2> QED  BY <1>1, <1>5, <2>1 DEF Waits
<1>6. Waits(d, v, w, ts)
  BY <1>1, <1>4, <1>5 DEF Waits
<1>7. ASSUME DropAfter(c, 0, v), ~(c[1].op = "drop" /\ c[1].gen = v.tour)  PROVE DropAfter(d, 0, v)
  <2>1. PICK j \in 1..N : j > 0 /\ c[j].op = "drop" /\ c[j].gen = v.tour
    BY <1>1, <1>7 DEF DropAfter
  <2>2. j - 1 \in 1..(N - 1) /\ j - 1 > 0 /\ (j - 1) + 1 = j
    BY <1>1, <1>7, <2>1
  <2>3. d[j - 1] = c[j]
    BY <1>1, <2>2
  <2> QED  BY <1>1, <2>1, <2>2, <2>3 DEF DropAfter
<1> QED  BY <1>1, <1>2, <1>6, <1>7 DEF d

(* No mutation that waits is of the tour t.                                 *)
NoneOf(c, t) == \A i \in DOMAIN c : OfTour(c[i]) => c[i].job # t

LEMMA NoneWaits ==
  ASSUME NEW c, NEW v, NEW w, NEW ts, Waits(c, v, w, ts), NEW t,
         ts[t].at \notin {"start", "saving", "over"}
  PROVE  NoneOf(c, t)
<1> QED  BY DEF NoneOf, Waits, TourWaits, OfTour

LEMMA PopNone ==
  ASSUME NEW c \in Seq(Mutations), c # <<>>, NEW v, NEW w, NEW ts, Waits(c, v, w, ts),
         OfTour(c[1]), ts[c[1].job].at # "over"
  PROVE  NoneOf(Tail(c), c[1].job)
<1> DEFINE N == Len(c)
           d == Tail(c)
<1>1. /\ DOMAIN d = 1..(N - 1) /\ N \in Nat \ {0} /\ DOMAIN c = 1..N
      /\ \A i \in 1..(N - 1) : i + 1 \in 1..N /\ d[i] = c[i + 1]
  BY TailLemma
<1> HIDE DEF N, d
<1>2. ASSUME NEW i \in 1..(N - 1), OfTour(d[i])  PROVE d[i].job # c[1].job
  <2>1. i + 1 \in 1..N /\ 1 \in 1..N /\ i + 1 # 1 /\ d[i] = c[i + 1]
    BY <1>1
  <2>2. c[i + 1].op = c[1].op => c[i + 1].job # c[1].job
    BY <1>1, <1>2, <2>1 DEF Waits
  <2>3. TourWaits(c[1], v, w, ts) /\ TourWaits(c[i + 1], v, w, ts)
    BY <1>1, <2>1 DEF Waits
  <2>4. c[i + 1].op # c[1].op => c[i + 1].job # c[1].job
    BY <1>2, <2>1, <2>3 DEF TourWaits, OfTour
  <2> QED  BY <2>1, <2>2, <2>4
<1> QED  BY <1>1, <1>2 DEF NoneOf, d

(* A tour that nothing is waiting for changes, or tours end that wait for    *)
(* no start.                                                                *)
LEMMA UpdateWaits ==
  ASSUME NEW c \in Seq(Mutations), NEW v, NEW w, NEW ts, Waits(c, v, w, ts), NEW t, NoneOf(c, t),
         NEW us, \A u \in Tours : u # t => us[u] = ts[u]
  PROVE  Waits(c, v, w, us)
<1>1. ASSUME NEW i \in DOMAIN c  PROVE TourWaits(c[i], v, w, us)
  <2>1. TourWaits(c[i], v, w, ts) /\ (OfTour(c[i]) => c[i].job \in Tours /\ c[i].job # t)
    BY WaitingLemma DEF Waits, NoneOf
  <2>2. OfTour(c[i]) => us[c[i].job] = ts[c[i].job]
    BY <2>1
  <2> QED  BY <2>1, <2>2 DEF TourWaits, OfTour
<1> QED  BY <1>1 DEF Waits

LEMMA GoneWaits ==
  ASSUME NEW c \in Seq(Mutations), NEW v, NEW w, NEW ts \in [Tours -> JobsAt(TourStates)], Waits(c, v, w, ts), NEW which,
         \A i \in DOMAIN c : c[i].op = "invalidate" => c[i].job \notin which
  PROVE  Waits(c, v, w, Gone(ts, which))
<1>1. ASSUME NEW i \in DOMAIN c  PROVE TourWaits(c[i], v, w, Gone(ts, which))
  <2>1. TourWaits(c[i], v, w, ts) /\ (OfTour(c[i]) => c[i].job \in Tours)
    BY WaitingLemma DEF Waits
  <2>2. OfTour(c[i]) =>
          Gone(ts, which)[c[i].job] = IF c[i].job \in which THEN Over ELSE ts[c[i].job]
    BY <2>1 DEF Gone
  <2>3. Over.at = "over"
    BY DEF Over, NoJob
  <2> QED  BY <2>1, <2>2, <2>3 DEF TourWaits, OfTour
<1> QED  BY <1>1 DEF Waits

(* A mutation joins the chain                                               *)
Joins(m, c, v, w, ts) ==
  /\ OfTour(m) => NoneOf(c, m.job)
  /\ m.op = "invalidate" => ts[m.job].at = "start"
  /\ m.op = "save tour" =>
       /\ ts[m.job].at = "saving" /\ m.gen = ts[m.job].gen
       /\ m.gen <= v.tour /\ (m.gen = v.tour => w.tour = m.job)
  /\ m.op = "drop" => m.gen <= v.tour /\ (m.gen = v.tour => w.tour = 0)
  /\ ReviewWaits(m, v, w)

LEMMA PushWaits ==
  ASSUME NEW c \in Seq(Mutations), NEW m \in Mutations, NEW v, NEW w, NEW ts,
         Waits(c, v, w, ts), Joins(m, c, v, w, ts)
  PROVE  /\ Waits(Append(c, m), v, w, ts)
         /\ DropAfter(c, 0, v) => DropAfter(Append(c, m), 0, v)
         /\ Append(c, m) \in Seq(Mutations)
<1> DEFINE N == Len(c)
           d == Append(c, m)
<1>1. /\ d \in Seq(Mutations) /\ DOMAIN d = 1..(N + 1) /\ N \in Nat /\ DOMAIN c = 1..N
      /\ d[N + 1] = m /\ \A i \in 1..N : i \in 1..(N + 1) /\ i # N + 1 /\ d[i] = c[i]
  BY AppendLemma
<1> HIDE DEF N, d
<1>2. \A i \in 1..(N + 1) : i \in 1..N \/ i = N + 1
  BY <1>1
<1>3. \A i : DropAfter(c, i, v) => DropAfter(d, i, v)
  BY <1>1 DEF DropAfter
<1>4. ASSUME NEW i \in 1..(N + 1)
      PROVE  /\ TourWaits(d[i], v, w, ts) /\ ReviewWaits(d[i], v, w)
             /\ d[i].op = "save tour" /\ d[i].gen = v.tour => w.tour = d[i].job \/ DropAfter(d, i, v)
  <2>1. CASE i \in 1..N
    BY <1>1, <1>3, <2>1 DEF Waits
  <2>2. CASE i = N + 1
    <3>1. d[i] = m
      BY <1>1, <2>2
    <3>2. TourWaits(m, v, w, ts) /\ ReviewWaits(m, v, w)
          /\ (m.op = "save tour" /\ m.gen = v.tour => w.tour = m.job)
      BY DEF Joins, TourWaits
    <3> QED  BY <3>1, <3>2
  <2> QED  BY <1>2, <2>1, <2>2
<1>5. ASSUME NEW i \in 1..(N + 1), NEW j \in 1..(N + 1), i # j, OfTour(d[i]), d[i].op = d[j].op
      PROVE  d[i].job # d[j].job
  <2>1. CASE i \in 1..N /\ j \in 1..N
    BY <1>1, <1>5, <2>1 DEF Waits
  <2>2. CASE i = N + 1 /\ j \in 1..N
    <3>1. OfTour(m) /\ OfTour(c[j]) /\ d[i] = m /\ d[j] = c[j]
      BY <1>1, <1>5, <2>2 DEF OfTour
    <3> QED  BY <1>1, <2>2, <3>1 DEF Joins, NoneOf
  <2>3. CASE j = N + 1 /\ i \in 1..N
    <3>1. OfTour(m) /\ OfTour(c[i]) /\ d[j] = m /\ d[i] = c[i]
      BY <1>1, <1>5, <2>3 DEF OfTour
    <3> QED  BY <1>1, <2>3, <3>1 DEF Joins, NoneOf
  <2> QED  BY <1>2, <1>5, <2>1, <2>2, <2>3
<1>6. Waits(d, v, w, ts)
  BY <1>1, <1>4, <1>5 DEF Waits
<1> QED  BY <1>1, <1>3, <1>6 DEF d

(* A new generation: nothing that waits or is begun is of it.               *)
LEMMA GenerationWaits ==
  ASSUME NEW c \in Seq(Mutations), NEW v \in Versions, NEW w \in Kept, NEW ts, Waits(c, v, w, ts),
         NEW v2 \in Versions, NEW w2 \in Kept,
         \/ v2.tour = v.tour /\ w2.tour = w.tour
         \/ v2.tour = v.tour + 1,
         \/ v2.review = v.review /\ w2.review = w.review
         \/ v2.review = v.review + 1
  PROVE  Waits(c, v2, w2, ts)
<1>1. v.tour \in Nat /\ v.review \in Nat
  BY DEF Versions
<1>2. ASSUME NEW i \in DOMAIN c
      PROVE  /\ TourWaits(c[i], v2, w2, ts)
             /\ c[i].op = "save tour" /\ c[i].gen = v2.tour => w2.tour = c[i].job \/ DropAfter(c, i, v2)
  <2>1. /\ TourWaits(c[i], v, w, ts) /\ c[i].gen \in Nat
        /\ c[i].op = "save tour" /\ c[i].gen = v.tour => w.tour = c[i].job \/ DropAfter(c, i, v)
    BY WaitingLemma DEF Waits
  <2>2. CASE v2.tour = v.tour /\ w2.tour = w.tour
    BY <2>1, <2>2 DEF TourWaits, DropAfter
  <2>3. CASE v2.tour = v.tour + 1
    <3> DEFINE g == c[i].gen
               n == v.tour
    <3>3. g \in Nat /\ n \in Nat /\ v2.tour = n + 1
      BY <1>1, <2>1, <2>3
    <3> HIDE DEF g, n
    <3>4. g <= n => g <= n + 1 /\ g # n + 1
      BY <3>3
    <3>1. c[i].gen <= v.tour => c[i].gen <= v2.tour /\ c[i].gen # v2.tour
      BY <3>3, <3>4 DEF g, n
    <3> QED  BY <2>1, <3>1 DEF TourWaits
  <2> QED  BY <2>2, <2>3
<1>3. ASSUME NEW i \in DOMAIN c  PROVE ReviewWaits(c[i], v2, w2)
  <2>1. ReviewWaits(c[i], v, w) /\ c[i].gen \in Nat
    BY WaitingLemma DEF Waits
  <2>2. CASE v2.review = v.review /\ w2.review = w.review
    BY <2>1, <2>2 DEF ReviewWaits
  <2>3. CASE v2.review = v.review + 1
    <3> DEFINE g == c[i].gen
               n == v.review
    <3>1. g \in Nat /\ n \in Nat /\ v2.review = n + 1
      BY <1>1, <2>1, <2>3
    <3> HIDE DEF g, n
    <3>2. (g <= n => g <= n + 1 /\ g # n + 1) /\ n + 1 # 0
      BY <3>1
    <3>3. (c[i].gen <= v.review => c[i].gen <= v2.review /\ c[i].gen # v2.review) /\ v2.review # 0
      BY <3>1, <3>2 DEF g, n
    <3> QED  BY <2>1, <3>3 DEF ReviewWaits
  <2> QED  BY <2>2, <2>3
<1> QED  BY <1>2, <1>3 DEF Waits

(* Lemmas on the jobs                                                       *)

LEMMA OverLemma ==
  ASSUME NEW states, "over" \in states
  PROVE  Over \in JobsAt(states) /\ Over.at = "over" /\ ~Begun(Over)
<1> QED  BY DEF Over, NoJob, JobsAt, Begun

LEMMA GoneLemma ==
  ASSUME NEW states, "over" \in states, NEW D, NEW js \in [D -> JobsAt(states)], NEW which
  PROVE  /\ Gone(js, which) \in [D -> JobsAt(states)]
         /\ \A j \in D : Gone(js, which)[j] = IF j \in which THEN Over ELSE js[j]
<1> QED  BY OverLemma DEF Gone

LEMMA ConcatLemma ==
  ASSUME NEW S, NEW c \in Seq(S)
  PROVE  c \o <<>> = c /\ \A x \in S : c \o <<x>> = Append(c, x)
<1>1. c \o <<>> = c
  OBVIOUS
<1>2. ASSUME NEW x \in S PROVE c \o <<x>> = Append(c, x)
  OBVIOUS
<1> QED  BY <1>1, <1>2

LEMMA DropsLemma ==
  ASSUME ReviewsTypeOK, NEW which \in SUBSET Tours, NEW c \in Seq(Mutations)
  PROVE  \/ c \o Drops(which) = c /\ \A t \in which : ~Begun(tour[t])
         \/ \E u \in which, m \in Mutations :
              /\ Begun(tour[u]) /\ m.op = "drop" /\ m.gen = tour[u].gen
              /\ c \o Drops(which) = Append(c, m)
<1>1. CASE ~\E t \in which : Underway(t)
  <2>1. Drops(which) = <<>>
    BY <1>1 DEF Drops
  <2> QED  BY <1>1, <2>1, ConcatLemma DEF Begun, Underway
<1>2. CASE \E t \in which : Underway(t)
  <2> DEFINE u == CHOOSE t \in which : Underway(t)
             m == Mutation("drop", 0, NoJob, tour[u].gen)
  <2>1. u \in which /\ Underway(u)
    BY <1>2
  <2>2. Drops(which) = <<m>>
    BY <1>2 DEF Drops
  <2> HIDE DEF u
  <2>3. tour[u].gen \in Nat /\ NoJob.branch \in Branches \union {Nil}
    BY <2>1 DEF ReviewsTypeOK, JobsAt, NoJob
  <2>4. m \in Mutations /\ m.op = "drop" /\ m.gen = tour[u].gen
    BY <2>3 DEF Mutation, Mutations
  <2> HIDE DEF m
  <2>5. c \o Drops(which) = Append(c, m)
    BY <2>2, <2>4, ConcatLemma
  <2> QED  BY <2>1, <2>4, <2>5 DEF Begun, Underway
<1> QED  BY <1>1, <1>2

(* One tour changes, or tours end                                           *)
LEMMA TourUpdate ==
  ASSUME NEW c, NEW v, NEW w, NEW f \in TourFiles \union {Nil}, NEW ts, NEW us, NEW t \in Tours,
         ToursBegun(v, w, ts), TourFile(f, c, v, w, ts),
         \A u \in Tours : u # t => us[u] = ts[u],
         Begun(us[t]) => us[t].gen <= v.tour /\ (us[t].gen = v.tour => w.tour = t),
         f # Nil /\ f.by = t /\ Begun(us[t]) => us[t].gen = v.tour,
         us[t].at = "ready" /\ w.tour = t => f # Nil
  PROVE  ToursBegun(v, w, us) /\ TourFile(f, c, v, w, us)
<1>1. f # Nil => f.by \in Tours
  BY DEF TourFiles
<1>2. ToursBegun(v, w, us)
  BY DEF ToursBegun
<1>3. ASSUME f # Nil, Begun(us[f.by]) PROVE us[f.by].gen = v.tour
  <2>1. CASE f.by = t
    BY <1>3, <2>1
  <2>2. CASE f.by # t
    BY <1>1, <1>3, <2>2 DEF TourFile
  <2> QED  BY <2>1, <2>2
<1>4. ASSUME NEW u \in Tours, us[u].at = "ready", w.tour = u PROVE f # Nil
  <2>1. CASE u = t
    BY <1>4, <2>1
  <2>2. CASE u # t
    BY <1>4, <2>2 DEF TourFile
  <2> QED  BY <2>1, <2>2
<1>5. f # Nil => (f.by = w.tour \/ DropAfter(c, 0, v)) /\ (v.branch # Nil => f.branch = v.branch)
  BY DEF TourFile
<1> QED  BY <1>2, <1>3, <1>4, <1>5 DEF TourFile

LEMMA TourGone ==
  ASSUME NEW c, NEW v, NEW w, NEW f \in TourFiles \union {Nil}, NEW ts \in [Tours -> JobsAt(TourStates)],
         NEW which, ToursBegun(v, w, ts), TourFile(f, c, v, w, ts)
  PROVE  ToursBegun(v, w, Gone(ts, which)) /\ TourFile(f, c, v, w, Gone(ts, which))
<1> DEFINE us == Gone(ts, which)
<1>1. \A u \in Tours : us[u] = ts[u] \/ (~Begun(us[u]) /\ us[u].at = "over")
  BY GoneLemma, OverLemma DEF TourStates
<1>2. f # Nil => f.by \in Tours
  BY DEF TourFiles
<1> HIDE DEF us
<1>3. ToursBegun(v, w, us)
  BY <1>1 DEF ToursBegun
<1>4. ASSUME f # Nil, Begun(us[f.by]) PROVE us[f.by].gen = v.tour
  BY <1>1, <1>2, <1>4 DEF TourFile
<1>5. ASSUME NEW u \in Tours, us[u].at = "ready", w.tour = u PROVE f # Nil
  BY <1>1, <1>5 DEF TourFile
<1>6. f # Nil => (f.by = w.tour \/ DropAfter(c, 0, v)) /\ (v.branch # Nil => f.branch = v.branch)
  BY DEF TourFile
<1>7. TourFile(f, c, v, w, us)
  BY <1>4, <1>5, <1>6 DEF TourFile
<1> QED  BY <1>3, <1>7 DEF us

LEMMA TourFileMoves ==
  ASSUME NEW c, NEW d, NEW v, NEW w, NEW f, NEW ts, TourFile(f, c, v, w, ts),
         f # Nil /\ DropAfter(c, 0, v) => DropAfter(d, 0, v)
  PROVE  TourFile(f, d, v, w, ts)
<1> QED  BY DEF TourFile

(* One Code review changes, or Code reviews end                             *)
LEMMA ReviewUpdate ==
  ASSUME NEW v, NEW w, NEW f, NEW rs, NEW qs, NEW r \in CodeReviews,
         ReviewsBegun(v, w, rs), ReviewFile(f, w, rs),
         \A q \in CodeReviews : q # r => qs[q] = rs[q],
         qs[r].at = "pending" => qs[r].gen <= v.review /\ (qs[r].gen = v.review => r \in w.review),
         qs[r].at \in {"orphan", "asked", "joining"} => (v.review = 0 => r \in w.review),
         qs[r].at \in {"ready", "recovered"} /\ w.review = {r} => f # Nil /\ f.by = r
  PROVE  ReviewsBegun(v, w, qs) /\ ReviewFile(f, w, qs)
<1>1. ReviewsBegun(v, w, qs)
  BY DEF ReviewsBegun
<1>2. ASSUME NEW q \in CodeReviews, qs[q].at \in {"ready", "recovered"}, w.review = {q}
      PROVE  f # Nil /\ f.by = q
  <2>1. CASE q = r
    BY <1>2, <2>1
  <2>2. CASE q # r
    BY <1>2, <2>2 DEF ReviewFile
  <2> QED  BY <2>1, <2>2
<1> QED  BY <1>1, <1>2 DEF ReviewFile

LEMMA ReviewGone ==
  ASSUME NEW v, NEW w, NEW f, NEW rs \in [CodeReviews -> JobsAt(ReviewStates)], NEW which,
         ReviewsBegun(v, w, rs), ReviewFile(f, w, rs)
  PROVE  ReviewsBegun(v, w, Gone(rs, which)) /\ ReviewFile(f, w, Gone(rs, which))
<1> DEFINE qs == Gone(rs, which)
<1>1. \A q \in CodeReviews : qs[q] = rs[q] \/ qs[q].at = "over"
  BY GoneLemma, OverLemma DEF ReviewStates
<1> HIDE DEF qs
<1>2. ReviewsBegun(v, w, qs)
  BY <1>1 DEF ReviewsBegun
<1>3. ReviewFile(f, w, qs)
  BY <1>1 DEF ReviewFile
<1> QED  BY <1>2, <1>3 DEF qs

(* The files and the head of the chain stay                                 *)
LEMMA HeadStays ==
  ASSUME ToWrite, HeadRuns, UNCHANGED <<kept, writing>>, version'.tour = version.tour,
         writing # Nil => chain'[1] = chain[1] /\ (chain[1].op = "invalidate" => wanted'.tour = wanted.tour)
  PROVE  ToWrite' /\ HeadRuns' /\ Target' = Target
<1>1. ToWrite' /\ Target' = Target
  BY DEF ToWrite, Target
<1>2. HeadRuns'
  BY <1>1 DEF HeadRuns
<1> QED  BY <1>1, <1>2

LEMMA FirstStays ==
  ASSUME NEW c \in Seq(Mutations), c # <<>>, NEW m \in Mutations  PROVE Append(c, m)[1] = c[1]
<1>1. 1 \in DOMAIN c
  OBVIOUS
<1> QED  BY <1>1, AppendLemma

LEMMA TargetLemma ==
  ASSUME ReviewsTypeOK
  PROVE  /\ Target.tour \in TourFiles \union {Nil} /\ Target.review \in ReviewFiles \union {Nil}
         /\ Target \in KeptFiles
<1>1. Target \in KeptFiles
  BY DEF ReviewsTypeOK, Target, Writings
<1> QED  BY <1>1 DEF KeptFiles

LEMMA ReviewsStart == ReviewsInit => ReviewsInv
<1> SUFFICES ASSUME ReviewsInit PROVE ReviewsInv
  OBVIOUS
<1>1. NoJob \in JobsAt(TourStates) /\ NoJob \in JobsAt(ReviewStates) /\ NoJob.at = "new"
  BY DEF NoJob, JobsAt, TourStates, ReviewStates
<1>2. FirstBranch \in Branches
  BY ReviewsAssumption DEF FirstBranch
<1>3. /\ tour = [t \in Tours |-> NoJob] /\ review = [r \in CodeReviews |-> NoJob]
      /\ kept = [tour |-> Nil, review |-> Nil] /\ version = [tour |-> 0, branch |-> Nil, review |-> 0]
      /\ chain = <<>> /\ writing = Nil /\ wanted = [tour |-> 0, review |-> {}] /\ broken = FALSE
      /\ checkout \in Branches
  BY <1>2 DEF ReviewsInit
<1>4. ReviewsTypeOK
  <2>1. kept \in KeptFiles
    BY <1>3 DEF KeptFiles
  <2>2. tour \in [Tours -> JobsAt(TourStates)] /\ review \in [CodeReviews -> JobsAt(ReviewStates)]
    BY <1>1, <1>3
  <2>3. chain \in Seq(Mutations)
    BY <1>3
  <2> QED  BY <1>3, <2>1, <2>2, <2>3 DEF ReviewsTypeOK
<1>5. Target.tour = Nil /\ Target.review = Nil /\ ToWrite /\ HeadRuns
  BY <1>3 DEF Target, ToWrite, HeadRuns
<1>6. Waits(chain, version, wanted, tour)
  BY <1>3 DEF Waits
<1>7. \A t \in Tours : tour[t].at = "new"
  BY <1>1, <1>3
<1>8. \A r \in CodeReviews : review[r].at = "new"
  BY <1>1, <1>3
<1>9. ToursBegun(version, wanted, tour) /\ TourFile(Target.tour, chain, version, wanted, tour)
  BY <1>5, <1>7 DEF ToursBegun, Begun, TourFile
<1>10. ReviewsBegun(version, wanted, review) /\ ReviewFile(Target.review, wanted, review)
  BY <1>5, <1>8 DEF ReviewsBegun, ReviewFile
<1> QED  BY <1>4, <1>5, <1>6, <1>9, <1>10 DEF ReviewsInv, Unbroken

(* ------------------------- the chain of mutations ------------------------ *)

LEMMA ClearedLemma ==
  ASSUME NEW b, NEW may
  PROVE  /\ Cleared(b, may).kept = [tour |-> Nil, review |-> Nil]
         /\ Cleared(b, may).kept.tour = Nil /\ Cleared(b, may).kept.review = Nil
         /\ Cleared(b, may).version.tour = version.tour + 1
         /\ Cleared(b, may).version.review = version.review + 1
         /\ Cleared(b, may).wanted.tour = may /\ Cleared(b, may).wanted.review = {}
<1> QED  BY DEF Cleared, Computed

(* What a mutation changes                                                  *)
LEMMA ChangeTyped ==
  ASSUME ReviewsTypeOK, NEW m \in Mutations
  PROVE  /\ Change(m).kept \in KeptFiles /\ Change(m).version \in Versions /\ Change(m).wanted \in Kept
         /\ Change(m).value \in {"done", "refused"}
<1>1. /\ kept \in KeptFiles /\ version \in Versions /\ wanted \in Kept
      /\ m.branch \in Branches \union {Nil} /\ m.gen \in Nat
  BY MutationLemma DEF ReviewsTypeOK, Versions, Kept
<1>2. \A value \in {"done", "refused"} :
        /\ Unchanged(value).kept \in KeptFiles /\ Unchanged(value).version \in Versions
        /\ Unchanged(value).wanted \in Kept /\ Unchanged(value).value \in {"done", "refused"}
  BY <1>1 DEF Unchanged, Computed
<1>3. ASSUME NEW b \in Branches \union {Nil}, NEW may \in Tours \union {0}
      PROVE  /\ Cleared(b, may).kept \in KeptFiles /\ Cleared(b, may).version \in Versions
             /\ Cleared(b, may).wanted \in Kept /\ Cleared(b, may).value = "done"
  BY <1>1 DEF Cleared, Computed, KeptFiles, Versions, Kept
<1>4. CASE m.op \in {"invalidate", "dismiss"}
  <2>1. (Change(m) = Cleared(m.branch, m.job) /\ m.job \in Tours) \/ Change(m) = Cleared(Nil, 0)
    BY <1>4, MutationLemma DEF Change, OfTour
  <2> QED  BY <1>1, <1>3, <2>1
<1>5. CASE m.op = "save tour"
  <2>1. Change(m) = TourSaved(m) /\ m.job \in Tours
    BY <1>5, MutationLemma DEF Change, OfTour
  <2>2. [kept EXCEPT !.tour = ReviewRecord(m)] \in KeptFiles
    BY <1>1, <2>1 DEF ReviewRecord, KeptFiles, TourFiles
  <2>3. TourSaved(m) = Unchanged("refused")
        \/ TourSaved(m) = Computed([kept EXCEPT !.tour = ReviewRecord(m)], version, wanted, "done")
    BY DEF TourSaved
  <2> QED  BY <1>1, <1>2, <2>1, <2>2, <2>3 DEF Computed
<1>6. CASE m.op = "drop"
  <2>1. Change(m) = Dropped(m)
    BY <1>6 DEF Change
  <2>2. /\ [kept EXCEPT !.tour = Nil] \in KeptFiles
        /\ [version EXCEPT !.tour = @ + 1, !.branch = Nil] \in Versions
    <3>1. [kept EXCEPT !.tour = Nil] \in KeptFiles
      BY <1>1 DEF KeptFiles
    <3>2. [version EXCEPT !.tour = @ + 1, !.branch = Nil] \in Versions
      <4>1. version.tour + 1 \in Nat /\ Nil \in Branches \union {Nil}
        BY <1>1 DEF Versions
      <4>2. \A n \in Nat, b \in Branches \union {Nil} : [version EXCEPT !.tour = n, !.branch = b] \in Versions
        BY <1>1 DEF Versions
      <4> QED  BY <4>1, <4>2
    <3> QED  BY <3>1, <3>2
  <2>3. Dropped(m) = Unchanged("refused") \/
        Dropped(m) = Computed([kept EXCEPT !.tour = Nil], [version EXCEPT !.tour = @ + 1, !.branch = Nil], wanted, "done")
    BY DEF Dropped
  <2> QED  BY <1>1, <1>2, <2>1, <2>2, <2>3 DEF Computed
<1>7. CASE m.op = "reconcile"
  <2>1. Change(m) = Reconciled(m)
    BY <1>7 DEF Change
  <2>2. /\ Reconciled(m).kept \in KeptFiles /\ Reconciled(m).version \in Versions
        /\ Reconciled(m).wanted \in Kept /\ Reconciled(m).value = "done"
    BY <1>1 DEF Reconciled, Computed, KeptFiles, Versions, Kept
  <2> QED  BY <2>1, <2>2
<1>8. CASE m.op = "save review"
  <2>1. Change(m) = ReviewSaved(m) /\ m.job \in CodeReviews
    BY <1>8, MutationLemma DEF Change
  <2>2. [kept EXCEPT !.review = ReviewRecord(m)] \in KeptFiles
    BY <1>1, <2>1 DEF ReviewRecord, KeptFiles, ReviewFiles
  <2>3. ReviewSaved(m) = Unchanged("refused")
        \/ ReviewSaved(m) = Computed([kept EXCEPT !.review = ReviewRecord(m)], version, wanted, "done")
    BY DEF ReviewSaved
  <2> QED  BY <1>1, <1>2, <2>1, <2>2, <2>3 DEF Computed
<1>9. CASE m.op = "stored"
  <2>1. Change(m) = Unchanged("done")
    BY <1>9 DEF Change
  <2> QED  BY <1>2, <2>1
<1> QED  BY <1>4, <1>5, <1>6, <1>7, <1>8, <1>9, MutationLemma

(* Either it leaves the generation, and then the file unless it is saved in  *)
(* it, or it begins a generation in which nothing is kept.                  *)
LEMMA ChangeOfTour ==
  ASSUME ReviewsTypeOK, NEW m \in Mutations,
         m.op = "drop" /\ m.gen = version.tour => wanted.tour = 0,
         kept.tour # Nil /\ version.branch # Nil => kept.tour.branch = version.branch
  PROVE  LET c == Change(m) IN
         \/ /\ c.version.tour = version.tour /\ c.version.branch = version.branch
            /\ c.wanted.tour = wanted.tour
            /\ \/ c.kept.tour = kept.tour /\ ~(m.op = "save tour" /\ c.value = "done")
               \/ /\ m.op = "save tour" /\ m.gen = version.tour /\ m.branch = version.branch
                  /\ c.kept.tour # Nil /\ c.kept.tour.by = m.job /\ c.kept.tour.branch = m.branch
            /\ m.op # "invalidate" /\ (m.op = "drop" => m.gen # version.tour)
         \/ /\ c.version.tour = version.tour + 1 /\ c.kept.tour = Nil
            /\ m.op = "invalidate" => c.wanted.tour = m.job
            /\ m.op # "invalidate" => c.wanted.tour = 0
            /\ m.op # "save tour" /\ (m.op = "drop" => m.gen = version.tour)
<1>1. kept \in KeptFiles /\ version \in Versions /\ wanted \in Kept
  BY DEF ReviewsTypeOK, Versions, Kept
<1>2. CASE m.op \in {"invalidate", "dismiss"}
  <2>1. CASE m.op = "invalidate"
    <3>1. Change(m) = Cleared(m.branch, m.job)
      BY <2>1 DEF Change
    <3> QED  BY <2>1, <3>1, ClearedLemma
  <2>2. CASE m.op = "dismiss"
    <3>1. Change(m) = Cleared(Nil, 0)
      BY <2>2 DEF Change
    <3> QED  BY <2>2, <3>1, ClearedLemma
  <2> QED  BY <1>2, <2>1, <2>2
<1>3. CASE m.op = "save tour"
  <2>1. Change(m) = TourSaved(m) /\ m.job \in Tours /\ m.branch \in Branches \union {Nil}
    BY <1>3, MutationLemma DEF Change, OfTour
  <2>2. ReviewRecord(m) # Nil /\ ReviewRecord(m).by = m.job /\ ReviewRecord(m).branch = m.branch
    <3>1. ReviewRecord(m) \in TourFiles
      BY <2>1 DEF ReviewRecord, TourFiles
    <3> QED  BY <3>1, ReviewsAssumption DEF ReviewRecord
  <2>3. [kept EXCEPT !.tour = ReviewRecord(m)].tour = ReviewRecord(m)
    BY <1>1 DEF KeptFiles
  <2>4. CASE version.tour # m.gen \/ version.branch # m.branch
    <3>1. Change(m) = Computed(kept, version, wanted, "refused")
      BY <2>1, <2>4 DEF TourSaved, Unchanged
    <3>2. Change(m).kept = kept /\ Change(m).version = version /\ Change(m).wanted = wanted
          /\ Change(m).value = "refused"
      BY <3>1 DEF Computed
    <3> QED  BY <1>3, <3>2
  <2>5. CASE version.tour = m.gen /\ version.branch = m.branch
    <3> DEFINE k == [kept EXCEPT !.tour = ReviewRecord(m)]
    <3>1. Change(m) = Computed(k, version, wanted, "done")
      BY <2>1, <2>5 DEF TourSaved
    <3>3. k.tour = ReviewRecord(m)
      BY <2>3
    <3> HIDE DEF k
    <3>4. Change(m).kept = k /\ Change(m).version = version /\ Change(m).wanted = wanted
      BY <3>1 DEF Computed
    <3>2. /\ Change(m).kept.tour = ReviewRecord(m) /\ Change(m).version = version
          /\ Change(m).wanted = wanted
      BY <3>3, <3>4
    <3> QED  BY <1>3, <2>2, <2>5, <3>2
  <2> QED  BY <2>4, <2>5
<1>4. CASE m.op = "drop"
  <2>1. Change(m) = Dropped(m)
    BY <1>4 DEF Change
  <2>2. [kept EXCEPT !.tour = Nil].tour = Nil
        /\ [version EXCEPT !.tour = @ + 1, !.branch = Nil].tour = version.tour + 1
    BY <1>1 DEF KeptFiles, Versions
  <2> QED  BY <1>4, <2>1, <2>2 DEF Dropped, Unchanged, Computed
<1>5. CASE m.op = "reconcile"
  <2>1. Change(m) = Reconciled(m)
    BY <1>5 DEF Change
  <2> DEFINE strayTour == kept.tour # Nil /\ kept.tour.branch # m.branch
             stray == strayTour \/ version.branch \notin {Nil, m.branch}
  <2>2. CASE stray
    <3>1. kept.tour = Nil \/ strayTour
      BY <2>2
    <3>2. Change(m).kept.tour = Nil /\ Change(m).version.tour = version.tour + 1 /\ Change(m).wanted.tour = 0
      BY <2>1, <2>2, <3>1 DEF Reconciled, Computed
    <3> QED  BY <1>5, <3>2
  <2>3. CASE ~stray
    <3>1. /\ Change(m).kept.tour = kept.tour /\ Change(m).version.branch = version.branch
          /\ Change(m).version.tour = version.tour + 0 /\ Change(m).wanted.tour = wanted.tour
      BY <2>1, <2>3 DEF Reconciled, Computed
    <3>2. version.tour + 0 = version.tour
      BY <1>1 DEF Versions
    <3> QED  BY <1>5, <3>1, <3>2
  <2> QED  BY <2>2, <2>3
<1>6. CASE m.op = "save review"
  <2>1. Change(m) = ReviewSaved(m)
    BY <1>6 DEF Change
  <2>2. [kept EXCEPT !.review = ReviewRecord(m)].tour = kept.tour
    BY <1>1 DEF KeptFiles
  <2>3. PICK k \in {kept, [kept EXCEPT !.review = ReviewRecord(m)]}, x \in {"done", "refused"} :
          Change(m) = Computed(k, version, wanted, x)
    BY <2>1 DEF ReviewSaved, Unchanged
  <2>5. k.tour = kept.tour
    BY <2>2
  <2>6. Change(m).kept = k /\ Change(m).version = version /\ Change(m).wanted = wanted
    BY <2>3 DEF Computed
  <2>4. Change(m).kept.tour = kept.tour /\ Change(m).version = version /\ Change(m).wanted = wanted
    BY <2>5, <2>6
  <2> QED  BY <1>6, <2>4
<1>7. CASE m.op = "stored"
  <2>1. Change(m) = Unchanged("done")
    BY <1>7 DEF Change
  <2> QED  BY <1>7, <2>1 DEF Unchanged, Computed
<1> QED  BY <1>2, <1>3, <1>4, <1>5, <1>6, <1>7, MutationLemma

LEMMA ChangeOfReview ==
  ASSUME ReviewsTypeOK, NEW m \in Mutations
  PROVE  LET c == Change(m) IN
         \/ /\ c.version.review = version.review /\ c.wanted.review = wanted.review
            /\ \/ c.kept.review = kept.review /\ ~(m.op = "save review" /\ c.value = "done")
               \/ /\ m.op = "save review" /\ m.gen = version.review
                  /\ c.kept.review # Nil /\ c.kept.review.by = m.job
         \/ /\ c.version.review = version.review + 1 /\ c.kept.review = Nil /\ c.wanted.review = {}
            /\ m.op # "save review"
<1>1. kept \in KeptFiles /\ version \in Versions /\ wanted \in Kept
  BY DEF ReviewsTypeOK, Versions, Kept
<1>2. CASE m.op \in {"invalidate", "dismiss"}
  <2>1. Change(m) = Cleared(m.branch, m.job) \/ Change(m) = Cleared(Nil, 0)
    BY <1>2 DEF Change
  <2>2. Change(m).version.review = version.review + 1 /\ Change(m).kept.review = Nil
        /\ Change(m).wanted.review = {}
    BY <2>1, ClearedLemma
  <2> QED  BY <1>2, <2>2
<1>3. CASE m.op = "save tour"
  <2>1. Change(m) = TourSaved(m)
    BY <1>3 DEF Change
  <2>2. [kept EXCEPT !.tour = ReviewRecord(m)].review = kept.review
    BY <1>1 DEF KeptFiles
  <2>3. PICK k \in {kept, [kept EXCEPT !.tour = ReviewRecord(m)]}, x \in {"done", "refused"} :
          Change(m) = Computed(k, version, wanted, x)
    BY <2>1 DEF TourSaved, Unchanged
  <2>5. k.review = kept.review
    BY <2>2
  <2>6. Change(m).kept = k /\ Change(m).version = version /\ Change(m).wanted = wanted
    BY <2>3 DEF Computed
  <2>4. Change(m).kept.review = kept.review /\ Change(m).version = version /\ Change(m).wanted = wanted
    BY <2>5, <2>6
  <2> QED  BY <1>3, <2>4
<1>4. CASE m.op = "drop"
  <2>1. Change(m) = Dropped(m)
    BY <1>4 DEF Change
  <2>2. [kept EXCEPT !.tour = Nil].review = kept.review
        /\ [version EXCEPT !.tour = @ + 1, !.branch = Nil].review = version.review
    BY <1>1 DEF KeptFiles, Versions
  <2> QED  BY <1>4, <2>1, <2>2 DEF Dropped, Unchanged, Computed
<1>5. CASE m.op = "reconcile"
  <2>1. Change(m) = Reconciled(m)
    BY <1>5 DEF Change
  <2>2. CASE kept.review # Nil /\ kept.review.branch # m.branch
    BY <1>5, <2>1, <2>2 DEF Reconciled, Computed
  <2>3. CASE ~(kept.review # Nil /\ kept.review.branch # m.branch)
    BY <1>5, <2>1, <2>3 DEF Reconciled, Computed
  <2> QED  BY <2>2, <2>3
<1>6. CASE m.op = "save review"
  <2>1. Change(m) = ReviewSaved(m) /\ m.job \in CodeReviews /\ m.branch \in Branches \union {Nil}
    BY <1>6, MutationLemma DEF Change
  <2>2. ReviewRecord(m) # Nil /\ ReviewRecord(m).by = m.job
    <3>1. ReviewRecord(m) \in ReviewFiles
      BY <2>1 DEF ReviewRecord, ReviewFiles
    <3> QED  BY <3>1, ReviewsAssumption DEF ReviewRecord
  <2>3. [kept EXCEPT !.review = ReviewRecord(m)].review = ReviewRecord(m)
    BY <1>1 DEF KeptFiles
  <2>4. CASE version.review # m.gen
    <3>1. Change(m) = Computed(kept, version, wanted, "refused")
      BY <2>1, <2>4 DEF ReviewSaved, Unchanged
    <3>2. Change(m).kept = kept /\ Change(m).version = version /\ Change(m).wanted = wanted
          /\ Change(m).value = "refused"
      BY <3>1 DEF Computed
    <3> QED  BY <1>6, <3>2
  <2>5. CASE version.review = m.gen
    <3> DEFINE k == [kept EXCEPT !.review = ReviewRecord(m)]
    <3>1. Change(m) = Computed(k, version, wanted, "done")
      BY <2>1, <2>5 DEF ReviewSaved
    <3>3. k.review = ReviewRecord(m)
      BY <2>3
    <3> HIDE DEF k
    <3>4. Change(m).kept = k /\ Change(m).version = version /\ Change(m).wanted = wanted
      BY <3>1 DEF Computed
    <3>2. /\ Change(m).kept.review = ReviewRecord(m) /\ Change(m).version = version
          /\ Change(m).wanted = wanted
      BY <3>3, <3>4
    <3> QED  BY <1>6, <2>2, <2>5, <3>2
  <2> QED  BY <2>4, <2>5
<1>7. CASE m.op = "stored"
  <2>1. Change(m) = Unchanged("done")
    BY <1>7 DEF Change
  <2> QED  BY <1>7, <2>1 DEF Unchanged, Computed
<1> QED  BY <1>2, <1>3, <1>4, <1>5, <1>6, <1>7, MutationLemma

(* The files a mutation writes are those it changes                          *)
LEMMA FilesLemma ==
  ASSUME ReviewsTypeOK, NEW m \in Mutations
  PROVE  /\ Files(m) \in Seq({"tour", "review"})
         /\ kept.tour # Change(m).kept.tour => \E i \in DOMAIN Files(m) : Files(m)[i] = "tour"
         /\ kept.review # Change(m).kept.review => \E i \in DOMAIN Files(m) : Files(m)[i] = "review"
<1>1. CASE kept.tour = Change(m).kept.tour /\ kept.review = Change(m).kept.review
  <2>1. Files(m) = <<>> \o <<>>
    BY <1>1 DEF Files
  <2>2. Files(m) = <<>>
    BY <2>1, ConcatLemma
  <2> QED  BY <1>1, <2>2
<1>2. CASE kept.tour # Change(m).kept.tour /\ kept.review = Change(m).kept.review
  <2>1. Files(m) = <<"tour">> \o <<>>
    BY <1>2 DEF Files
  <2>2. Files(m) = <<"tour">>
    BY <2>1, ConcatLemma
  <2>3. <<"tour">>[1] = "tour" /\ 1 \in DOMAIN <<"tour">> /\ <<"tour">> \in Seq({"tour", "review"})
    OBVIOUS
  <2> QED  BY <1>2, <2>2, <2>3
<1>3. CASE kept.tour = Change(m).kept.tour /\ kept.review # Change(m).kept.review
  <2>1. Files(m) = <<>> \o <<"review">>
    BY <1>3 DEF Files
  <2>2. Files(m) = <<"review">>
    BY <2>1
  <2>3. <<"review">>[1] = "review" /\ 1 \in DOMAIN <<"review">> /\ <<"review">> \in Seq({"tour", "review"})
    OBVIOUS
  <2> QED  BY <1>3, <2>2, <2>3
<1>4. CASE kept.tour # Change(m).kept.tour /\ kept.review # Change(m).kept.review
  <2>1. Files(m) = <<"tour">> \o <<"review">>
    BY <1>4 DEF Files
  <2>2. Files(m) = Append(<<"tour">>, "review")
    BY <2>1, ConcatLemma
  <2>3. <<"tour">> \in Seq({"tour", "review"}) /\ Len(<<"tour">>) = 1 /\ <<"tour">>[1] = "tour"
    OBVIOUS
  <2>4. /\ Files(m) \in Seq({"tour", "review"}) /\ Files(m)[1] = "tour" /\ Files(m)[2] = "review"
        /\ 1 \in DOMAIN Files(m) /\ 2 \in DOMAIN Files(m)
    BY <2>2, <2>3, AppendLemma
  <2> QED  BY <2>4
<1> QED  BY <1>1, <1>2, <1>3, <1>4

(* The head of the chain computes: generations move, the target is what it made *)
LEMMA ComputeKeeps ==
  ASSUME ReviewsInv, Compute  PROVE ReviewsInv'
<1> DEFINE m == chain[1]
           c == Change(m)
<1>1. /\ ReviewsTypeOK /\ chain # <<>> /\ writing = Nil /\ m = Head(chain) /\ m \in Mutations
      /\ version' = c.version /\ wanted' = c.wanted
      /\ writing' = [kept |-> c.kept, files |-> Files(m), how |-> c.value]
      /\ UNCHANGED <<checkout, kept, chain, tour, review, broken, ahead>>
  <2>1. ReviewsTypeOK /\ chain # <<>> /\ chain \in Seq(Mutations)
    BY DEF ReviewsInv, ReviewsTypeOK, Compute
  <2>2. m = Head(chain) /\ m \in Mutations
    BY <2>1
  <2> QED  BY <2>1, <2>2 DEF Compute
<1>2. /\ c.kept \in KeptFiles /\ c.version \in Versions /\ c.wanted \in Kept
      /\ c.value \in {"done", "refused"}
  BY <1>1, ChangeTyped
<1>3. /\ Files(m) \in Seq({"tour", "review"})
      /\ kept.tour # c.kept.tour => \E i \in DOMAIN Files(m) : Files(m)[i] = "tour"
      /\ kept.review # c.kept.review => \E i \in DOMAIN Files(m) : Files(m)[i] = "review"
  BY <1>1, FilesLemma
<1> HIDE DEF m, c
<1>4. writing' \in Writings /\ writing' # Nil /\ writing'.kept = c.kept /\ writing'.files = Files(m)
      /\ writing'.how = c.value
  <2>1. writing' \in Writings
    BY <1>1, <1>2, <1>3 DEF Writings
  <2> QED  BY <1>1, <2>1, ReviewsAssumption
<1>5. ReviewsTypeOK'
  BY <1>1, <1>2, <1>4 DEF ReviewsTypeOK, Versions, Kept
<1>6. ASSUME ~broken PROVE Unbroken'
  <2>1. /\ Waits(chain, version, wanted, tour) /\ ToursBegun(version, wanted, tour)
        /\ TourFile(kept.tour, chain, version, wanted, tour)
        /\ ReviewsBegun(version, wanted, review) /\ ReviewFile(kept.review, wanted, review)
        /\ version \in Versions /\ wanted \in Kept /\ chain \in Seq(Mutations) /\ 1 \in DOMAIN chain
        /\ kept \in KeptFiles
    BY <1>1, <1>6 DEF ReviewsInv, Unbroken, Target, ReviewsTypeOK, Versions, Kept
  <2>2. /\ m.op = "drop" /\ m.gen = version.tour => wanted.tour = 0
        /\ m.op = "save tour" /\ m.gen = version.tour => wanted.tour = m.job \/ DropAfter(chain, 1, version)
        /\ m.op = "save tour" /\ tour[m.job].at = "saving" => m.gen = tour[m.job].gen
        /\ m.op = "save tour" => tour[m.job].at \in {"saving", "over"}
        /\ m.op = "invalidate" => tour[m.job].at = "start"
        /\ m.op = "save review" /\ m.gen = version.review => m.job \in wanted.review
    BY <2>1 DEF Waits, TourWaits, ReviewWaits, m
  <2>3. kept.tour # Nil /\ version.branch # Nil => kept.tour.branch = version.branch
    BY <2>1 DEF TourFile
  <2>4. \/ /\ version'.tour = version.tour /\ version'.branch = version.branch
           /\ wanted'.tour = wanted.tour
           /\ \/ c.kept.tour = kept.tour /\ ~(m.op = "save tour" /\ c.value = "done")
              \/ /\ m.op = "save tour" /\ m.gen = version.tour /\ m.branch = version.branch
                 /\ c.kept.tour # Nil /\ c.kept.tour.by = m.job /\ c.kept.tour.branch = m.branch
           /\ m.op # "invalidate" /\ (m.op = "drop" => m.gen # version.tour)
        \/ /\ version'.tour = version.tour + 1 /\ c.kept.tour = Nil
           /\ m.op = "invalidate" => wanted'.tour = m.job
           /\ m.op # "invalidate" => wanted'.tour = 0
           /\ m.op # "save tour" /\ (m.op = "drop" => m.gen = version.tour)
    BY <1>1, <2>2, <2>3, ChangeOfTour DEF c
  <2>5. \/ /\ version'.review = version.review /\ wanted'.review = wanted.review
           /\ \/ c.kept.review = kept.review /\ ~(m.op = "save review" /\ c.value = "done")
              \/ /\ m.op = "save review" /\ m.gen = version.review
                 /\ c.kept.review # Nil /\ c.kept.review.by = m.job
        \/ /\ version'.review = version.review + 1 /\ c.kept.review = Nil /\ wanted'.review = {}
           /\ m.op # "save review"
    BY <1>1, ChangeOfReview DEF c
  <2>6. version' \in Versions /\ wanted' \in Kept
    BY <1>1, <1>2
  <2>7. Target'.tour = c.kept.tour /\ Target'.review = c.kept.review
    BY <1>4 DEF Target
  <2>8. ToWrite'
    BY <1>1, <1>3, <1>4 DEF ToWrite
  <2>9. HeadRuns'
    <3>1. version.tour \in Nat
      BY <2>1 DEF Versions
    <3>2. m.op = "drop" => m.gen # version'.tour
      BY <2>4, <3>1
    <3>3. /\ m.op = "invalidate" => wanted'.tour = m.job /\ c.kept.tour = Nil
          /\ m.op = "save tour" /\ c.value = "done" => c.kept.tour # Nil
      BY <2>4
    <3>4. m.op = "save review" /\ c.value = "done" => c.kept.review # Nil /\ c.kept.review.by = m.job
      BY <2>5
    <3>5. chain'[1] = m
      BY <1>1 DEF m
    <3> QED  BY <1>4, <2>7, <3>2, <3>3, <3>4, <3>5 DEF HeadRuns
  <2>10. Waits(chain, version', wanted', tour)
    BY <2>1, <2>4, <2>5, <2>6, GenerationWaits
  <2>11. ToursBegun(version', wanted', tour)
    <3>1. ASSUME NEW t \in Tours, Begun(tour[t])
          PROVE  tour[t].gen <= version'.tour /\ (tour[t].gen = version'.tour => wanted'.tour = t)
      <4> DEFINE g == tour[t].gen
                 n == version.tour
      <4>1. g \in Nat /\ n \in Nat
        BY <1>1, <2>1 DEF ReviewsTypeOK, JobsAt, Versions
      <4>2. g <= n /\ (g = n => wanted.tour = t)
        BY <2>1, <3>1 DEF ToursBegun
      <4> HIDE DEF g, n
      <4>3. g <= n + 1 /\ g # n + 1
        BY <4>1, <4>2
      <4>4. (version'.tour = n /\ wanted'.tour = wanted.tour) \/ version'.tour = n + 1
        BY <2>4 DEF n
      <4> QED  BY <4>2, <4>3, <4>4 DEF g
    <3> QED  BY <3>1 DEF ToursBegun
  <2>12. TourFile(c.kept.tour, chain, version', wanted', tour)
    <3>1. CASE version'.tour = version.tour /\ version'.branch = version.branch /\ wanted'.tour = wanted.tour
               /\ c.kept.tour = kept.tour
      BY <2>1, <3>1 DEF TourFile, DropAfter
    <3>2. CASE /\ version'.tour = version.tour /\ version'.branch = version.branch /\ wanted'.tour = wanted.tour
               /\ m.op = "save tour" /\ m.gen = version.tour /\ m.branch = version.branch
               /\ c.kept.tour # Nil /\ c.kept.tour.by = m.job /\ c.kept.tour.branch = m.branch
      <4>1. DropAfter(chain, 1, version) => DropAfter(chain, 0, version')
        <5>1. \A j \in DOMAIN chain : j > 1 => j > 0
          BY <2>1
        <5> QED  BY <3>2, <5>1 DEF DropAfter
      <4>2. Begun(tour[m.job]) => tour[m.job].gen = version'.tour
        BY <2>2, <3>2 DEF Begun
      <4> QED  BY <2>2, <3>2, <4>1, <4>2 DEF TourFile
    <3>3. CASE /\ version'.tour = version.tour + 1 /\ c.kept.tour = Nil
               /\ m.op = "invalidate" => wanted'.tour = m.job
               /\ m.op # "invalidate" => wanted'.tour = 0
      <4>1. \A t \in Tours : t # 0
        BY DEF Tours
      <4>2. \A t \in Tours : tour[t].at = "ready" => wanted'.tour # t
        BY <2>2, <3>3, <4>1
      <4> QED  BY <3>3, <4>2 DEF TourFile
    <3> QED  BY <2>4, <3>1, <3>2, <3>3
  <2>13. ReviewsBegun(version', wanted', review)
    <3>1. ASSUME NEW r \in CodeReviews
          PROVE  /\ review[r].at = "pending" =>
                      review[r].gen <= version'.review /\ (review[r].gen = version'.review => r \in wanted'.review)
                 /\ review[r].at \in {"orphan", "asked", "joining"} => (version'.review = 0 => r \in wanted'.review)
      <4> DEFINE g == review[r].gen
                 n == version.review
      <4>1. g \in Nat /\ n \in Nat
        BY <1>1, <2>1 DEF ReviewsTypeOK, JobsAt, Versions
      <4>2. /\ review[r].at = "pending" => g <= n /\ (g = n => r \in wanted.review)
            /\ review[r].at \in {"orphan", "asked", "joining"} => (n = 0 => r \in wanted.review)
        BY <2>1 DEF ReviewsBegun
      <4> HIDE DEF g, n
      <4>3. (g <= n => g <= n + 1 /\ g # n + 1) /\ n + 1 # 0
        BY <4>1
      <4>4. (version'.review = n /\ wanted'.review = wanted.review) \/ version'.review = n + 1
        BY <2>5 DEF n
      <4> QED  BY <4>2, <4>3, <4>4 DEF g
    <3> QED  BY <3>1 DEF ReviewsBegun
  <2>14. ReviewFile(c.kept.review, wanted', review)
    BY <2>1, <2>2, <2>5 DEF ReviewFile
  <2> QED  BY <1>1, <2>7, <2>8, <2>9, <2>10, <2>11, <2>12, <2>13, <2>14 DEF Unbroken
<1> QED  BY <1>1, <1>5, <1>6 DEF ReviewsInv

(* A file is written: the target stays                                       *)
LEMMA WriteFileKeeps ==
  ASSUME ReviewsInv, WriteFile  PROVE ReviewsInv'
<1> DEFINE f == writing.files
<1>1. /\ ReviewsTypeOK /\ writing # Nil /\ f # <<>>
      /\ kept' = [kept EXCEPT ![Head(f)] = writing.kept[Head(f)]]
      /\ writing' = [writing EXCEPT !.files = Tail(f)]
      /\ UNCHANGED <<checkout, version, chain, tour, review, wanted, broken, ahead>>
  BY DEF ReviewsInv, WriteFile
<1>2. writing \in Writings /\ f \in Seq({"tour", "review"}) /\ writing.kept \in KeptFiles /\ kept \in KeptFiles
  BY <1>1 DEF ReviewsTypeOK, Writings
<1>3. /\ Tail(f) \in Seq({"tour", "review"}) /\ DOMAIN Tail(f) = 1..(Len(f) - 1)
      /\ Len(f) \in Nat \ {0} /\ DOMAIN f = 1..Len(f)
      /\ \A i \in 1..(Len(f) - 1) : Tail(f)[i] = f[i + 1]
  BY <1>1, <1>2, TailLemma
<1>4. Head(f) \in {"tour", "review"} /\ Head(f) = f[1]
  BY <1>1, <1>2
<1>5. /\ writing' \in Writings /\ writing' # Nil /\ writing'.kept = writing.kept
      /\ writing'.files = Tail(f) /\ writing'.how = writing.how
  <2>1. /\ writing' \in Writings /\ writing'.kept = writing.kept
        /\ writing'.files = Tail(f) /\ writing'.how = writing.how
    <3> HIDE DEF f
    <3> QED  BY <1>1, <1>2, <1>3 DEF Writings
  <2> QED  BY <2>1, ReviewsAssumption
<1>6. /\ kept' \in KeptFiles
      /\ Head(f) = "tour" => kept'.tour = writing.kept.tour /\ kept'.review = kept.review
      /\ Head(f) = "review" => kept'.review = writing.kept.review /\ kept'.tour = kept.tour
  <2>1. CASE Head(f) = "tour"
    <3>1. kept' = [kept EXCEPT !.tour = writing.kept.tour]
      BY <1>1, <2>1
    <3> QED  BY <1>2, <2>1, <3>1 DEF KeptFiles
  <2>2. CASE Head(f) = "review"
    <3>1. kept' = [kept EXCEPT !.review = writing.kept.review]
      BY <1>1, <2>2
    <3> QED  BY <1>2, <2>2, <3>1 DEF KeptFiles
  <2> QED  BY <1>4, <2>1, <2>2
<1> HIDE DEF f
<1>7. ReviewsTypeOK'
  BY <1>1, <1>5, <1>6 DEF ReviewsTypeOK
<1>8. Target' = Target
  BY <1>1, <1>5 DEF Target
<1>9. ASSUME ToWrite PROVE ToWrite'
  <2>1. ASSUME NEW x \in {"tour", "review"}, x # Head(f), \E i \in DOMAIN f : f[i] = x
        PROVE  \E i \in DOMAIN Tail(f) : Tail(f)[i] = x
    <3>1. PICK i \in DOMAIN f : f[i] = x
      BY <2>1
    <3>2. i - 1 \in 1..(Len(f) - 1) /\ (i - 1) + 1 = i
      BY <1>3, <1>4, <2>1, <3>1
    <3> QED  BY <1>3, <3>1, <3>2
  <2>2. kept'.tour # writing.kept.tour => \E i \in DOMAIN Tail(f) : Tail(f)[i] = "tour"
    BY <1>1, <1>4, <1>6, <1>9, <2>1 DEF ToWrite, f
  <2>3. kept'.review # writing.kept.review => \E i \in DOMAIN Tail(f) : Tail(f)[i] = "review"
    BY <1>1, <1>4, <1>6, <1>9, <2>1 DEF ToWrite, f
  <2> QED  BY <1>5, <2>2, <2>3 DEF ToWrite
<1>10. ASSUME HeadRuns PROVE HeadRuns'
  BY <1>1, <1>5, <1>8, <1>10 DEF HeadRuns
<1> QED  BY <1>1, <1>7, <1>8, <1>9, <1>10 DEF ReviewsInv, Unbroken

(* ------------------------ the steps beside the chain --------------------- *)

(* What is kept, what waits and what is written stay                        *)
LEMMA QuietKeeps ==
  ASSUME ReviewsInv, UNCHANGED <<kept, chain, writing, broken>>, checkout' \in Branches,
         version' \in Versions, wanted' \in Kept, version'.tour = version.tour, wanted'.tour = wanted.tour,
         tour' \in [Tours -> JobsAt(TourStates)], review' \in [CodeReviews -> JobsAt(ReviewStates)],
         ~broken =>
           /\ Waits(chain, version', wanted', tour')
           /\ ToursBegun(version', wanted', tour') /\ TourFile(Target.tour, chain, version', wanted', tour')
           /\ ReviewsBegun(version', wanted', review') /\ ReviewFile(Target.review, wanted', review')
  PROVE  ReviewsInv'
<1>1. ReviewsTypeOK'
  BY DEF ReviewsInv, ReviewsTypeOK, Versions, Kept
<1>2. ASSUME ~broken PROVE Unbroken'
  <2>1. ToWrite' /\ HeadRuns' /\ Target' = Target
    BY <1>2, HeadStays DEF ReviewsInv, Unbroken
  <2> QED  BY <1>2, <2>1 DEF Unbroken
<1> QED  BY <1>1, <1>2 DEF ReviewsInv

(* A mutation joins the chain                                               *)
LEMMA ChainedKeeps ==
  ASSUME ReviewsInv, NEW m \in Mutations, Chained(m),
         tour' \in [Tours -> JobsAt(TourStates)], review' \in [CodeReviews -> JobsAt(ReviewStates)],
         ~broken =>
           /\ Waits(chain, version, wanted, tour') /\ Joins(m, chain, version, wanted, tour')
           /\ ToursBegun(version, wanted, tour') /\ TourFile(Target.tour, chain, version, wanted, tour')
           /\ ReviewsBegun(version, wanted, review') /\ ReviewFile(Target.review, wanted, review')
  PROVE  ReviewsInv'
<1>1. /\ chain' = Append(chain, m) /\ UNCHANGED <<checkout, kept, version, writing, wanted, broken>>
      /\ chain \in Seq(Mutations) /\ (writing # Nil => chain # <<>>)
  BY DEF Chained, ReviewsInv, ReviewsTypeOK
<1>2. chain' \in Seq(Mutations) /\ chain' # <<>>
  BY <1>1, AppendLemma
<1>3. ReviewsTypeOK'
  BY <1>1, <1>2 DEF ReviewsInv, ReviewsTypeOK
<1>4. ASSUME ~broken PROVE Unbroken'
  <2>1. /\ Waits(chain', version, wanted, tour')
        /\ DropAfter(chain, 0, version) => DropAfter(chain', 0, version)
    BY <1>1, <1>4, PushWaits
  <2>2. writing # Nil => chain'[1] = chain[1]
    BY <1>1, FirstStays
  <2>3. ToWrite' /\ HeadRuns' /\ Target' = Target
    BY <1>1, <1>4, <2>2, HeadStays DEF ReviewsInv, Unbroken
  <2>4. TourFile(Target.tour, chain', version, wanted, tour')
    BY <1>4, <2>1, TourFileMoves
  <2> QED  BY <1>1, <1>4, <2>1, <2>3, <2>4 DEF Unbroken
<1> QED  BY <1>1, <1>3, <1>4 DEF ReviewsInv

(* The invariant in the form in which the steps use it                       *)
LEMMA Unchangeds ==
  ASSUME ReviewsInv
  PROVE  /\ tour \in [Tours -> JobsAt(TourStates)] /\ review \in [CodeReviews -> JobsAt(ReviewStates)]
         /\ version \in Versions /\ wanted \in Kept /\ checkout \in Branches /\ chain \in Seq(Mutations)
         /\ Target.tour \in TourFiles \union {Nil}
         /\ ~broken =>
              /\ Waits(chain, version, wanted, tour)
              /\ ToursBegun(version, wanted, tour) /\ TourFile(Target.tour, chain, version, wanted, tour)
              /\ ReviewsBegun(version, wanted, review) /\ ReviewFile(Target.review, wanted, review)
<1> QED  BY TargetLemma DEF ReviewsInv, ReviewsTypeOK, Unbroken, Versions, Kept

(* Tours                                                                     *)
LEMMA StartTourKeeps ==
  ASSUME ReviewsInv, NEW t \in Tours, NEW o \in Owners, NEW with \in BOOLEAN, StartTour(t, o, with)
  PROVE  ReviewsInv'
<1> DEFINE x == Captured(o, with)
<1>1. /\ tour' = [tour EXCEPT ![t] = x] /\ tour[t].at = "new"
      /\ UNCHANGED <<kept, writing, broken, checkout, version, chain, review, wanted>>
  BY DEF StartTour, NextJob, New, Quiet
<1>2. x \in JobsAt(TourStates) /\ x.at = "capture"
  BY DEF ReviewsInv, ReviewsTypeOK, Captured, JobsAt, TourStates
<1> HIDE DEF x
<1>3. tour' \in [Tours -> JobsAt(TourStates)] /\ tour'[t].at = "capture"
      /\ \A u \in Tours : u # t => tour'[u] = tour[u]
  BY <1>1, <1>2, Unchangeds
<1>4. ASSUME ~broken
      PROVE  /\ Waits(chain, version, wanted, tour')
             /\ ToursBegun(version, wanted, tour') /\ TourFile(Target.tour, chain, version, wanted, tour')
  <2>1. NoneOf(chain, t)
    BY <1>1, <1>4, Unchangeds, NoneWaits
  <2>2. Waits(chain, version, wanted, tour')
    BY <1>3, <1>4, <2>1, Unchangeds, UpdateWaits
  <2>3. ~Begun(tour'[t]) /\ tour'[t].at # "ready"
    BY <1>3 DEF Begun
  <2>4. ToursBegun(version, wanted, tour') /\ TourFile(Target.tour, chain, version, wanted, tour')
    BY <1>3, <1>4, <2>3, Unchangeds, TourUpdate
  <2> QED  BY <2>2, <2>4
<1> QED  BY <1>1, <1>3, <1>4, Unchangeds, QuietKeeps

LEMMA TourPreparedKeeps ==
  ASSUME ReviewsInv, NEW t \in Tours, TourPrepared(t)  PROVE ReviewsInv'
<1> DEFINE m == Mutation("invalidate", t, tour[t], 0)
<1>1. tour[t].at = "capture" /\ tour' = [tour EXCEPT ![t].at = "start"] /\ Chained(m) /\ UNCHANGED review
  BY DEF TourPrepared
<1>2. tour[t].branch \in Branches \union {Nil} /\ tour[t].gen \in Nat
  BY Unchangeds DEF JobsAt
<1>3. m \in Mutations /\ m.op = "invalidate" /\ m.job = t
  BY <1>2 DEF Mutation, Mutations
<1> HIDE DEF m
<1>4. tour' \in [Tours -> JobsAt(TourStates)] /\ tour'[t].at = "start"
      /\ \A u \in Tours : u # t => tour'[u] = tour[u]
  BY <1>1, Unchangeds DEF JobsAt, TourStates
<1>5. ASSUME ~broken
      PROVE  /\ Waits(chain, version, wanted, tour') /\ Joins(m, chain, version, wanted, tour')
             /\ ToursBegun(version, wanted, tour') /\ TourFile(Target.tour, chain, version, wanted, tour')
  <2>1. NoneOf(chain, t)
    BY <1>1, <1>5, Unchangeds, NoneWaits
  <2>2. Waits(chain, version, wanted, tour')
    BY <1>4, <1>5, <2>1, Unchangeds, UpdateWaits
  <2>3. ~Begun(tour'[t]) /\ tour'[t].at # "ready"
    BY <1>4 DEF Begun
  <2>4. ToursBegun(version, wanted, tour') /\ TourFile(Target.tour, chain, version, wanted, tour')
    BY <1>4, <1>5, <2>3, Unchangeds, TourUpdate
  <2>5. Joins(m, chain, version, wanted, tour')
    BY <1>3, <1>4, <2>1 DEF Joins, ReviewWaits
  <2> QED  BY <2>2, <2>4, <2>5
<1> QED  BY <1>1, <1>3, <1>4, <1>5, Unchangeds, ChainedKeeps

LEMMA GeneratedKeeps ==
  ASSUME ReviewsInv, NEW t \in Tours, Generated(t)  PROVE ReviewsInv'
<1> DEFINE m == Mutation("save tour", t, tour[t], tour[t].gen)
<1>1. tour[t].at = "pending" /\ tour' = [tour EXCEPT ![t].at = "saving"] /\ Chained(m) /\ UNCHANGED review
  BY DEF Generated
<1>2. tour[t].branch \in Branches \union {Nil} /\ tour[t].gen \in Nat
  BY Unchangeds DEF JobsAt
<1>3. m \in Mutations /\ m.op = "save tour" /\ m.job = t /\ m.gen = tour[t].gen
  BY <1>2 DEF Mutation, Mutations
<1> HIDE DEF m
<1>4. tour' \in [Tours -> JobsAt(TourStates)] /\ tour'[t].at = "saving" /\ tour'[t].gen = tour[t].gen
      /\ \A u \in Tours : u # t => tour'[u] = tour[u]
  BY <1>1, Unchangeds DEF JobsAt, TourStates
<1>5. ASSUME ~broken
      PROVE  /\ Waits(chain, version, wanted, tour') /\ Joins(m, chain, version, wanted, tour')
             /\ ToursBegun(version, wanted, tour') /\ TourFile(Target.tour, chain, version, wanted, tour')
  <2>1. NoneOf(chain, t)
    BY <1>1, <1>5, Unchangeds, NoneWaits
  <2>2. Waits(chain, version, wanted, tour')
    BY <1>4, <1>5, <2>1, Unchangeds, UpdateWaits
  <2>3. /\ Begun(tour[t]) /\ tour'[t].at # "ready"
        /\ tour'[t].gen <= version.tour /\ (tour'[t].gen = version.tour => wanted.tour = t)
    BY <1>1, <1>4, <1>5, Unchangeds DEF Begun, ToursBegun
  <2>6. Target.tour # Nil /\ Target.tour.by = t => tour'[t].gen = version.tour
    BY <1>4, <1>5, <2>3, Unchangeds DEF TourFile
  <2>4. ToursBegun(version, wanted, tour') /\ TourFile(Target.tour, chain, version, wanted, tour')
    BY <1>4, <1>5, <2>3, <2>6, Unchangeds, TourUpdate
  <2>5. Joins(m, chain, version, wanted, tour')
    BY <1>3, <1>4, <2>1, <2>3 DEF Joins, ReviewWaits
  <2> QED  BY <2>2, <2>4, <2>5
<1> QED  BY <1>1, <1>3, <1>4, <1>5, Unchangeds, ChainedKeeps

(* A tour that waits for no start ends                                      *)
LEMMA EndedTour ==
  ASSUME ReviewsInv, NEW t \in Tours, tour[t].at # "start"
  PROVE  /\ Gone(tour, {t}) \in [Tours -> JobsAt(TourStates)]
         /\ ~broken =>
              /\ Waits(chain, version, wanted, Gone(tour, {t}))
              /\ ToursBegun(version, wanted, Gone(tour, {t}))
              /\ TourFile(Target.tour, chain, version, wanted, Gone(tour, {t}))
<1>1. Gone(tour, {t}) \in [Tours -> JobsAt(TourStates)]
  BY Unchangeds, GoneLemma DEF TourStates
<1>2. ASSUME ~broken
      PROVE  /\ Waits(chain, version, wanted, Gone(tour, {t}))
             /\ ToursBegun(version, wanted, Gone(tour, {t}))
             /\ TourFile(Target.tour, chain, version, wanted, Gone(tour, {t}))
  <2>1. \A i \in DOMAIN chain : chain[i].op = "invalidate" => chain[i].job \notin {t}
    BY <1>2, Unchangeds DEF Waits, TourWaits
  <2>2. Waits(chain, version, wanted, Gone(tour, {t}))
    BY <1>2, <2>1, Unchangeds, GoneWaits
  <2>3. ToursBegun(version, wanted, Gone(tour, {t})) /\ TourFile(Target.tour, chain, version, wanted, Gone(tour, {t}))
    BY <1>2, Unchangeds, TourGone
  <2> QED  BY <2>2, <2>3
<1> QED  BY <1>1, <1>2

LEMMA TourFailsKeeps ==
  ASSUME ReviewsInv, NEW t \in Tours, TourFails(t)  PROVE ReviewsInv'
<1>1. /\ tour[t].at = "pending" /\ tour' = Gone(tour, {t})
      /\ UNCHANGED <<kept, writing, broken, checkout, version, chain, review, wanted>>
  BY DEF TourFails, Quiet
<1> QED  BY <1>1, EndedTour, Unchangeds, QuietKeeps

(* A cancelled tour may not be kept any more: if it may have been saved in   *)
(* the running generation, its drop comes behind everything that waits.     *)
LEMMA CancelWaits ==
  ASSUME NEW c \in Seq(Mutations), NEW v, NEW w, NEW x, NEW ts \in [Tours -> JobsAt(TourStates)],
         NEW t \in Tours, NEW m \in Mutations, NEW f \in TourFiles \union {Nil},
         Waits(c, v, w, ts), ToursBegun(v, w, ts), TourFile(f, c, v, w, ts),
         Begun(ts[t]), m.op = "drop", m.gen = ts[t].gen, w.tour = t, x.tour = 0, x.review = w.review
  PROVE  /\ Waits(Append(c, m), v, x, Gone(ts, {t})) /\ ToursBegun(v, x, Gone(ts, {t}))
         /\ TourFile(f, Append(c, m), v, x, Gone(ts, {t}))
<1> DEFINE N == Len(c)
           d == Append(c, m)
           us == Gone(ts, {t})
<1>1. /\ d \in Seq(Mutations) /\ DOMAIN d = 1..(N + 1) /\ N \in Nat /\ DOMAIN c = 1..N
      /\ d[N + 1] = m /\ \A i \in 1..N : i \in 1..(N + 1) /\ i # N + 1 /\ d[i] = c[i]
  BY AppendLemma
<1>2. /\ ts[t].at # "start" /\ us \in [Tours -> JobsAt(TourStates)]
      /\ \A u \in Tours : us[u] = IF u = t THEN Over ELSE ts[u]
      /\ Over.at = "over" /\ ~Begun(Over) /\ t # 0
  <2>1. "over" \in TourStates /\ t # 0 /\ ts[t].at # "start"
    BY DEF TourStates, Tours, Begun
  <2> QED  BY <2>1, GoneLemma, OverLemma
<1>3. \A i \in DOMAIN c : c[i].op = "invalidate" => c[i].job \notin {t}
  BY <1>2 DEF Waits, TourWaits
<1>4. Waits(c, v, w, us) /\ ToursBegun(v, w, us) /\ TourFile(f, c, v, w, us)
  BY <1>3, GoneWaits, TourGone
<1>5. m.gen <= v.tour
  BY DEF ToursBegun
<1> HIDE DEF N, d, us
<1>6. \A i \in 1..(N + 1) : i \in 1..N \/ i = N + 1
  BY <1>1
<1>7. \A i \in 0..N : m.gen = v.tour \/ DropAfter(c, i, v) => DropAfter(d, i, v)
  <2>1. ASSUME NEW i \in 0..N, m.gen = v.tour PROVE DropAfter(d, i, v)
    <3>1. N + 1 \in DOMAIN d /\ N + 1 > i
      BY <1>1
    <3> QED  BY <1>1, <2>1, <3>1 DEF DropAfter
  <2>2. ASSUME NEW i \in 0..N, DropAfter(c, i, v) PROVE DropAfter(d, i, v)
    BY <1>1, <2>2 DEF DropAfter
  <2> QED  BY <2>1, <2>2
<1>8. ASSUME NEW i \in 1..N, c[i].op = "save tour", c[i].gen = v.tour, w.tour = c[i].job
      PROVE  m.gen = v.tour \/ DropAfter(c, i, v)
  <2>1. c[i].job = t /\ TourWaits(c[i], v, w, ts)
    BY <1>1, <1>8 DEF Waits
  <2>2. ts[t].at = "saving"
    BY <1>8, <2>1 DEF TourWaits, Begun
  <2> QED  BY <1>8, <2>1, <2>2 DEF TourWaits
<1>9. ASSUME NEW i \in 1..(N + 1)
      PROVE  /\ TourWaits(d[i], v, x, us) /\ ReviewWaits(d[i], v, x)
             /\ d[i].op = "save tour" /\ d[i].gen = v.tour => x.tour = d[i].job \/ DropAfter(d, i, v)
  <2>1. CASE i \in 1..N
    <3>1. d[i] = c[i] /\ i \in 0..N /\ TourWaits(c[i], v, w, us) /\ ReviewWaits(c[i], v, w)
      <4>1. d[i] = c[i] /\ i \in DOMAIN c
        BY <1>1, <2>1
      <4>2. i \in 0..N
        BY <2>1
      <4> QED  BY <1>4, <4>1, <4>2 DEF Waits
    <3>2. c[i].op = "save tour" /\ c[i].gen = v.tour => w.tour = c[i].job \/ DropAfter(c, i, v)
      BY <1>1, <1>4, <2>1 DEF Waits
    <3> QED  BY <1>7, <1>8, <2>1, <3>1, <3>2 DEF TourWaits, ReviewWaits
  <2>2. CASE i = N + 1
    <3>1. d[i] = m
      BY <1>1, <2>2
    <3> QED  BY <1>5, <3>1 DEF TourWaits, ReviewWaits
  <2> QED  BY <1>6, <2>1, <2>2
<1>10. ASSUME NEW i \in 1..(N + 1), NEW j \in 1..(N + 1), i # j, OfTour(d[i]), d[i].op = d[j].op
       PROVE  d[i].job # d[j].job
  <2>1. i # N + 1 /\ j # N + 1
    BY <1>1, <1>10 DEF OfTour
  <2> QED  BY <1>1, <1>4, <1>6, <1>10, <2>1, ZenonT(60) DEF Waits
<1>11. Waits(d, v, x, us)
  BY <1>1, <1>9, <1>10, ZenonT(60) DEF Waits
<1>12. ToursBegun(v, x, us)
  BY <1>2, <1>4 DEF ToursBegun
<1>13. TourFile(f, d, v, x, us)
  <2>1. f # Nil => DropAfter(d, 0, v)
    <3>1. f # Nil /\ f.by = t => ts[t].gen = v.tour
      BY DEF TourFile
    <3>2. f # Nil /\ f.by # t => DropAfter(c, 0, v)
      BY DEF TourFile
    <3> QED  BY <1>1, <1>7, <3>1, <3>2
  <2>2. \A u \in Tours : x.tour # u
    BY DEF Tours
  <2> QED  BY <1>4, <2>1, <2>2 DEF TourFile
<1> QED  BY <1>11, <1>12, <1>13 DEF d, us

(* A cancel with a drop to come, and one of a tour that is finished          *)
LEMMA CancelTourKeeps ==
  ASSUME ReviewsInv, NEW t \in Tours, CancelTour(t)  PROVE ReviewsInv'
<1>1. /\ tour[t].at \in {"pending", "saving", "ready"} /\ tour' = Gone(tour, {t})
      /\ chain' = chain \o Drops({t})
      /\ wanted' = IF tour[t].at \in {"pending", "saving"} /\ wanted.tour = t
                   THEN [wanted EXCEPT !.tour = 0] ELSE wanted
      /\ UNCHANGED <<kept, writing, broken, checkout, version, review>>
  BY Unchangeds DEF CancelTour, Live, Quiet
<1>2. CASE chain' = chain /\ ~Begun(tour[t])
  <2>1. wanted' = wanted
    BY <1>1, <1>2 DEF Begun
  <2> QED  BY <1>1, <1>2, <2>1, EndedTour, Unchangeds, QuietKeeps
<1>3. ASSUME Begun(tour[t]), NEW m \in Mutations, m.op = "drop", m.gen = tour[t].gen, chain' = Append(chain, m)
      PROVE  ReviewsInv'
  <2>1. CASE wanted.tour # t
    <3>1. wanted' = wanted
      BY <1>1, <2>1
    <3>2. ~broken => Joins(m, chain, version, wanted, tour')
      BY <1>3, <2>1, Unchangeds DEF Joins, ReviewWaits, OfTour, ToursBegun
    <3>3. Chained(m)
      BY <1>1, <1>3, <3>1 DEF Chained
    <3> QED  BY <1>1, <1>3, <3>2, <3>3, EndedTour, Unchangeds, ChainedKeeps
  <2>2. CASE wanted.tour = t
    <3>1. wanted' = [wanted EXCEPT !.tour = 0]
      BY <1>1, <1>3, <2>2 DEF Begun
    <3>2. wanted' \in Kept /\ wanted'.tour = 0 /\ wanted'.review = wanted.review
      BY <3>1, Unchangeds DEF Kept
    <3>3. chain' \in Seq(Mutations) /\ chain' # <<>>
      BY <1>3, Unchangeds, AppendLemma
    <3>4. ReviewsTypeOK'
      BY <1>1, <3>2, <3>3, EndedTour DEF ReviewsInv, ReviewsTypeOK, Kept
    <3>5. ASSUME ~broken PROVE Unbroken'
      <4>1. /\ Waits(chain', version, wanted', tour') /\ ToursBegun(version, wanted', tour')
            /\ TourFile(Target.tour, chain', version, wanted', tour')
        <5>1. /\ Waits(Append(chain, m), version, wanted', Gone(tour, {t}))
            /\ ToursBegun(version, wanted', Gone(tour, {t}))
            /\ TourFile(Target.tour, Append(chain, m), version, wanted', Gone(tour, {t}))
        BY <1>3, <2>2, <3>2, <3>5, Unchangeds, CancelWaits
      <5> QED  BY <1>1, <1>3, <5>1
      <4>2. writing # Nil => chain # <<>> /\ chain'[1] = chain[1]
        BY <1>3, Unchangeds, FirstStays DEF ReviewsInv, ReviewsTypeOK
      <4>3. writing # Nil => chain[1].op # "invalidate"
        <5>1. SUFFICES ASSUME writing # Nil, chain[1].op = "invalidate" PROVE FALSE
          OBVIOUS
        <5>2. wanted.tour = chain[1].job
          BY <3>5, <5>1 DEF ReviewsInv, Unbroken, HeadRuns
        <5>3. 1 \in DOMAIN chain
          BY <4>2, <5>1, Unchangeds
        <5>4. tour[t].at = "start"
          BY <2>2, <3>5, <5>1, <5>2, <5>3, Unchangeds DEF Waits, TourWaits
        <5> QED  BY <1>1, <5>4
      <4>4. ToWrite' /\ HeadRuns' /\ Target' = Target
        BY <1>1, <3>5, <4>2, <4>3, HeadStays DEF ReviewsInv, Unbroken
      <4>5. ReviewsBegun(version, wanted', review) /\ ReviewFile(Target.review, wanted', review)
        BY <3>2, <3>5, Unchangeds DEF ReviewsBegun, ReviewFile
      <4> QED  BY <1>1, <4>1, <4>4, <4>5 DEF Unbroken
    <3> QED  BY <1>1, <3>4, <3>5 DEF ReviewsInv
  <2> QED  BY <2>1, <2>2
<1>4. \/ chain \o Drops({t}) = chain /\ \A u \in {t} : ~Begun(tour[u])
      \/ \E u \in {t}, m \in Mutations :
           Begun(tour[u]) /\ m.op = "drop" /\ m.gen = tour[u].gen /\ chain \o Drops({t}) = Append(chain, m)
  BY Unchangeds, DropsLemma DEF ReviewsInv
<1> QED  BY <1>1, <1>2, <1>3, <1>4

(* Code reviews                                                             *)
LEMMA AddReviewKeeps ==
  ASSUME ReviewsInv, NEW r \in CodeReviews, NEW o \in Owners, AddReview(r, o)  PROVE ReviewsInv'
<1> DEFINE x == [Captured(o, FALSE) EXCEPT !.at = "resolve"]
<1>1. /\ review' = [review EXCEPT ![r] = x]
      /\ UNCHANGED <<kept, writing, broken, checkout, version, chain, tour, wanted>>
  BY DEF AddReview, Quiet
<1>2. x \in JobsAt(ReviewStates) /\ x.at = "resolve"
  BY DEF ReviewsInv, ReviewsTypeOK, Captured, JobsAt, ReviewStates
<1> HIDE DEF x
<1>3. review' \in [CodeReviews -> JobsAt(ReviewStates)] /\ review'[r].at = "resolve"
      /\ \A q \in CodeReviews : q # r => review'[q] = review[q]
  BY <1>1, <1>2, Unchangeds
<1>4. ASSUME ~broken
      PROVE  ReviewsBegun(version, wanted, review') /\ ReviewFile(Target.review, wanted, review')
  <2>1. /\ review'[r].at \notin {"pending", "ready", "recovered"}
        /\ review'[r].at \in {"orphan", "asked", "joining"} => (version.review = 0 => r \in wanted.review)
    BY <1>3, <1>4
  <2>2. ReviewsBegun(version, wanted, review) /\ ReviewFile(Target.review, wanted, review)
    BY <1>4, Unchangeds
  <2> QED  BY <1>3, <2>1, <2>2, ReviewUpdate
<1> QED  BY <1>1, <1>3, <1>4, Unchangeds, QuietKeeps

(* A new generation of Code reviews has one member                           *)
LEMMA ReviewBeginsKeeps ==
  ASSUME ReviewsInv, NEW r \in CodeReviews, ReviewBegins(r)  PROVE ReviewsInv'
<1> DEFINE gone == Gone(review, OfOwner(review, r))
           n == version.review
<1>1. /\ review' = [gone EXCEPT ![r].at = "pending", ![r].gen = n + 1]
      /\ version' = [version EXCEPT !.review = n + 1] /\ wanted' = [wanted EXCEPT !.review = {r}]
      /\ UNCHANGED <<kept, writing, broken, checkout, chain, tour>>
  BY Unchangeds DEF ReviewBegins, Quiet, Versions
<1>2. n \in Nat /\ gone \in [CodeReviews -> JobsAt(ReviewStates)]
      /\ \A q \in CodeReviews : gone[q] = review[q] \/ gone[q].at = "over"
  BY Unchangeds, GoneLemma, OverLemma DEF ReviewStates, Versions
<1>3. /\ version' \in Versions /\ version'.tour = version.tour /\ version'.branch = version.branch
      /\ version'.review = n + 1
      /\ wanted' \in Kept /\ wanted'.tour = wanted.tour /\ wanted'.review = {r}
  <2> HIDE DEF n
  <2> QED  BY <1>1, <1>2, Unchangeds DEF Versions, Kept
<1> HIDE DEF gone, n
<1>4. /\ review' \in [CodeReviews -> JobsAt(ReviewStates)] /\ review'[r].at = "pending"
      /\ review'[r].gen = n + 1 /\ \A q \in CodeReviews : q # r => review'[q] = gone[q]
  <2>1. gone[r] \in JobsAt(ReviewStates) /\ n + 1 \in Nat
    BY <1>2
  <2>2. PICK y : y = [gone[r] EXCEPT !.at = "pending", !.gen = n + 1]
    OBVIOUS
  <2>3. y \in JobsAt(ReviewStates) /\ y.at = "pending" /\ y.gen = n + 1
    BY <2>1, <2>2 DEF JobsAt, ReviewStates
  <2>4. review' = [gone EXCEPT ![r] = y]
    BY <1>1, <1>2, <2>2
  <2> QED  BY <1>2, <2>3, <2>4
<1>5. ASSUME ~broken
      PROVE  /\ Waits(chain, version', wanted', tour')
             /\ ToursBegun(version', wanted', tour') /\ TourFile(Target.tour, chain, version', wanted', tour')
             /\ ReviewsBegun(version', wanted', review') /\ ReviewFile(Target.review, wanted', review')
  <2>1. Waits(chain, version', wanted', tour)
    <3>1. version'.review = version.review + 1
      BY <1>3 DEF n
    <3> QED  BY <1>3, <1>5, <3>1, Unchangeds, GenerationWaits
  <2>2. ToursBegun(version', wanted', tour)
    BY <1>3, <1>5, Unchangeds DEF ToursBegun
  <2>3. TourFile(Target.tour, chain, version', wanted', tour)
    BY <1>3, <1>5, Unchangeds DEF TourFile, DropAfter
  <2>4. ReviewsBegun(version', wanted', review')
    <3>1. ASSUME NEW q \in CodeReviews, review'[q].at = "pending"
          PROVE  review'[q].gen <= n + 1 /\ (review'[q].gen = n + 1 => q \in {r})
      <4>1. CASE q = r
        BY <1>2, <1>4, <4>1
      <4>2. CASE q # r
        <5> DEFINE g == review[q].gen
        <5>1. review'[q] = review[q] /\ g \in Nat
          BY <1>2, <1>4, <3>1, <4>2, Unchangeds DEF JobsAt
        <5>2. g <= n
          BY <1>5, <3>1, <5>1, Unchangeds DEF ReviewsBegun, n
        <5>3. review'[q].gen = g
          BY <5>1
        <5> HIDE DEF g
        <5>4. g <= n + 1 /\ g # n + 1
          BY <1>2, <5>1, <5>2
        <5> QED  BY <5>3, <5>4
      <4> QED  BY <4>1, <4>2
    <3>2. n + 1 # 0
      BY <1>2
    <3> QED  BY <1>3, <3>1, <3>2 DEF ReviewsBegun
  <2>5. ReviewFile(Target.review, wanted', review')
    <3>1. wanted'.review # {} /\ \A q \in CodeReviews : wanted'.review = {q} => q = r
      BY <1>3
    <3> QED  BY <1>4, <3>1 DEF ReviewFile
  <2> QED  BY <1>1, <2>1, <2>2, <2>3, <2>4, <2>5
<1>6. tour' = tour /\ chain' = chain
  BY <1>1
<1> QED  BY <1>1, <1>3, <1>4, <1>5, <1>6, Unchangeds, QuietKeeps

LEMMA ReviewedKeeps ==
  ASSUME ReviewsInv, NEW r \in CodeReviews, Reviewed(r)  PROVE ReviewsInv'
<1> DEFINE g == IF review[r].at = "pending" THEN review[r].gen ELSE 0
           m == Mutation("save review", r, review[r], g)
           at == IF review[r].at = "pending" THEN "saving" ELSE "landing"
<1>1. /\ review[r].at \in {"pending", "joining"} /\ Chained(m) /\ UNCHANGED tour
      /\ review' = [review EXCEPT ![r].at = at]
  BY Unchangeds DEF Reviewed, JobsAt
<1>2. review[r].branch \in Branches \union {Nil} /\ review[r].gen \in Nat /\ version.review \in Nat
  BY Unchangeds DEF JobsAt, Versions
<1>3. m \in Mutations /\ m.op = "save review" /\ m.job = r /\ m.gen = g
  BY <1>2 DEF Mutation, Mutations
<1> HIDE DEF m
<1>4. at \in {"saving", "landing"} /\ at \in ReviewStates
  BY DEF ReviewStates
<1>5. ~broken => g <= version.review /\ (g = version.review => r \in wanted.review)
  BY <1>1, <1>2, Unchangeds DEF ReviewsBegun
<1> HIDE DEF g, at
<1>6. review' \in [CodeReviews -> JobsAt(ReviewStates)] /\ review'[r].at = at
      /\ \A q \in CodeReviews : q # r => review'[q] = review[q]
  BY <1>1, <1>4, Unchangeds DEF JobsAt
<1>7. ASSUME ~broken
      PROVE  ReviewsBegun(version, wanted, review') /\ ReviewFile(Target.review, wanted, review')
  <2>1. /\ review'[r].at \notin {"pending", "ready", "recovered"}
        /\ review'[r].at \in {"orphan", "asked", "joining"} => (version.review = 0 => r \in wanted.review)
    BY <1>4, <1>6, <1>7
  <2>2. ReviewsBegun(version, wanted, review) /\ ReviewFile(Target.review, wanted, review)
    BY <1>7, Unchangeds
  <2>3. \A q \in CodeReviews : q # r => review'[q] = review[q]
    BY <1>6
  <2> QED  BY <2>1, <2>2, <2>3, ReviewUpdate
<1>8. ~broken => Joins(m, chain, version, wanted, tour)
  BY <1>3, <1>5 DEF Joins, OfTour, ReviewWaits
<1> QED  BY <1>1, <1>3, <1>6, <1>7, <1>8, Unchangeds, ChainedKeeps

LEMMA ReviewGoneKeeps ==
  ASSUME ReviewsInv, NEW r \in CodeReviews, ReviewFails(r) \/ CancelReview(r)  PROVE ReviewsInv'
<1>1. /\ review' = Gone(review, {r})
      /\ UNCHANGED <<kept, writing, broken, checkout, version, chain, tour, wanted>>
  BY DEF ReviewFails, CancelReview, Quiet
<1>2. review' \in [CodeReviews -> JobsAt(ReviewStates)]
  BY <1>1, Unchangeds, GoneLemma DEF ReviewStates
<1>3. ~broken => ReviewsBegun(version, wanted, review') /\ ReviewFile(Target.review, wanted, review')
  BY <1>1, Unchangeds, ReviewGone
<1> QED  BY <1>1, <1>2, <1>3, Unchangeds, QuietKeeps

LEMMA RecoverOrphanKeeps ==
  ASSUME ReviewsInv, NEW r \in CodeReviews, RecoverOrphan(r)  PROVE ReviewsInv'
<1> DEFINE m == Mutation("stored", r, review[r], 0)
<1>1. review[r].at = "orphan" /\ review' = [review EXCEPT ![r].at = "asked"] /\ Chained(m) /\ UNCHANGED tour
  BY DEF RecoverOrphan
<1>2. review[r].branch \in Branches \union {Nil}
  BY Unchangeds DEF JobsAt
<1>3. m \in Mutations /\ m.op = "stored" /\ m.job = r
  BY <1>2 DEF Mutation, Mutations
<1> HIDE DEF m
<1>4. review' \in [CodeReviews -> JobsAt(ReviewStates)] /\ review'[r].at = "asked"
      /\ \A q \in CodeReviews : q # r => review'[q] = review[q]
  BY <1>1, Unchangeds, ZenonT(60) DEF JobsAt, ReviewStates
<1>5. ~broken => (version.review = 0 => r \in wanted.review)
  BY <1>1, Unchangeds DEF ReviewsBegun
<1>6. ASSUME ~broken
      PROVE  ReviewsBegun(version, wanted, review') /\ ReviewFile(Target.review, wanted, review')
  <2>1. /\ review'[r].at \notin {"pending", "ready", "recovered"}
        /\ review'[r].at \in {"orphan", "asked", "joining"} => (version.review = 0 => r \in wanted.review)
    BY <1>4, <1>5, <1>6
  <2>2. ReviewsBegun(version, wanted, review) /\ ReviewFile(Target.review, wanted, review)
    BY <1>6, Unchangeds
  <2>3. \A q \in CodeReviews : q # r => review'[q] = review[q]
    BY <1>4
  <2> QED  BY <2>1, <2>2, <2>3, ReviewUpdate
<1>7. ~broken => Joins(m, chain, version, wanted, tour)
  BY <1>3, <1>5 DEF Joins, OfTour, ReviewWaits
<1> QED  BY <1>1, <1>3, <1>4, <1>6, <1>7, Unchangeds, ChainedKeeps

(* The Worktree, the dashboard and the server                               *)
LEMMA WorktreeKeeps ==
  ASSUME ReviewsInv,
         Dismiss \/ (\E b \in Branches : SwitchBranch(b) \/ DashboardReconciles(b)) \/ UNCHANGED reviewing
  PROVE  ReviewsInv'
<1>1. CASE Dismiss
  <2> DEFINE m == Mutation("dismiss", 0, NoJob, 0)
  <2>1. Chained(m) /\ UNCHANGED <<tour, review>>
    BY <1>1 DEF Dismiss
  <2>2. m \in Mutations /\ m.op = "dismiss"
    BY DEF Mutation, Mutations, NoJob
  <2> HIDE DEF m
  <2>3. Joins(m, chain, version, wanted, tour)
    BY <2>2 DEF Joins, OfTour, ReviewWaits
  <2> QED  BY <2>1, <2>2, <2>3, Unchangeds, ChainedKeeps
<1>2. ASSUME NEW b \in Branches, DashboardReconciles(b)  PROVE ReviewsInv'
  <2> DEFINE m == Mutation("reconcile", 0, [NoJob EXCEPT !.branch = b], 0)
  <2>1. Chained(m) /\ UNCHANGED <<tour, review>>
    BY <1>2 DEF DashboardReconciles
  <2>2. m \in Mutations /\ m.op = "reconcile"
    BY DEF Mutation, Mutations, NoJob
  <2> HIDE DEF m
  <2>3. Joins(m, chain, version, wanted, tour)
    BY <2>2 DEF Joins, OfTour, ReviewWaits
  <2> QED  BY <2>1, <2>2, <2>3, Unchangeds, ChainedKeeps
<1>3. ASSUME NEW b \in Branches, SwitchBranch(b)  PROVE ReviewsInv'
  <2>1. checkout' = b /\ UNCHANGED <<kept, writing, broken, version, chain, tour, review, wanted>>
    BY <1>3 DEF SwitchBranch, Quiet
  <2> QED  BY <2>1, Unchangeds, QuietKeeps
<1>4. CASE UNCHANGED reviewing
  <2>1. UNCHANGED <<checkout, kept, writing, broken, version, chain, tour, review, wanted>>
    BY <1>4 DEF reviewing
  <2> QED  BY <2>1, Unchangeds, QuietKeeps
<1> QED  BY <1>1, <1>2, <1>3, <1>4

(* Nothing waited, or something was cut off                                  *)
LEMMA ServerStopsKeeps ==
  ASSUME ReviewsInv, ServerStops  PROVE ReviewsInv'
<1>1. PICK orphans \in SUBSET CodeReviews :
        /\ review' = [r \in CodeReviews |->
             IF r \in orphans THEN [review[r] EXCEPT !.at = "orphan", !.gen = 0]
             ELSE IF review[r].at = "new" THEN NoJob ELSE Over]
        /\ wanted' = [wanted EXCEPT !.review = @ \union orphans]
  <2>1. \E orphans \in SUBSET {r \in CodeReviews : review[r].at \in {"pending", "orphan", "asked", "joining", "landing"}} :
          /\ review' = [r \in CodeReviews |->
               IF r \in orphans THEN [review[r] EXCEPT !.at = "orphan", !.gen = 0]
               ELSE IF review[r].at = "new" THEN NoJob ELSE Over]
          /\ wanted' = [wanted EXCEPT !.review = @ \union orphans]
    BY DEF ServerStops
  <2> QED  BY <2>1
<1>2. /\ broken' = (broken \/ chain # <<>>) /\ chain' = <<>> /\ writing' = Nil
      /\ version' = [tour |-> 0, branch |-> Nil, review |-> 0]
      /\ tour' = Gone(tour, {t \in Tours : tour[t].at # "new"})
      /\ UNCHANGED <<checkout, kept>>
  BY DEF ServerStops
<1>3. /\ version' \in Versions /\ version'.branch = Nil /\ version'.review = 0
      /\ wanted' \in Kept /\ wanted'.tour = wanted.tour /\ wanted'.review = wanted.review \union orphans
  BY <1>1, <1>2, Unchangeds DEF Versions, Kept
<1>4. /\ tour' \in [Tours -> JobsAt(TourStates)]
      /\ \A t \in Tours : tour'[t].at \in {"new", "over"}
  BY <1>2, Unchangeds, GoneLemma, OverLemma DEF TourStates
<1>5. /\ review' \in [CodeReviews -> JobsAt(ReviewStates)]
      /\ \A r \in CodeReviews : review'[r].at \in {"new", "over"} \/ (r \in orphans /\ review'[r].at = "orphan")
  <2>1. ASSUME NEW r \in CodeReviews
        PROVE  /\ review'[r] \in JobsAt(ReviewStates)
               /\ review'[r].at \in {"new", "over"} \/ (r \in orphans /\ review'[r].at = "orphan")
    <3>1. CASE r \in orphans
      <4>1. review'[r] = [review[r] EXCEPT !.at = "orphan", !.gen = 0] /\ review[r] \in JobsAt(ReviewStates)
        BY <1>1, <3>1, Unchangeds
      <4>2. PICK y : y = [review[r] EXCEPT !.at = "orphan", !.gen = 0]
        OBVIOUS
      <4>3. y \in JobsAt(ReviewStates) /\ y.at = "orphan"
        BY <4>1, <4>2 DEF JobsAt, ReviewStates
      <4> QED  BY <3>1, <4>1, <4>2, <4>3
    <3>2. CASE r \notin orphans
      <4>1. review'[r] \in {NoJob, Over}
        BY <1>1, <3>2
      <4>2. NoJob \in JobsAt(ReviewStates) /\ NoJob.at = "new"
        BY DEF NoJob, JobsAt, ReviewStates
      <4> QED  BY <4>1, <4>2, OverLemma DEF ReviewStates
    <3> QED  BY <3>1, <3>2
  <2>2. review' = [r \in CodeReviews |-> review'[r]]
    BY <1>1
  <2> QED  BY <2>1, <2>2
<1>6. ReviewsTypeOK'
  <2>1. chain' \in Seq(Mutations) /\ broken' \in BOOLEAN
    BY <1>2 DEF ReviewsInv, ReviewsTypeOK
  <2> QED  BY <1>2, <1>3, <1>4, <1>5, <2>1 DEF ReviewsInv, ReviewsTypeOK, Versions, Kept
<1>7. ASSUME ~broken' PROVE Unbroken'
  <2>1. ~broken /\ chain = <<>> /\ writing = Nil /\ Target = kept /\ Target' = kept
    BY <1>2, <1>7 DEF ReviewsInv, ReviewsTypeOK, Target
  <2>2. ToWrite' /\ HeadRuns'
    BY <1>2 DEF ToWrite, HeadRuns
  <2>3. Waits(chain', version', wanted', tour')
    BY <1>2 DEF Waits
  <2>4. ToursBegun(version', wanted', tour')
    BY <1>4 DEF ToursBegun, Begun
  <2>5. TourFile(kept.tour, chain', version', wanted', tour')
    <3>1. /\ kept.tour # Nil => kept.tour.by = wanted.tour /\ kept.tour.by \in Tours
      BY <2>1, Unchangeds DEF TourFile, DropAfter, TourFiles
    <3> QED  BY <1>3, <1>4, <3>1 DEF TourFile, Begun
  <2>6. ReviewsBegun(version', wanted', review')
    BY <1>3, <1>5 DEF ReviewsBegun
  <2>7. ReviewFile(kept.review, wanted', review')
    <3>1. wanted.review = {} => kept.review = Nil
      BY <2>1, Unchangeds DEF ReviewFile
    <3> QED  BY <1>3, <1>5, <3>1 DEF ReviewFile
  <2> QED  BY <2>1, <2>2, <2>3, <2>4, <2>5, <2>6, <2>7 DEF Unbroken
<1> QED  BY <1>6, <1>7 DEF ReviewsInv

(* -------------------- what the caller of a mutation does ----------------- *)

(* What a save makes of its job                                              *)
LEMMA JobsMove ==
  ASSUME NEW D, NEW js \in [D -> JobsAt(TourStates)], NEW j \in D
  PROVE  /\ JobEnded(js[j], "done").at = "ready" /\ \A how : JobEnded(js[j], how) \in JobsAt(TourStates)
         /\ \A how : how # "done" => JobEnded(js[j], how) = Over
<1>1. Over \in JobsAt(TourStates)
  BY OverLemma DEF TourStates
<1>2. [js[j] EXCEPT !.at = "ready"] \in JobsAt(TourStates) /\ [js[j] EXCEPT !.at = "ready"].at = "ready"
  BY DEF JobsAt, TourStates
<1> QED  BY <1>1, <1>2 DEF JobEnded

LEMMA ReviewsMove ==
  ASSUME NEW js \in [CodeReviews -> JobsAt(ReviewStates)], NEW j \in CodeReviews
  PROVE  /\ JobEnded(js[j], "done").at = "ready" /\ \A how : JobEnded(js[j], how) \in JobsAt(ReviewStates)
         /\ \A how : how # "done" => JobEnded(js[j], how) = Over
         /\ [js[j] EXCEPT !.at = "recovered"] \in JobsAt(ReviewStates)
         /\ [js[j] EXCEPT !.at = "recovered"].at = "recovered"
         /\ [js[j] EXCEPT !.at = "joining"] \in JobsAt(ReviewStates)
         /\ [js[j] EXCEPT !.at = "joining"].at = "joining"
<1>1. Over \in JobsAt(ReviewStates)
  BY OverLemma DEF ReviewStates
<1>2. /\ [js[j] EXCEPT !.at = "ready"] \in JobsAt(ReviewStates) /\ [js[j] EXCEPT !.at = "ready"].at = "ready"
      /\ [js[j] EXCEPT !.at = "recovered"] \in JobsAt(ReviewStates)
      /\ [js[j] EXCEPT !.at = "recovered"].at = "recovered"
      /\ [js[j] EXCEPT !.at = "joining"] \in JobsAt(ReviewStates)
      /\ [js[j] EXCEPT !.at = "joining"].at = "joining"
  BY DEF JobsAt, ReviewStates
<1> QED  BY <1>1, <1>2 DEF JobEnded

(* What begins: the tour, with its Code review beside it                     *)
Starts(t, selection) ==
  IF selection = "empty" THEN Over
  ELSE [Gone(tour, OfOwner(tour, t))[t] EXCEPT !.at = "pending", !.gen = version.tour]

LEMMA BeginsLemma ==
  ASSUME ReviewsTypeOK, NEW t \in Tours, NEW selection, TourBegins(t, selection)
  PROVE  LET older == OfOwner(tour, t) IN
         /\ Starts(t, selection) \in JobsAt(TourStates)
         /\ Starts(t, selection) = Over \/
              (Starts(t, selection).at = "pending" /\ Starts(t, selection).gen = version.tour)
         /\ older \in SUBSET Tours
         /\ \A u \in older : tour[u].at \in {"pending", "saving", "ready"}
         /\ tour' = [Gone(tour, older) EXCEPT ![t] = Starts(t, selection)]
         /\ tour' \in [Tours -> JobsAt(TourStates)]
         /\ chain' = Tail(chain) \o Drops(older)
         /\ review' \in [CodeReviews -> JobsAt(ReviewStates)]
         /\ \/ review' = Gone(review, Live(review))
            \/ \E r \in CodeReviews :
                 /\ review'[r].at = "resolve"
                 /\ \A q \in CodeReviews : q # r => review'[q] = Gone(review, Live(review))[q]
<1> DEFINE older == OfOwner(tour, t)
           others == Gone(review, Live(review))
           x == Starts(t, selection)
<1>1. /\ tour \in [Tours -> JobsAt(TourStates)] /\ review \in [CodeReviews -> JobsAt(ReviewStates)]
      /\ version.tour \in Nat
  BY DEF ReviewsTypeOK
<1>2. /\ older \in SUBSET Tours
      /\ \A u \in older : tour[u].at \in {"pending", "saving", "ready"}
  BY <1>1 DEF OfOwner, Live
<1>3. Gone(tour, older) \in [Tours -> JobsAt(TourStates)] /\ Gone(tour, older)[t] \in JobsAt(TourStates)
  BY <1>1, <1>2, GoneLemma DEF TourStates
<1>4. others \in [CodeReviews -> JobsAt(ReviewStates)]
  BY <1>1, GoneLemma DEF ReviewStates
<1>5. /\ x \in JobsAt(TourStates)
      /\ x = Over \/ (x.at = "pending" /\ x.gen = version.tour)
  <2>1. CASE selection = "empty"
    BY <2>1, OverLemma DEF Starts, TourStates
  <2>2. CASE selection # "empty"
    <3> DEFINE was == Gone(tour, older)[t]
    <3>1. PICK y : y = [was EXCEPT !.at = "pending", !.gen = version.tour]
      OBVIOUS
    <3>2. y \in JobsAt(TourStates) /\ y.at = "pending" /\ y.gen = version.tour
      <4>1. was \in JobsAt(TourStates)
        BY <1>3
      <4> HIDE DEF was
      <4> QED  BY <1>1, <3>1, <4>1 DEF JobsAt, TourStates
    <3>3. x = y
      BY <2>2, <3>1 DEF Starts
    <3> QED  BY <3>2, <3>3
  <2> QED  BY <2>1, <2>2
<1>6. /\ tour' = [Gone(tour, older) EXCEPT ![t] = x] /\ chain' = Tail(chain) \o Drops(older)
      /\ \/ \E r \in CodeReviews : review' = [others EXCEPT ![r] = [tour[t] EXCEPT !.at = "resolve"]]
         \/ review' = others
  <2>1. tour' = [Gone(tour, older) EXCEPT ![t] = x]
    BY <1>3 DEF TourBegins, Starts
  <2> QED  BY <2>1 DEF TourBegins
<1> HIDE DEF x
<1>7. tour' \in [Tours -> JobsAt(TourStates)]
  BY <1>3, <1>5, <1>6
<1>8. /\ review' \in [CodeReviews -> JobsAt(ReviewStates)]
      /\ \/ review' = others
         \/ \E r \in CodeReviews :
              /\ review'[r].at = "resolve"
              /\ \A q \in CodeReviews : q # r => review'[q] = others[q]
  <2>1. CASE review' = others
    BY <1>4, <2>1
  <2>2. ASSUME NEW r \in CodeReviews, review' = [others EXCEPT ![r] = [tour[t] EXCEPT !.at = "resolve"]]
        PROVE  /\ review' \in [CodeReviews -> JobsAt(ReviewStates)] /\ review'[r].at = "resolve"
               /\ \A q \in CodeReviews : q # r => review'[q] = others[q]
    <3>1. PICK y : y = [tour[t] EXCEPT !.at = "resolve"]
      OBVIOUS
    <3>2. y \in JobsAt(ReviewStates) /\ y.at = "resolve"
      BY <1>1, <3>1 DEF JobsAt, ReviewStates
    <3>3. review' = [others EXCEPT ![r] = y]
      BY <2>2, <3>1
    <3> HIDE DEF others
    <3> QED  BY <1>4, <3>2, <3>3
  <2> QED  BY <1>6, <2>1, <2>2
<1> QED  BY <1>2, <1>5, <1>6, <1>7, <1>8 DEF x

(* The mutation that runs                                                   *)
LEMMA RunningLemma ==
  ASSUME ReviewsInv, writing # Nil
  PROVE  /\ chain # <<>> /\ 1 \in DOMAIN chain /\ Head(chain) = chain[1] /\ chain[1] \in Mutations
         /\ Tail(chain) \in Seq(Mutations)
         /\ OfTour(chain[1]) => chain[1].job \in Tours
         /\ chain[1].op \in {"save review", "stored"} => chain[1].job \in CodeReviews
         /\ chain[1].op \in {"invalidate", "save tour", "save review", "stored", "dismiss", "drop", "reconcile"}
<1>1. chain # <<>> /\ chain \in Seq(Mutations)
  BY DEF ReviewsInv, ReviewsTypeOK
<1>2. 1 \in DOMAIN chain /\ Head(chain) = chain[1] /\ chain[1] \in Mutations
  BY <1>1
<1>3. Tail(chain) \in Seq(Mutations)
  BY <1>1, TailLemma
<1> QED  BY <1>1, <1>2, <1>3, MutationLemma

(* Whatever the caller does next has its type                                *)
LEMMA SettlesTyped ==
  ASSUME ReviewsInv, writing # Nil, NEW how, Settles(chain[1], how)
  PROVE  /\ tour' \in [Tours -> JobsAt(TourStates)] /\ review' \in [CodeReviews -> JobsAt(ReviewStates)]
         /\ chain' \in Seq(Mutations)
<1> DEFINE m == chain[1]
<1>1. ReviewsTypeOK /\ tour \in [Tours -> JobsAt(TourStates)] /\ review \in [CodeReviews -> JobsAt(ReviewStates)]
  BY DEF ReviewsInv, ReviewsTypeOK
<1>2. CASE m.op = "invalidate" /\ how = "done"
  <2>1. PICK selection \in {"some", "empty"} : TourBegins(m.job, selection)
    BY <1>2 DEF Settles
  <2>2. m.job \in Tours
    BY <1>2, RunningLemma DEF OfTour
  <2>3. /\ tour' \in [Tours -> JobsAt(TourStates)] /\ review' \in [CodeReviews -> JobsAt(ReviewStates)]
        /\ OfOwner(tour, m.job) \in SUBSET Tours /\ chain' = Tail(chain) \o Drops(OfOwner(tour, m.job))
    BY <1>1, <1>2, <2>1, <2>2, BeginsLemma
  <2>4. \/ Tail(chain) \o Drops(OfOwner(tour, m.job)) = Tail(chain)
        \/ \E d \in Mutations : Tail(chain) \o Drops(OfOwner(tour, m.job)) = Append(Tail(chain), d)
    BY <1>1, <2>3, RunningLemma, DropsLemma
  <2>5. chain' \in Seq(Mutations)
    <3>1. Tail(chain) \in Seq(Mutations)
      BY RunningLemma
    <3>2. chain' = Tail(chain) \/ \E d \in Mutations : chain' = Append(Tail(chain), d)
      BY <2>3, <2>4
    <3>3. ASSUME NEW d \in Mutations, chain' = Append(Tail(chain), d)  PROVE chain' \in Seq(Mutations)
      BY <3>1, <3>3, AppendLemma
    <3> QED  BY <3>1, <3>2, <3>3
  <2> QED  BY <2>3, <2>5
<1>3. CASE m.op = "invalidate" /\ how # "done"
  <2>1. tour' = Gone(tour, {m.job}) /\ chain' = Tail(chain) /\ review' = review
    BY <1>3 DEF Settles
  <2>2. tour' \in [Tours -> JobsAt(TourStates)]
    BY <1>1, <2>1, GoneLemma DEF TourStates
  <2> QED  BY <1>1, <2>1, <2>2, RunningLemma
<1>4. CASE m.op # "invalidate"
  <2>1. /\ chain' = Tail(chain)
        /\ tour' = IF m.op = "save tour" /\ tour[m.job].at = "saving"
                   THEN [tour EXCEPT ![m.job] = JobEnded(@, how)] ELSE tour
        /\ review' = CASE m.op = "dismiss" /\ how = "done" -> Gone(review, Live(review))
                    [] m.op = "save review" /\ review[m.job].at = "saving" ->
                         [review EXCEPT ![m.job] = JobEnded(@, how)]
                    [] m.op = "save review" /\ review[m.job].at = "landing" ->
                         [review EXCEPT ![m.job] = IF how = "done" THEN [@ EXCEPT !.at = "recovered"] ELSE Over]
                    [] m.op = "stored" ->
                         IF Narrates(m.job) THEN [review EXCEPT ![m.job].at = "joining"] ELSE Gone(review, {m.job})
                    [] OTHER -> review
    BY <1>4 DEF Settles
  <2>2. tour' \in [Tours -> JobsAt(TourStates)]
    <3>1. CASE m.op = "save tour" /\ tour[m.job].at = "saving"
      <4>1. m.job \in Tours
        BY <3>1, RunningLemma DEF OfTour
      <4>2. tour' = [tour EXCEPT ![m.job] = JobEnded(tour[m.job], how)]
        BY <1>1, <2>1, <3>1, <4>1
      <4> QED  BY <1>1, <4>1, <4>2, JobsMove
    <3> QED  BY <1>1, <2>1, <3>1
  <2>3. review' \in [CodeReviews -> JobsAt(ReviewStates)]
    <3>1. Gone(review, Live(review)) \in [CodeReviews -> JobsAt(ReviewStates)]
          /\ Gone(review, {m.job}) \in [CodeReviews -> JobsAt(ReviewStates)] /\ Over \in JobsAt(ReviewStates)
      BY <1>1, GoneLemma, OverLemma DEF ReviewStates
    <3>2. CASE m.op = "save review"
      <4>1. m.job \in CodeReviews
        BY <3>2, RunningLemma
      <4>2. CASE review[m.job].at = "saving"
        <5>1. review' = [review EXCEPT ![m.job] = JobEnded(review[m.job], how)]
          BY <1>1, <2>1, <3>2, <4>1, <4>2
        <5> QED  BY <1>1, <4>1, <5>1, ReviewsMove
      <4>3. CASE review[m.job].at = "landing"
        <5>1. \/ review' = [review EXCEPT ![m.job] = [review[m.job] EXCEPT !.at = "recovered"]]
              \/ review' = [review EXCEPT ![m.job] = Over]
          BY <1>1, <2>1, <3>2, <4>1, <4>3
        <5>2. [review[m.job] EXCEPT !.at = "recovered"] \in JobsAt(ReviewStates)
          BY <1>1, <4>1, ReviewsMove
        <5> QED  BY <1>1, <3>1, <4>1, <5>1, <5>2
      <4>4. CASE review[m.job].at \notin {"saving", "landing"}
        BY <1>1, <2>1, <3>2, <4>4
      <4> QED  BY <4>2, <4>3, <4>4
    <3>3. CASE m.op = "stored"
      <4>1. m.job \in CodeReviews
        BY <3>3, RunningLemma
      <4>2. \/ review' = [review EXCEPT ![m.job] = [review[m.job] EXCEPT !.at = "joining"]]
            \/ review' = Gone(review, {m.job})
        BY <1>1, <2>1, <3>3, <4>1
      <4>3. [review[m.job] EXCEPT !.at = "joining"] \in JobsAt(ReviewStates)
        BY <1>1, <4>1, ReviewsMove
      <4> QED  BY <1>1, <3>1, <4>1, <4>2, <4>3
    <3>4. CASE m.op \notin {"save review", "stored"}
      BY <1>1, <2>1, <3>1, <3>4
    <3> QED  BY <3>2, <3>3, <3>4
  <2> QED  BY <2>1, <2>2, <2>3, RunningLemma
<1> QED  BY <1>2, <1>3, <1>4

(* From a write that failed on, only the types are kept                      *)
LEMMA WriteFailsKeeps ==
  ASSUME ReviewsInv, WriteFails  PROVE ReviewsInv'
<1>1. /\ writing # Nil /\ broken' = TRUE /\ writing' = Nil /\ Settles(chain[1], "failed")
      /\ UNCHANGED <<checkout, kept, version, wanted>>
  BY RunningLemma DEF WriteFails
<1>2. /\ tour' \in [Tours -> JobsAt(TourStates)] /\ review' \in [CodeReviews -> JobsAt(ReviewStates)]
      /\ chain' \in Seq(Mutations)
  BY <1>1, SettlesTyped
<1>3. ReviewsTypeOK'
  BY <1>1, <1>2 DEF ReviewsInv, ReviewsTypeOK
<1> QED  BY <1>1, <1>3 DEF ReviewsInv

(* The mutation that runs leaves, with all it had to write written           *)
LEMMA WrittenLemma ==
  ASSUME ReviewsInv, ~broken, writing # Nil, writing.files = <<>>
  PROVE  /\ Target.tour = kept.tour /\ Target.review = kept.review
         /\ kept.tour \in TourFiles \union {Nil}
         /\ Waits(Tail(chain), version, wanted, tour)
         /\ ToursBegun(version, wanted, tour) /\ TourFile(kept.tour, Tail(chain), version, wanted, tour)
         /\ ReviewsBegun(version, wanted, review) /\ ReviewFile(kept.review, wanted, review)
         /\ TourWaits(chain[1], version, wanted, tour) /\ ReviewWaits(chain[1], version, wanted)
         /\ chain[1].op = "invalidate" => wanted.tour = chain[1].job
         /\ chain[1].op = "save tour" /\ writing.how = "done" => kept.tour # Nil
         /\ chain[1].op = "save review" /\ writing.how = "done" => kept.review # Nil /\ kept.review.by = chain[1].job
         /\ OfTour(chain[1]) /\ tour[chain[1].job].at # "over" => NoneOf(Tail(chain), chain[1].job)
<1>1. /\ ToWrite /\ HeadRuns /\ chain # <<>> /\ chain \in Seq(Mutations) /\ 1 \in DOMAIN chain
      /\ kept.tour \in TourFiles \union {Nil}
  BY RunningLemma DEF ReviewsInv, ReviewsTypeOK, Unbroken, KeptFiles
<1>2. /\ Waits(chain, version, wanted, tour)
      /\ ToursBegun(version, wanted, tour) /\ TourFile(Target.tour, chain, version, wanted, tour)
      /\ ReviewsBegun(version, wanted, review) /\ ReviewFile(Target.review, wanted, review)
  BY Unchangeds
<1>3. Target.tour = kept.tour /\ Target.review = kept.review
  BY <1>1 DEF ToWrite, Target
<1>4. /\ chain[1].op = "invalidate" => wanted.tour = chain[1].job
      /\ chain[1].op = "save tour" /\ writing.how = "done" => kept.tour # Nil
      /\ chain[1].op = "save review" /\ writing.how = "done" => kept.review # Nil /\ kept.review.by = chain[1].job
      /\ ~(chain[1].op = "drop" /\ chain[1].gen = version.tour)
  BY <1>1, <1>3 DEF HeadRuns
<1>5. /\ Waits(Tail(chain), version, wanted, tour)
      /\ DropAfter(chain, 0, version) => DropAfter(Tail(chain), 0, version)
  BY <1>1, <1>2, <1>4, PopWaits
<1>6. TourFile(kept.tour, Tail(chain), version, wanted, tour)
  BY <1>2, <1>3, <1>5, TourFileMoves
<1>7. TourWaits(chain[1], version, wanted, tour) /\ ReviewWaits(chain[1], version, wanted)
  BY <1>1, <1>2 DEF Waits
<1>8. OfTour(chain[1]) /\ tour[chain[1].job].at # "over" => NoneOf(Tail(chain), chain[1].job)
  BY <1>1, <1>2, PopNone
<1> QED  BY <1>1, <1>2, <1>3, <1>4, <1>5, <1>6, <1>7, <1>8

(* create() goes on behind its invalidation                                 *)
LEMMA TourBeginsKeeps ==
  ASSUME ReviewsInv, ~broken, writing # Nil, writing.files = <<>>, chain[1].op = "invalidate",
         NEW selection, TourBegins(chain[1].job, selection)
  PROVE  /\ Waits(chain', version, wanted, tour')
         /\ ToursBegun(version, wanted, tour') /\ TourFile(kept.tour, chain', version, wanted, tour')
         /\ ReviewsBegun(version, wanted, review') /\ ReviewFile(kept.review, wanted, review')
<1> DEFINE t == chain[1].job
           d == Tail(chain)
           older == OfOwner(tour, t)
           others == Gone(review, Live(review))
           gone == Gone(tour, older)
           x == Starts(t, selection)
<1>1. /\ t \in Tours /\ d \in Seq(Mutations) /\ ReviewsTypeOK
      /\ tour \in [Tours -> JobsAt(TourStates)] /\ review \in [CodeReviews -> JobsAt(ReviewStates)]
      /\ kept.tour \in TourFiles \union {Nil} /\ version \in Versions
  BY RunningLemma, Unchangeds, WrittenLemma DEF OfTour, ReviewsInv
<1>2. /\ tour[t].at = "start" /\ wanted.tour = t
      /\ NoneOf(d, t) /\ Waits(d, version, wanted, tour)
      /\ ToursBegun(version, wanted, tour) /\ TourFile(kept.tour, d, version, wanted, tour)
      /\ ReviewsBegun(version, wanted, review) /\ ReviewFile(kept.review, wanted, review)
  BY WrittenLemma DEF OfTour, TourWaits
<1>3. /\ x = Over \/ (x.at = "pending" /\ x.gen = version.tour)
      /\ older \in SUBSET Tours
      /\ \A u \in older : tour[u].at \in {"pending", "saving", "ready"}
      /\ tour' = [gone EXCEPT ![t] = x]
      /\ chain' = d \o Drops(older)
      /\ \/ review' = others
         \/ \E r \in CodeReviews :
              /\ review'[r].at = "resolve"
              /\ \A q \in CodeReviews : q # r => review'[q] = others[q]
  BY <1>1, BeginsLemma
<1>4. gone \in [Tours -> JobsAt(TourStates)] /\ t \notin older
  <2>1. t \notin older
    BY <1>2, <1>3
  <2>2. gone \in [Tours -> JobsAt(TourStates)]
    BY <1>1, GoneLemma DEF TourStates
  <2> QED  BY <2>1, <2>2
<1>5. tour'[t] = x /\ \A u \in Tours : u # t => tour'[u] = gone[u]
  <2> HIDE DEF x, gone
  <2> QED  BY <1>1, <1>3, <1>4
<1>6. \A i \in DOMAIN d : d[i].op = "invalidate" => d[i].job \notin older
  BY <1>2, <1>3 DEF Waits, TourWaits
<1> HIDE DEF t, d, older
<1>7. /\ Waits(d, version, wanted, gone)
      /\ ToursBegun(version, wanted, gone) /\ TourFile(kept.tour, d, version, wanted, gone)
  BY <1>1, <1>2, <1>6, GoneWaits, TourGone
<1>9. /\ Begun(x) => x.gen = version.tour
      /\ x.at # "ready"
  BY <1>3, OverLemma DEF TourStates
<1> HIDE DEF gone, x
<1>8. Waits(d, version, wanted, tour')
  BY <1>1, <1>2, <1>5, <1>7, UpdateWaits
<1>10. ToursBegun(version, wanted, tour') /\ TourFile(kept.tour, d, version, wanted, tour')
  <2>1. version.tour <= version.tour
    BY <1>1 DEF Versions
  <2>2. /\ Begun(tour'[t]) => tour'[t].gen <= version.tour /\ (tour'[t].gen = version.tour => wanted.tour = t)
        /\ kept.tour # Nil /\ kept.tour.by = t /\ Begun(tour'[t]) => tour'[t].gen = version.tour
        /\ tour'[t].at = "ready" /\ wanted.tour = t => kept.tour # Nil
    BY <1>2, <1>5, <1>9, <2>1
  <2> QED  BY <1>1, <1>5, <1>7, <2>2, TourUpdate
<1>11. \/ chain' = d
       \/ \E u \in older, m \in Mutations :
            Begun(tour[u]) /\ m.op = "drop" /\ m.gen = tour[u].gen /\ chain' = Append(d, m)
  BY <1>1, <1>3, DropsLemma
<1>12. Waits(chain', version, wanted, tour') /\ TourFile(kept.tour, chain', version, wanted, tour')
  <2>1. CASE chain' = d
    BY <1>8, <1>10, <2>1
  <2>2. ASSUME NEW u \in older, NEW m \in Mutations, Begun(tour[u]), m.op = "drop", m.gen = tour[u].gen,
               chain' = Append(d, m)
        PROVE  Waits(chain', version, wanted, tour') /\ TourFile(kept.tour, chain', version, wanted, tour')
    <3>1. u \in Tours /\ u # t
      BY <1>3, <1>4
    <3>2. m.gen <= version.tour /\ m.gen # version.tour
      BY <1>2, <2>2, <3>1 DEF ToursBegun
    <3>3. Joins(m, d, version, wanted, tour')
      BY <2>2, <3>2 DEF Joins, OfTour, ReviewWaits
    <3>4. Waits(chain', version, wanted, tour')
          /\ (DropAfter(d, 0, version) => DropAfter(chain', 0, version))
      BY <1>1, <1>8, <2>2, <3>3, PushWaits
    <3> QED  BY <1>10, <3>4, TourFileMoves
  <2> QED  BY <1>11, <2>1, <2>2
<1>13. ReviewsBegun(version, wanted, review') /\ ReviewFile(kept.review, wanted, review')
  <2>1. ReviewsBegun(version, wanted, others) /\ ReviewFile(kept.review, wanted, others)
    BY <1>1, <1>2, ReviewGone
  <2> HIDE DEF others
  <2>2. ASSUME NEW r \in CodeReviews, review'[r].at = "resolve",
               \A q \in CodeReviews : q # r => review'[q] = others[q]
        PROVE  ReviewsBegun(version, wanted, review') /\ ReviewFile(kept.review, wanted, review')
    <3>1. /\ review'[r].at # "pending"
          /\ review'[r].at \in {"orphan", "asked", "joining"} => (version.review = 0 => r \in wanted.review)
          /\ review'[r].at \in {"ready", "recovered"} /\ wanted.review = {r} => kept.review # Nil /\ kept.review.by = r
      BY <2>2
    <3>2. \A q \in CodeReviews : q # r => review'[q] = others[q]
      BY <2>2
    <3> QED  BY <2>1, <3>1, <3>2, ReviewUpdate
  <2> QED  BY <1>3, <2>1, <2>2
<1> QED  BY <1>10, <1>12, <1>13

(* A Code review moves on, with its file when it is ready or recovered       *)
LEMMA ReviewMoves ==
  ASSUME review \in [CodeReviews -> JobsAt(ReviewStates)],
         ReviewsBegun(version, wanted, review), ReviewFile(kept.review, wanted, review),
         NEW r \in CodeReviews, NEW x, review' = [review EXCEPT ![r] = x],
         x.at \notin {"pending", "orphan", "asked"},
         x.at = "joining" => (version.review = 0 => r \in wanted.review),
         x.at \in {"ready", "recovered"} => kept.review # Nil /\ kept.review.by = r
  PROVE  ReviewsBegun(version, wanted, review') /\ ReviewFile(kept.review, wanted, review')
<1>1. review'[r] = x /\ \A q \in CodeReviews : q # r => review'[q] = review[q]
  OBVIOUS
<1>2. /\ review'[r].at # "pending"
      /\ review'[r].at \in {"orphan", "asked", "joining"} => (version.review = 0 => r \in wanted.review)
      /\ review'[r].at \in {"ready", "recovered"} /\ wanted.review = {r} => kept.review # Nil /\ kept.review.by = r
  BY <1>1
<1>3. ReviewsBegun(version, wanted, review')
  BY <1>1, <1>2 DEF ReviewsBegun
<1>4. ASSUME NEW q \in CodeReviews, review'[q].at \in {"ready", "recovered"}, wanted.review = {q}
      PROVE  kept.review # Nil /\ kept.review.by = q
  BY <1>1, <1>2, <1>4 DEF ReviewFile
<1>5. wanted.review = {} => kept.review = Nil
  BY DEF ReviewFile
<1> QED  BY <1>3, <1>4, <1>5 DEF ReviewFile

(* A mutation is over and its caller goes on                                 *)
LEMMA MutationEndsKeeps ==
  ASSUME ReviewsInv, MutationEnds  PROVE ReviewsInv'
<1> DEFINE m == chain[1]
           d == Tail(chain)
           how == writing.how
<1>1. /\ writing # Nil /\ writing.files = <<>> /\ writing' = Nil /\ Settles(m, how)
      /\ UNCHANGED <<checkout, kept, version, wanted, broken, ahead>>
  BY RunningLemma DEF MutationEnds
<1>2. /\ tour' \in [Tours -> JobsAt(TourStates)] /\ review' \in [CodeReviews -> JobsAt(ReviewStates)]
      /\ chain' \in Seq(Mutations)
  BY <1>1, SettlesTyped
<1>3. ReviewsTypeOK'
  BY <1>1, <1>2 DEF ReviewsInv, ReviewsTypeOK
<1>4. ASSUME ~broken
      PROVE  /\ Waits(chain', version, wanted, tour')
             /\ ToursBegun(version, wanted, tour') /\ TourFile(kept.tour, chain', version, wanted, tour')
             /\ ReviewsBegun(version, wanted, review') /\ ReviewFile(kept.review, wanted, review')
  <2>1. /\ tour \in [Tours -> JobsAt(TourStates)] /\ review \in [CodeReviews -> JobsAt(ReviewStates)]
        /\ d \in Seq(Mutations) /\ kept.tour \in TourFiles \union {Nil}
        /\ OfTour(m) => m.job \in Tours
        /\ m.op \in {"save review", "stored"} => m.job \in CodeReviews
    BY <1>1, <1>4, Unchangeds, RunningLemma, WrittenLemma
  <2>2. /\ Waits(d, version, wanted, tour)
        /\ ToursBegun(version, wanted, tour) /\ TourFile(kept.tour, d, version, wanted, tour)
        /\ ReviewsBegun(version, wanted, review) /\ ReviewFile(kept.review, wanted, review)
        /\ TourWaits(m, version, wanted, tour) /\ ReviewWaits(m, version, wanted)
        /\ m.op = "save tour" /\ how = "done" => kept.tour # Nil
        /\ m.op = "save review" /\ how = "done" => kept.review # Nil /\ kept.review.by = m.job
        /\ OfTour(m) /\ tour[m.job].at # "over" => NoneOf(d, m.job)
    BY <1>1, <1>4, WrittenLemma
  <2>3. CASE m.op = "invalidate" /\ how = "done"
    <3>1. PICK selection \in {"some", "empty"} : TourBegins(m.job, selection)
      BY <1>1, <2>3 DEF Settles
    <3> QED  BY <1>1, <1>4, <2>3, <3>1, TourBeginsKeeps
  <2>4. CASE m.op = "invalidate" /\ how # "done"
    <3>1. tour' = Gone(tour, {m.job}) /\ chain' = d /\ review' = review
      BY <1>1, <2>4 DEF Settles
    <3>2. NoneOf(d, m.job)
      BY <2>2, <2>4 DEF OfTour, TourWaits
    <3>3. \A i \in DOMAIN d : d[i].op = "invalidate" => d[i].job \notin {m.job}
      BY <3>2 DEF NoneOf, OfTour
    <3> HIDE DEF m, d, how
    <3>4. Waits(d, version, wanted, Gone(tour, {m.job}))
      BY <2>1, <2>2, <3>3, GoneWaits
    <3>5. ToursBegun(version, wanted, Gone(tour, {m.job}))
          /\ TourFile(kept.tour, d, version, wanted, Gone(tour, {m.job}))
      BY <2>1, <2>2, TourGone
    <3> QED  BY <2>2, <3>1, <3>4, <3>5
  <2>5. CASE m.op # "invalidate"
    <3>1. /\ chain' = d
          /\ tour' = IF m.op = "save tour" /\ tour[m.job].at = "saving"
                     THEN [tour EXCEPT ![m.job] = JobEnded(@, how)] ELSE tour
          /\ review' = CASE m.op = "dismiss" /\ how = "done" -> Gone(review, Live(review))
                      [] m.op = "save review" /\ review[m.job].at = "saving" ->
                           [review EXCEPT ![m.job] = JobEnded(@, how)]
                      [] m.op = "save review" /\ review[m.job].at = "landing" ->
                           [review EXCEPT ![m.job] = IF how = "done" THEN [@ EXCEPT !.at = "recovered"] ELSE Over]
                      [] m.op = "stored" ->
                           IF Narrates(m.job) THEN [review EXCEPT ![m.job].at = "joining"] ELSE Gone(review, {m.job})
                      [] OTHER -> review
      BY <1>1, <2>5 DEF Settles
    <3> HIDE DEF m, d, how
    <3>2. /\ Waits(d, version, wanted, tour')
          /\ ToursBegun(version, wanted, tour') /\ TourFile(kept.tour, d, version, wanted, tour')
      <4>1. CASE m.op = "save tour" /\ tour[m.job].at = "saving"
        <5> DEFINE t == m.job
                   x == JobEnded(tour[t], how)
        <5>1. t \in Tours /\ NoneOf(d, t)
          BY <2>1, <2>2, <4>1 DEF OfTour
        <5>2. tour' = [tour EXCEPT ![t] = x]
          BY <2>1, <3>1, <4>1, <5>1
        <5>3. x = Over \/ (x.at = "ready" /\ how = "done")
          <6>1. /\ JobEnded(tour[t], "done").at = "ready"
                /\ \A h : h # "done" => JobEnded(tour[t], h) = Over
            <7> HIDE DEF t
            <7> QED  BY <2>1, <5>1, JobsMove
          <6> QED  BY <6>1
        <5>4. ~Begun(x) /\ (x.at = "ready" => kept.tour # Nil)
          BY <2>2, <4>1, <5>3, OverLemma DEF Begun, TourStates
        <5> HIDE DEF t, x
        <5>5. tour'[t] = x /\ \A u \in Tours : u # t => tour'[u] = tour[u]
          BY <2>1, <5>1, <5>2
        <5>6. Waits(d, version, wanted, tour')
          BY <2>1, <2>2, <5>1, <5>5, UpdateWaits
        <5>7. ~Begun(tour'[t]) /\ (tour'[t].at = "ready" => kept.tour # Nil)
          BY <5>4, <5>5
        <5>8. ToursBegun(version, wanted, tour') /\ TourFile(kept.tour, d, version, wanted, tour')
          BY <2>1, <2>2, <5>1, <5>5, <5>7, TourUpdate
        <5> QED  BY <5>6, <5>8
      <4>2. CASE ~(m.op = "save tour" /\ tour[m.job].at = "saving")
        BY <2>2, <3>1, <4>2
      <4> QED  BY <4>1, <4>2
    <3>3. ReviewsBegun(version, wanted, review') /\ ReviewFile(kept.review, wanted, review')
      <4> DEFINE r == m.job
      <4>1. \A which : /\ ReviewsBegun(version, wanted, Gone(review, which))
                       /\ ReviewFile(kept.review, wanted, Gone(review, which))
        BY <2>1, <2>2, ReviewGone
      <4>2. ASSUME NEW x, review' = [review EXCEPT ![r] = x], r \in CodeReviews,
                   x.at \notin {"pending", "orphan", "asked"},
                   x.at = "joining" => (version.review = 0 => r \in wanted.review),
                   x.at \in {"ready", "recovered"} => kept.review # Nil /\ kept.review.by = r
            PROVE  ReviewsBegun(version, wanted, review') /\ ReviewFile(kept.review, wanted, review')
        <5> HIDE DEF r
        <5> QED  BY <2>1, <2>2, <4>2, ReviewMoves
      <4>3. CASE m.op = "save review"
        <5>1. r \in CodeReviews
          BY <2>1, <4>3
        <5>2. CASE review[r].at = "saving"
          <6>1. review' = [review EXCEPT ![r] = JobEnded(review[r], how)]
            BY <2>1, <3>1, <4>3, <5>1, <5>2
          <6>2. JobEnded(review[r], how) = Over \/ (JobEnded(review[r], how).at = "ready" /\ how = "done")
            <7>1. /\ JobEnded(review[r], "done").at = "ready"
                  /\ \A h : h # "done" => JobEnded(review[r], h) = Over
              <8> HIDE DEF r
              <8> QED  BY <2>1, <5>1, ReviewsMove
            <7> QED  BY <7>1
          <6>3. Over.at = "over"
            BY OverLemma DEF ReviewStates
          <6> QED  BY <2>2, <4>2, <4>3, <5>1, <6>1, <6>2, <6>3
        <5>3. CASE review[r].at = "landing"
          <6> DEFINE x == IF how = "done" THEN [review[r] EXCEPT !.at = "recovered"] ELSE Over
          <6>1. review' = [review EXCEPT ![r] = x]
            BY <2>1, <3>1, <4>3, <5>1, <5>3
          <6>2. x.at = "over" \/ (x.at = "recovered" /\ how = "done")
            BY <2>1, <5>1, ReviewsMove, OverLemma DEF ReviewStates
          <6> HIDE DEF x
          <6> QED  BY <2>2, <4>2, <4>3, <5>1, <6>1, <6>2
        <5>4. CASE review[r].at \notin {"saving", "landing"}
          BY <2>2, <3>1, <4>3, <5>4
        <5> QED  BY <5>2, <5>3, <5>4
      <4>4. CASE m.op = "stored"
        <5>1. r \in CodeReviews /\ (version.review = 0 => r \in wanted.review)
          BY <2>1, <2>2, <4>4 DEF ReviewWaits
        <5>2. CASE Narrates(r)
          <6> DEFINE x == [review[r] EXCEPT !.at = "joining"]
          <6>1. review' = [review EXCEPT ![r] = x]
            BY <2>1, <3>1, <4>4, <5>1, <5>2
          <6>2. x.at = "joining"
            <7> HIDE DEF r
            <7> QED  BY <2>1, <5>1, ReviewsMove
          <6> HIDE DEF x
          <6> QED  BY <4>2, <5>1, <6>1, <6>2
        <5>3. CASE ~Narrates(r)
          <6>1. review' = Gone(review, {r})
            BY <3>1, <4>4, <5>3
          <6> QED  BY <4>1, <6>1
        <5> QED  BY <5>2, <5>3
      <4>5. CASE m.op \notin {"save review", "stored"}
        <5>1. review' = review \/ review' = Gone(review, Live(review))
          BY <3>1, <4>5
        <5> QED  BY <2>2, <4>1, <5>1
      <4> QED  BY <4>3, <4>4, <4>5
    <3> QED  BY <3>1, <3>2, <3>3
  <2> QED  BY <2>3, <2>4, <2>5
<1>5. ASSUME ~broken PROVE Unbroken'
  <2>1. ToWrite' /\ HeadRuns' /\ Target' = kept
    BY <1>1 DEF ToWrite, HeadRuns, Target
  <2> QED  BY <1>1, <1>4, <1>5, <2>1 DEF Unbroken
<1> QED  BY <1>1, <1>3, <1>5 DEF ReviewsInv

(* Every step, and the invariant always                                      *)
LEMMA ReviewsStep == ReviewsInv /\ [ReviewsNext]_reviewing => ReviewsInv'
<1> SUFFICES ASSUME ReviewsInv, [ReviewsNext]_reviewing PROVE ReviewsInv'
  OBVIOUS
<1>1. CASE Compute \/ WriteFile \/ WriteFails \/ MutationEnds
  BY <1>1, ComputeKeeps, WriteFileKeeps, WriteFailsKeeps, MutationEndsKeeps
<1>2. ASSUME NEW t \in Tours,
             \/ \E o \in Owners, with \in BOOLEAN : StartTour(t, o, with)
             \/ TourPrepared(t) \/ Generated(t) \/ TourFails(t) \/ CancelTour(t)
      PROVE  ReviewsInv'
  BY <1>2, StartTourKeeps, TourPreparedKeeps, GeneratedKeeps, TourFailsKeeps, CancelTourKeeps
<1>3. ASSUME NEW r \in CodeReviews,
             \/ \E o \in Owners : AddReview(r, o)
             \/ ReviewBegins(r) \/ Reviewed(r) \/ ReviewFails(r) \/ CancelReview(r) \/ RecoverOrphan(r)
      PROVE  ReviewsInv'
  BY <1>3, AddReviewKeeps, ReviewBeginsKeeps, ReviewedKeeps, ReviewGoneKeeps, RecoverOrphanKeeps
<1>4. CASE Dismiss \/ (\E b \in Branches : SwitchBranch(b) \/ DashboardReconciles(b)) \/ UNCHANGED reviewing
  BY <1>4, WorktreeKeeps
<1>5. CASE ServerStops
  BY <1>5, ServerStopsKeeps
<1> QED  BY <1>1, <1>2, <1>3, <1>4, <1>5 DEF ReviewsNext

LEMMA ReviewsHold == ReviewsAlone => []ReviewsInv
<1> QED  BY ReviewsStart, ReviewsStep, PTL DEF ReviewsAlone

(* The state of the reviews has its type.                                   *)
THEOREM ReviewsTypeCorrect == ReviewsAlone => []ReviewsTypeOK
<1>1. ReviewsInv => ReviewsTypeOK
  BY DEF ReviewsInv
<1> QED  BY <1>1, ReviewsHold, PTL

(* At rest the chain is empty, so that the files are the target and nothing   *)
(* stands for a drop that has yet to come.                                  *)
LEMMA AtRestLemma ==
  ASSUME ReviewsInv, AtRest
  PROVE  /\ TourFile(kept.tour, chain, version, wanted, tour) /\ ReviewFile(kept.review, wanted, review)
         /\ ~DropAfter(chain, 0, version)
<1>1. chain = <<>> /\ writing = Nil /\ Unbroken
  BY DEF AtRest, ReviewsInv, ReviewsTypeOK
<1>2. Target.tour = kept.tour /\ Target.review = kept.review
  BY <1>1 DEF Target
<1>3. ~DropAfter(chain, 0, version)
  BY <1>1 DEF DropAfter
<1>4. TourFile(Target.tour, chain, version, wanted, tour) /\ ReviewFile(Target.review, wanted, review)
  BY <1>1 DEF Unbroken
<1>5. TourFile(kept.tour, chain, version, wanted, tour)
  BY <1>2, <1>4 DEF TourFile
<1>6. ReviewFile(kept.review, wanted, review)
  BY <1>2, <1>4 DEF ReviewFile
<1> QED  BY <1>3, <1>5, <1>6

(* When every mutation is over and no write failed, the tour that is kept is  *)
(* the one begun last, and it is kept when it is ready.                     *)
THEOREM KeptTourIsLast == ReviewsAlone => []TourIsKept
<1>1. ReviewsInv => TourIsKept
  <2>1. SUFFICES ASSUME ReviewsInv, AtRest
                 PROVE  /\ kept.tour # Nil => kept.tour.by = wanted.tour
                        /\ \A t \in Tours : tour[t].at = "ready" /\ wanted.tour = t => kept.tour # Nil
    BY DEF TourIsKept
  <2>2. TourFile(kept.tour, chain, version, wanted, tour) /\ ~DropAfter(chain, 0, version)
    BY <2>1, AtRestLemma
  <2> QED  BY <2>2 DEF TourFile
<1> QED  BY <1>1, ReviewsHold, PTL

(* When every mutation is over and no write failed, a Code review that is     *)
(* ready or recovered is kept if it was begun last, and none is kept when   *)
(* nothing may be.                                                          *)
THEOREM KeptReviewIsLast == ReviewsAlone => []ReviewIsKept
<1>1. ReviewsInv => ReviewIsKept
  <2>1. SUFFICES ASSUME ReviewsInv, AtRest
                 PROVE  /\ wanted.review = {} => kept.review = Nil
                        /\ \A r \in CodeReviews :
                             review[r].at \in {"ready", "recovered"} /\ wanted.review = {r} =>
                               kept.review # Nil /\ kept.review.by = r
    BY DEF ReviewIsKept
  <2>2. ReviewFile(kept.review, wanted, review)
    BY <2>1, AtRestLemma
  <2> QED  BY <2>2 DEF ReviewFile
<1> QED  BY <1>1, ReviewsHold, PTL
-----------------------------------------------------------------------------
(*                                Schedules                                 *)

(* Why.  As long as no deletion was undone, what was launched lies behind the *)
(* last change of the schedule, the start of the server or what it has tried *)
(* last.  As long as no record was lost, it is on record: behind the last    *)
(* change or run of the schedule, be that stored or waiting to be restored,  *)
(* or about to be written.  Either bounds what is due next; what is being    *)
(* tried was not launched before.                                           *)
Behind(i) ==
  ~schedule.present \/ i <= schedule.updatedAt \/ i <= bootAt \/ i <= dispatched
Stored == IF deletion = NoRun THEN schedule ELSE deletion
LastOf(s) == IF s.lastRun = NoRun THEN s.updatedAt ELSE Later(s.updatedAt, s.lastRun.at)
Pending(i) == tick.at = "record" /\ tick.record.at = i
OnRecord(i) == i <= bootAt \/ Pending(i) \/ (Stored.present => i <= LastOf(Stored))
OnceHolds == counts.lost = 0 \/ counts.undone = 0

CountsOK == counts \in [edits : Nat, now : Nat, boots : Nat, lost : Nat, undone : Nat]
DeletionOK ==
  deletion # NoRun =>
    /\ ~schedule.present /\ schedule.lastRun = NoRun /\ deletion.present
    /\ tick.at \notin {"launch", "record", "now"}
TickOK ==
  /\ tick.at \in {"dispatch", "launch"} =>
       /\ tick.due = dispatched /\ dispatched \in CronInstants
       /\ Stored.lastRun # NoRun => Stored.lastRun.at <= tick.due
  /\ tick.at \in {"record", "now"} =>
       /\ tick.record \in Runs /\ tick.record.at <= minute
       /\ schedule.lastRun # NoRun => schedule.lastRun.at <= tick.record.at
RunOK == Stored.lastRun # NoRun => Stored.lastRun.at <= minute
LaunchesOK ==
  /\ launches \in [CronInstants -> Nat]
  /\ \A i \in CronInstants : launches[i] > 0 =>
       i <= minute /\ (counts.undone = 0 => Behind(i)) /\ (counts.lost = 0 => OnRecord(i))
  /\ OnceHolds => \A i \in CronInstants : launches[i] <= 1
  /\ OnceHolds /\ tick.at \in {"dispatch", "launch"} => launches[dispatched] = 0
OnceInv ==
  /\ SchedulesTypeOK /\ CountsOK /\ DeletionOK /\ TickOK /\ RunOK /\ LaunchesOK
  /\ dispatched \in CronInstants \union {0} /\ dispatched <= minute
-----------------------------------------------------------------------------
(* A set of instants that is not empty has a latest one.                    *)
LEMMA LatestExists ==
  ASSUME NEW S \in SUBSET Instants, S # {}
  PROVE  \E m \in S : \A j \in S : j <= m
<1> DEFINE Back == {MaxMinute - j : j \in S}
           Less == OpToRel(<, Nat)
<1>1. Back \subseteq Nat /\ Back # {}
  <2>1. \A j \in S : MaxMinute - j \in Nat
    BY SchedulesAssumption DEF Instants
  <2>2. PICK j \in S : TRUE
    OBVIOUS
  <2>3. MaxMinute - j \in Back
    OBVIOUS
  <2> QED  BY <2>1, <2>3
<1>2. PICK b \in Back : \A c \in Back : ~ (<<c, b>> \in Less)
  <2> HIDE DEF Back, Less
  <2>1. IsWellFoundedOn(Less, Nat)
    BY NatLessThanWellFounded DEF Less
  <2> QED  BY <1>1, <2>1, WFMin
<1>3. \A c \in Back : b <= c
  <2> SUFFICES ASSUME NEW c \in Back PROVE b <= c
    OBVIOUS
  <2>1. b \in Nat /\ c \in Nat /\ ~ (<<c, b>> \in Less)
    BY <1>1, <1>2
  <2>2. ~ (c < b)
    BY <2>1 DEF OpToRel
  <2> HIDE DEF Back, Less
  <2> QED  BY <2>1, <2>2
<1>4. PICK m \in S : b = MaxMinute - m
  OBVIOUS
<1>5. ASSUME NEW j \in S PROVE j <= m
  <2>1. MaxMinute - j \in Back
    OBVIOUS
  <2>2. MaxMinute - m <= MaxMinute - j
    BY <1>3, <1>4, <2>1
  <2> QED  BY <2>2, SchedulesAssumption DEF Instants
<1> QED  BY <1>5

LEMMA InstantsLemma == \A i \in CronInstants : i \in Instants
BY SchedulesAssumption DEF Instants

(* The types of what the proofs compare.                                    *)
LEMMA ScheduleNumbers ==
  ASSUME OnceInv
  PROVE  /\ minute \in Nat /\ minute \in Instants /\ bootAt \in Nat /\ dispatched \in Nat
         /\ schedule \in NoteSchedules /\ schedule.updatedAt \in Nat /\ schedule.updatedAt \in Instants
         /\ schedule.lastRun # NoRun => schedule.lastRun \in Runs /\ schedule.lastRun.at \in Nat
         /\ deletion # NoRun => deletion \in NoteSchedules
         /\ Stored \in NoteSchedules /\ Stored.updatedAt \in Nat
         /\ Stored.lastRun # NoRun => Stored.lastRun \in Runs /\ Stored.lastRun.at \in Nat
<1> USE SchedulesAssumption
<1>1. minute \in Instants /\ bootAt \in Instants /\ dispatched \in Instants
  BY DEF OnceInv, SchedulesTypeOK
<1>2. schedule \in NoteSchedules /\ (deletion # NoRun => deletion \in NoteSchedules)
  BY DEF OnceInv, SchedulesTypeOK
<1>3. Stored \in NoteSchedules
  BY <1>2 DEF Stored
<1>4. ASSUME NEW s \in NoteSchedules
      PROVE  /\ s.updatedAt \in Instants /\ s.updatedAt \in Nat
             /\ s.lastRun # NoRun => s.lastRun \in Runs /\ s.lastRun.at \in Nat
  BY DEF NoteSchedules, Runs, Instants
<1> HIDE DEF Instants
<1>5. \A i \in Instants : i \in Nat
  BY DEF Instants
<1> QED  BY <1>1, <1>2, <1>3, <1>4, <1>5

(* What a tick dispatches lies ahead of everything launched so far.         *)
LEMMA DueLemma ==
  ASSUME OnceInv, schedule.present, tick.at # "record", Due # {}, Fresh(DueInstant)
  PROVE  /\ DueInstant \in CronInstants /\ DueInstant \in Instants /\ DueInstant <= minute
         /\ dispatched < DueInstant
         /\ schedule.lastRun # NoRun => schedule.lastRun.at <= DueInstant
         /\ OnceHolds => launches[DueInstant] = 0
<1> USE SchedulesAssumption
<1>1. deletion = NoRun /\ Stored = schedule
  BY DEF OnceInv, DeletionOK, Stored
<1>2. /\ Anchor \in Nat /\ schedule.updatedAt <= Anchor /\ bootAt <= Anchor
      /\ schedule.lastRun # NoRun => schedule.lastRun.at <= Anchor
      /\ LastOf(schedule) <= Anchor
  BY ScheduleNumbers DEF Anchor, Later, LastOf
<1>3. Due \in SUBSET Instants
  <2>1. \A i \in Due : i \in CronInstants
    BY DEF Due
  <2> QED  BY <2>1, InstantsLemma
<1>4. DueInstant \in Due /\ \A j \in Due : j <= DueInstant
  <2>1. \E i \in Due : \A j \in Due : j <= i
    BY <1>3, LatestExists
  <2> QED  BY <2>1 DEF DueInstant
<1>5. /\ DueInstant \in CronInstants /\ DueInstant \in Instants
      /\ Anchor < DueInstant /\ DueInstant <= minute
  BY <1>3, <1>4 DEF Due
<1>6. dispatched < DueInstant
  <2>1. DueInstant # dispatched
    BY DEF Fresh
  <2>2. CASE dispatched > DueInstant
    <3>1. dispatched \in CronInstants /\ dispatched <= minute
      BY ScheduleNumbers, <1>5, <2>2 DEF OnceInv, Instants
    <3>2. dispatched \in Due
      BY ScheduleNumbers, <1>2, <1>5, <2>2, <3>1 DEF Due, Instants
    <3> QED  BY ScheduleNumbers, <1>4, <1>5, <2>2, <3>2 DEF Instants
  <2> QED  BY ScheduleNumbers, <1>5, <2>1, <2>2 DEF Instants
<1>7. ASSUME OnceHolds, launches[DueInstant] > 0 PROVE FALSE
  <2>1. /\ counts.undone = 0 => Behind(DueInstant)
        /\ counts.lost = 0 => OnRecord(DueInstant)
    BY <1>5, <1>7 DEF OnceInv, LaunchesOK
  <2>2. CASE counts.undone = 0
    BY ScheduleNumbers, <1>2, <1>5, <1>6, <2>1, <2>2 DEF Behind, Instants
  <2>3. CASE counts.lost = 0
    <3>1. DueInstant <= bootAt \/ DueInstant <= LastOf(schedule)
      BY <1>1, <2>1, <2>3 DEF OnRecord, Pending
    <3>2. LastOf(schedule) \in Nat
      BY ScheduleNumbers DEF LastOf, Later
    <3> QED  BY ScheduleNumbers, <1>2, <1>5, <3>1, <3>2 DEF Instants
  <2> QED  BY <1>7, <2>2, <2>3 DEF OnceHolds
<1>8. OnceHolds => launches[DueInstant] = 0
  <2>1. launches[DueInstant] \in Nat
    BY <1>5 DEF OnceInv, LaunchesOK
  <2> QED  BY <1>7, <2>1
<1> QED  BY ScheduleNumbers, <1>2, <1>5, <1>6, <1>8 DEF Instants

(* What a step that launches nothing has to keep.                           *)
LEMMA NothingLaunched ==
  ASSUME OnceInv, UNCHANGED launches, minute <= minute', minute' \in Nat,
         counts'.undone = 0 => counts.undone = 0, counts'.lost = 0 => counts.lost = 0,
         \A i \in CronInstants : i <= minute /\ Behind(i) /\ counts'.undone = 0 => Behind(i)',
         \A i \in CronInstants : i <= minute /\ OnRecord(i) /\ counts'.lost = 0 => OnRecord(i)',
         OnceHolds /\ tick'.at \in {"dispatch", "launch"} => launches[dispatched'] = 0
  PROVE  LaunchesOK'
<1>1. launches' \in [CronInstants -> Nat]
  BY DEF OnceInv, LaunchesOK
<1>2. OnceHolds' => OnceHolds
  BY DEF OnceHolds
<1>3. ASSUME NEW i \in CronInstants, launches[i] > 0
      PROVE  i <= minute' /\ (counts'.undone = 0 => Behind(i)') /\ (counts'.lost = 0 => OnRecord(i)')
  <2>1. i <= minute /\ i \in Nat
    BY <1>3, SchedulesAssumption DEF OnceInv, LaunchesOK
  <2>2. (counts.undone = 0 => Behind(i)) /\ (counts.lost = 0 => OnRecord(i))
    BY <1>3 DEF OnceInv, LaunchesOK
  <2> QED  BY <2>1, <2>2, ScheduleNumbers
<1> QED  BY <1>1, <1>2, <1>3 DEF OnceInv, LaunchesOK

LEMMA OnceInit == SchedulesInit => OnceInv
<1> SUFFICES ASSUME SchedulesInit PROVE OnceInv
  OBVIOUS
<1> USE SchedulesAssumption DEF SchedulesInit, NoTick, Instants
<1>1. SchedulesTypeOK
  BY DEF SchedulesTypeOK, NoteSchedules, Runs
<1>2. CountsOK /\ DeletionOK /\ TickOK /\ RunOK
  BY DEF CountsOK, DeletionOK, TickOK, RunOK, Stored
<1>3. LaunchesOK
  BY DEF LaunchesOK
<1> QED  BY <1>1, <1>2, <1>3 DEF OnceInv

Ticks == [at : {"idle", "dispatch", "launch", "record", "reconcile", "now"},
          due : Instants, record : Runs \union {NoRun}]

(* The clock, the panes and the tick until it claims a run.                  *)
LEMMA ClockStep ==
  ASSUME OnceInv, MinutePasses \/ PaneFinishes \/ DispatchRun
  PROVE  OnceInv'
<1> USE SchedulesAssumption
<1>1. /\ UNCHANGED <<schedule, deletion, bootAt, dispatched, launches, counts>>
      /\ minute' \in Instants /\ minute' \in Nat /\ minute <= minute'
      /\ tick' \in {tick, [tick EXCEPT !.at = "launch"], NoTick}
      /\ tick' = tick \/ (tick.at = "dispatch" /\ (tick'.at = "launch" => schedule.present))
      /\ runPane' \in [CronInstants -> {"none", "working", "finished", "closed"}]
  <2>1. tick \in Ticks
    BY DEF OnceInv, SchedulesTypeOK, Ticks
  <2>2. CASE MinutePasses
    BY <2>2, ScheduleNumbers DEF MinutePasses, OnceInv, SchedulesTypeOK, Instants
  <2>3. CASE PaneFinishes
    BY <2>3, ScheduleNumbers DEF PaneFinishes, OnceInv, SchedulesTypeOK
  <2>4. CASE DispatchRun
    BY <2>1, <2>4, ScheduleNumbers DEF DispatchRun, NoTick, OnceInv, SchedulesTypeOK
  <2> QED  BY <2>2, <2>3, <2>4
<1>2. Stored' = Stored
  BY <1>1 DEF Stored
<1>3. /\ tick' \in Ticks
      /\ tick' = tick \/ (tick'.at \in {"idle", "launch"} /\ tick.at = "dispatch")
      /\ (tick'.at = "launch" => tick'.due = tick.due)
  <2>1. tick \in Ticks /\ 0 \in Instants
    BY DEF OnceInv, SchedulesTypeOK, Ticks, Instants
  <2> QED  BY <1>1, <2>1 DEF Ticks, NoTick
<1>4. SchedulesTypeOK' /\ CountsOK'
  BY <1>1, <1>3 DEF OnceInv, SchedulesTypeOK, CountsOK, Ticks
<1>5. DeletionOK' /\ RunOK'
  BY <1>1, <1>2, <1>3, ScheduleNumbers DEF OnceInv, DeletionOK, RunOK
<1>6. TickOK'
  BY <1>1, <1>2, <1>3, ScheduleNumbers DEF OnceInv, TickOK, Runs, Instants
<1>7. LaunchesOK'
  <2>1. \A i \in CronInstants : Pending(i) => Pending(i)'
    BY <1>3 DEF Pending
  <2>2. \A i \in CronInstants : OnRecord(i) => OnRecord(i)'
    BY <1>1, <1>2, <2>1 DEF OnRecord, LastOf, Later
  <2>3. \A i \in CronInstants : Behind(i) => Behind(i)'
    BY <1>1 DEF Behind
  <2>4. OnceHolds /\ tick'.at \in {"dispatch", "launch"} => launches[dispatched'] = 0
    BY <1>1, <1>3 DEF OnceInv, LaunchesOK
  <2> QED  BY <1>1, <2>2, <2>3, <2>4, NothingLaunched
<1> QED  BY <1>1, <1>4, <1>5, <1>6, <1>7, ScheduleNumbers DEF OnceInv

(* A tick that looks at the note, or meets a run by hand.                    *)
LEMMA TickStep ==
  ASSUME OnceInv, Tick \/ TickMeetsRun
  PROVE  OnceInv'
<1> USE SchedulesAssumption
<1>1. /\ UNCHANGED <<minute, schedule, deletion, bootAt, runPane, launches, counts>>
      /\ schedule.present /\ tick.at \in {"idle", "now"}
      /\ \/ /\ UNCHANGED dispatched /\ tick.at = "idle"
            /\ tick' = [NoTick EXCEPT !.at = "reconcile"]
         \/ /\ Due # {} /\ Fresh(DueInstant) /\ dispatched' = DueInstant
            /\ \/ UNCHANGED tick /\ tick.at = "now"
               \/ tick' = [NoTick EXCEPT !.at = "dispatch", !.due = DueInstant]
  BY DEF Tick, TickMeetsRun
<1>2. Stored' = Stored /\ deletion = NoRun /\ Stored = schedule
  BY <1>1 DEF Stored, OnceInv, DeletionOK
<1>3. /\ dispatched' \in CronInstants \union {0} /\ dispatched' \in Instants
      /\ dispatched' <= minute /\ dispatched <= dispatched'
      /\ dispatched' # dispatched =>
           /\ dispatched' \in CronInstants
           /\ schedule.lastRun # NoRun => schedule.lastRun.at <= dispatched'
           /\ OnceHolds => launches[dispatched'] = 0
  <2>1. CASE UNCHANGED dispatched
    BY <2>1, ScheduleNumbers DEF OnceInv, SchedulesTypeOK
  <2>2. CASE Due # {} /\ Fresh(DueInstant) /\ dispatched' = DueInstant
    BY <1>1, <2>2, DueLemma, ScheduleNumbers DEF Instants
  <2> QED  BY <1>1, <2>1, <2>2
<1>4. /\ tick' \in Ticks /\ tick'.at \notin {"record", "launch"}
      /\ tick'.at = "dispatch" => tick'.due = dispatched' /\ dispatched' # dispatched
      /\ tick'.at = "now" => tick' = tick
  <2>1. 0 \in Instants /\ tick \in Ticks
    BY DEF OnceInv, SchedulesTypeOK, Ticks, Instants
  <2>2. CASE tick' = [NoTick EXCEPT !.at = "reconcile"]
    BY <2>1, <2>2 DEF Ticks, NoTick
  <2>3. CASE UNCHANGED tick /\ tick.at = "now"
    BY <2>1, <2>3
  <2>4. CASE /\ Fresh(DueInstant) /\ dispatched' = DueInstant
             /\ tick' = [NoTick EXCEPT !.at = "dispatch", !.due = DueInstant]
    <3>1. /\ tick'.at = "dispatch" /\ tick'.due = dispatched' /\ dispatched' # dispatched
          /\ tick' = [at |-> "dispatch", due |-> dispatched', record |-> NoRun]
      BY <2>4 DEF NoTick, Fresh
    <3> QED  BY <1>3, <3>1 DEF Ticks
  <2> QED  BY <1>1, <2>2, <2>3, <2>4
<1>5. SchedulesTypeOK' /\ CountsOK'
  BY <1>1, <1>3, <1>4 DEF OnceInv, SchedulesTypeOK, CountsOK, Ticks
<1>6. DeletionOK' /\ RunOK'
  BY <1>1, <1>2, <1>4 DEF OnceInv, DeletionOK, RunOK
<1>7. TickOK'
  BY <1>1, <1>2, <1>3, <1>4 DEF OnceInv, TickOK
<1>8. LaunchesOK'
  <2>1. \A i \in CronInstants : OnRecord(i) => OnRecord(i)'
    BY <1>1, <1>2 DEF OnRecord, Pending, LastOf, Later
  <2>2. \A i \in CronInstants : Behind(i) => Behind(i)'
    BY <1>1, <1>3, ScheduleNumbers DEF Behind, Instants
  <2>3. OnceHolds /\ tick'.at \in {"dispatch", "launch"} => launches[dispatched'] = 0
    BY <1>3, <1>4
  <2> QED  BY <1>1, <2>1, <2>2, <2>3, ScheduleNumbers, NothingLaunched
<1> QED  BY <1>1, <1>3, <1>5, <1>6, <1>7, <1>8 DEF OnceInv

(* A run is launched, or could not be.                                      *)
LEMMA LaunchStep ==
  ASSUME OnceInv, LaunchRun
  PROVE  OnceInv'
<1> USE SchedulesAssumption
<1>1. /\ UNCHANGED <<minute, schedule, deletion, bootAt, dispatched, counts>>
      /\ tick.at = "launch" /\ tick.due = dispatched /\ dispatched \in CronInstants
      /\ dispatched \in Instants /\ dispatched <= minute /\ deletion = NoRun
      /\ schedule.lastRun # NoRun => schedule.lastRun.at <= dispatched
      /\ tick \in Ticks
  BY InstantsLemma DEF LaunchRun, OnceInv, TickOK, DeletionOK, Stored, SchedulesTypeOK, Ticks
<1>2. tick' = Recording(dispatched, "running") \/ tick' = Recording(dispatched, "over")
  BY <1>1 DEF LaunchRun
<1>3. /\ runPane' = runPane \/ runPane' = [runPane EXCEPT ![dispatched] = "working"]
      /\ launches' = launches \/ launches' = [launches EXCEPT ![dispatched] = @ + 1]
  BY <1>1 DEF LaunchRun
<1>4. /\ tick' \in Ticks /\ tick'.at = "record" /\ tick'.record \in Runs
      /\ tick'.record.at = dispatched
  <2>1. /\ [at |-> dispatched, status |-> "running"] \in Runs
        /\ [at |-> dispatched, status |-> "over"] \in Runs
    BY <1>1 DEF Runs
  <2>2. PICK r \in Runs :
          r.at = dispatched /\ tick' = [tick EXCEPT !.at = "record", !.record = r]
    BY <1>2, <2>1 DEF Recording
  <2> QED  BY <1>1, <2>2 DEF Ticks
<1>5. Stored' = Stored /\ Stored = schedule
  BY <1>1 DEF Stored
<1>6. SchedulesTypeOK' /\ CountsOK'
  <2>1. runPane' \in [CronInstants -> {"none", "working", "finished", "closed"}]
    BY <1>3 DEF OnceInv, SchedulesTypeOK
  <2> QED  BY <1>1, <1>4, <2>1 DEF OnceInv, SchedulesTypeOK, CountsOK, Ticks
<1>7. DeletionOK' /\ RunOK' /\ TickOK'
  BY <1>1, <1>4, <1>5 DEF OnceInv, DeletionOK, RunOK, TickOK
<1>8. LaunchesOK'
  <2>1. launches' \in [CronInstants -> Nat]
    BY <1>3 DEF OnceInv, LaunchesOK
  <2>2. ASSUME NEW i \in CronInstants, launches'[i] > 0
        PROVE  i <= minute /\ (counts.undone = 0 => Behind(i)') /\ (counts.lost = 0 => OnRecord(i)')
    <3>1. CASE i = dispatched
      BY <1>1, <1>4, <3>1, ScheduleNumbers DEF Behind, OnRecord, Pending
    <3>2. CASE i # dispatched
      <4>1. launches[i] > 0
        BY <1>3, <2>2, <3>2 DEF OnceInv, LaunchesOK
      <4>2. i <= minute /\ (counts.undone = 0 => Behind(i)) /\ (counts.lost = 0 => OnRecord(i))
        BY <4>1 DEF OnceInv, LaunchesOK
      <4> QED  BY <1>1, <1>5, <4>2 DEF Behind, OnRecord, Pending, LastOf, Later
    <3> QED  BY <3>1, <3>2
  <2>3. OnceHolds => launches[dispatched] = 0 /\ \A i \in CronInstants : launches[i] <= 1
    BY <1>1 DEF OnceInv, LaunchesOK
  <2>4. OnceHolds' => \A i \in CronInstants : launches'[i] <= 1
    BY <1>1, <1>3, <2>3 DEF OnceHolds, OnceInv, LaunchesOK
  <2> QED  BY <1>1, <1>4, <2>1, <2>2, <2>4 DEF LaunchesOK
<1> QED  BY <1>1, <1>6, <1>7, <1>8 DEF OnceInv

(* The record of a run is written, or lost.                                  *)
LEMMA RecordStep ==
  ASSUME OnceInv, RecordRun \/ RecordIsLost
  PROVE  OnceInv'
<1> USE SchedulesAssumption
<1>1. /\ UNCHANGED <<minute, deletion, bootAt, dispatched, runPane, launches>>
      /\ tick.at \in {"record", "now"} /\ tick' = NoTick /\ deletion = NoRun
      /\ tick.record \in Runs /\ tick.record.at <= minute
      /\ schedule.lastRun # NoRun => schedule.lastRun.at <= tick.record.at
  BY DEF RecordRun, RecordIsLost, OnceInv, TickOK, DeletionOK
<1>2. /\ counts' \in [edits : Nat, now : Nat, boots : Nat, lost : Nat, undone : Nat]
      /\ counts'.undone = counts.undone
      /\ \/ /\ UNCHANGED counts /\ schedule.present
            /\ schedule' = [schedule EXCEPT !.lastRun = tick.record]
         \/ UNCHANGED <<schedule, counts>> /\ ~schedule.present
         \/ UNCHANGED schedule /\ counts'.lost # 0
  BY DEF RecordRun, RecordIsLost, Count, OnceInv, CountsOK
<1>3. /\ schedule' \in NoteSchedules /\ schedule'.present = schedule.present
      /\ schedule'.updatedAt = schedule.updatedAt
      /\ schedule'.lastRun = schedule.lastRun \/ schedule'.lastRun = tick.record
  BY <1>1, <1>2, ScheduleNumbers DEF NoteSchedules
<1>4. Stored = schedule /\ Stored' = schedule'
  BY <1>1 DEF Stored
<1>5. SchedulesTypeOK' /\ CountsOK'
  BY <1>1, <1>2, <1>3 DEF OnceInv, SchedulesTypeOK, CountsOK, NoTick, Instants
<1>6. DeletionOK' /\ TickOK'
  BY <1>1 DEF DeletionOK, TickOK, NoTick
<1>7. RunOK'
  BY <1>1, <1>3, <1>4 DEF OnceInv, RunOK
<1>8. LaunchesOK'
  <2>1. \A i \in CronInstants : Behind(i) => Behind(i)'
    BY <1>1, <1>3 DEF Behind
  <2>2. ASSUME NEW i \in CronInstants, OnRecord(i), counts'.lost = 0 PROVE OnRecord(i)'
    <3>1. CASE ~schedule.present
      BY <1>3, <1>4, <3>1 DEF OnRecord
    <3>2. CASE schedule.present /\ i <= bootAt
      BY <1>1, <3>2 DEF OnRecord
    <3>3. CASE schedule.present /\ ~(i <= bootAt)
      <4>1. i = tick.record.at \/ i <= LastOf(schedule)
        BY <1>4, <2>2, <3>3 DEF OnRecord, Pending
      <4>2. tick.record.at \in Nat /\ tick.record # NoRun
        BY <1>1, NoRunAssumption DEF Runs, Instants
      <4>3. schedule'.lastRun = tick.record
        BY <1>2, <2>2, <3>3, ScheduleNumbers DEF NoteSchedules
      <4>4. i <= LastOf(schedule')
        BY <1>1, <1>3, <4>1, <4>2, <4>3, ScheduleNumbers DEF LastOf, Later, Instants, Runs
      <4> QED  BY <1>4, <4>4 DEF OnRecord
    <3> QED  BY <3>1, <3>2, <3>3
  <2>3. counts'.lost = 0 => counts.lost = 0
    BY <1>2
  <2>4. tick'.at \notin {"dispatch", "launch"}
    BY <1>1 DEF NoTick
  <2> QED  BY <1>1, <1>2, <2>1, <2>2, <2>3, <2>4, ScheduleNumbers, NothingLaunched
<1> QED  BY <1>1, <1>5, <1>6, <1>7, <1>8 DEF OnceInv

(* A run in flight is looked at, or a run by hand takes the flight.          *)
LEMMA ReconcileStep ==
  ASSUME OnceInv, Reconcile \/ RunNow
  PROVE  OnceInv'
<1> USE SchedulesAssumption
<1>1. /\ UNCHANGED <<minute, schedule, deletion, bootAt, dispatched, launches>>
      /\ tick.at \in {"idle", "dispatch", "reconcile"} /\ tick \in Ticks
      /\ runPane' \in [CronInstants -> {"none", "working", "finished", "closed"}]
  BY DEF Reconcile, RunNow, OnceInv, SchedulesTypeOK, Ticks
<1>2. /\ counts' \in [edits : Nat, now : Nat, boots : Nat, lost : Nat, undone : Nat]
      /\ counts'.undone = counts.undone /\ counts'.lost = counts.lost
  BY DEF Reconcile, RunNow, Count, OnceInv, CountsOK
<1>3. /\ tick' \in Ticks /\ tick'.at \in {"idle", "record", "now"}
      /\ tick'.at # "idle" =>
           /\ schedule.present /\ tick'.record \in Runs /\ tick'.record.at <= minute
           /\ schedule.lastRun # NoRun => schedule.lastRun.at <= tick'.record.at
  <2>1. minute <= minute /\ Stored \in NoteSchedules /\ RunOK
    BY ScheduleNumbers DEF OnceInv
  <2>2. schedule.present => Stored = schedule
    BY DEF Stored, OnceInv, DeletionOK
  <2>3. CASE Reconcile
    <3>1. CASE tick' = NoTick
      BY <3>1 DEF NoTick, Ticks, Instants
    <3>2. CASE tick' # NoTick
      <4>1. /\ schedule.present /\ RunInFlight
            /\ \/ tick' = Recording(schedule.lastRun.at, "running")
               \/ tick' = Recording(schedule.lastRun.at, "over")
        BY <2>3, <3>2 DEF Reconcile
      <4>2. schedule.lastRun \in Runs /\ schedule.lastRun.at \in Instants /\ schedule.lastRun.at \in Nat
        BY <4>1, ScheduleNumbers DEF RunInFlight, Runs
      <4>3. PICK r \in Runs : /\ r.at = schedule.lastRun.at
                              /\ tick' = [tick EXCEPT !.at = "record", !.record = r]
        <5>1. /\ [at |-> schedule.lastRun.at, status |-> "running"] \in Runs
              /\ [at |-> schedule.lastRun.at, status |-> "over"] \in Runs
          BY <4>2 DEF Runs
        <5> QED  BY <4>1, <5>1 DEF Recording
      <4>4. tick' \in Ticks /\ tick'.at = "record" /\ tick'.record = r
        BY <1>1, <4>3 DEF Ticks
      <4> QED  BY <2>1, <2>2, <4>1, <4>2, <4>3, <4>4 DEF RunOK, RunInFlight
    <3> QED  BY <3>1, <3>2
  <2>4. CASE RunNow
    <3>1. [at |-> minute, status |-> "over"] \in Runs
      BY ScheduleNumbers DEF Runs
    <3>2. PICK r \in Runs : r.at = minute /\ tick' = [NoTick EXCEPT !.at = "now", !.record = r]
      BY <2>4, <3>1 DEF RunNow
    <3>3. 0 \in Instants
      BY DEF Instants
    <3>4. schedule.present
      BY <2>4 DEF RunNow
    <3>5. tick' \in Ticks /\ tick'.at = "now" /\ tick'.record = r
      BY <3>2, <3>3 DEF Ticks, NoTick
    <3> QED  BY <2>1, <2>2, <3>2, <3>4, <3>5, ScheduleNumbers DEF RunOK
  <2> QED  BY <2>3, <2>4
<1>4. Stored' = Stored
  BY <1>1 DEF Stored
<1>5. SchedulesTypeOK' /\ CountsOK'
  BY <1>1, <1>2, <1>3 DEF OnceInv, SchedulesTypeOK, CountsOK, Ticks
<1>6. DeletionOK' /\ TickOK' /\ RunOK'
  BY <1>1, <1>3, <1>4 DEF OnceInv, DeletionOK, TickOK, RunOK
<1>7. LaunchesOK'
  <2>1. \A i \in CronInstants : Behind(i) => Behind(i)'
    BY <1>1 DEF Behind
  <2>2. \A i \in CronInstants : OnRecord(i) => OnRecord(i)'
    BY <1>1, <1>4 DEF OnRecord, Pending, LastOf, Later
  <2> QED  BY <1>1, <1>2, <1>3, <2>1, <2>2, ScheduleNumbers, NothingLaunched
<1> QED  BY <1>1, <1>5, <1>6, <1>7 DEF OnceInv

(* An edit covers everything launched: its time is now.                     *)
LEMMA EditStep ==
  ASSUME OnceInv, RemoveSchedule \/ \E enabled \in BOOLEAN : SetSchedule(enabled)
  PROVE  OnceInv'
<1> USE SchedulesAssumption
<1>1. /\ UNCHANGED <<minute, deletion, bootAt, dispatched, tick, runPane, launches>>
      /\ deletion = NoRun /\ schedule' \in NoteSchedules
      /\ schedule'.lastRun = NoRun /\ (~schedule'.present \/ schedule'.updatedAt = minute)
  <2>1. CASE RemoveSchedule
    <3>1. /\ UNCHANGED <<minute, deletion, bootAt, dispatched, tick, runPane, launches>>
          /\ schedule' = [schedule EXCEPT !.present = FALSE, !.lastRun = NoRun]
          /\ deletion = NoRun /\ schedule \in NoteSchedules
      BY <2>1, ScheduleNumbers DEF RemoveSchedule, OnceInv, DeletionOK
    <3>2. /\ schedule' \in NoteSchedules
          /\ schedule'.lastRun = NoRun /\ ~schedule'.present
      BY <3>1 DEF NoteSchedules
    <3> QED  BY <3>1, <3>2
  <2>2. ASSUME NEW enabled \in BOOLEAN, SetSchedule(enabled)
        PROVE  /\ UNCHANGED <<minute, deletion, bootAt, dispatched, tick, runPane, launches>>
               /\ deletion = NoRun /\ schedule' \in NoteSchedules
               /\ schedule'.lastRun = NoRun /\ schedule'.updatedAt = minute
    BY <2>2, ScheduleNumbers DEF SetSchedule, NoteSchedules
  <2> QED  BY <2>1, <2>2
<1>2. /\ counts' \in [edits : Nat, now : Nat, boots : Nat, lost : Nat, undone : Nat]
      /\ counts'.undone = counts.undone /\ counts'.lost = counts.lost
  BY DEF RemoveSchedule, SetSchedule, Count, OnceInv, CountsOK
<1>3. Stored' = schedule'
  BY <1>1 DEF Stored
<1>4. SchedulesTypeOK' /\ CountsOK'
  BY <1>1, <1>2 DEF OnceInv, SchedulesTypeOK, CountsOK
<1>5. DeletionOK' /\ TickOK' /\ RunOK'
  BY <1>1, <1>3 DEF OnceInv, DeletionOK, TickOK, RunOK
<1>6. LaunchesOK'
  <2>1. \A i \in CronInstants : i <= minute => Behind(i)'
    BY <1>1 DEF Behind
  <2>2. \A i \in CronInstants : i <= minute => OnRecord(i)'
    BY <1>1, <1>3 DEF OnRecord, LastOf
  <2>3. OnceHolds /\ tick'.at \in {"dispatch", "launch"} => launches[dispatched'] = 0
    BY <1>1 DEF OnceInv, LaunchesOK
  <2> QED  BY <1>1, <1>2, <2>1, <2>2, <2>3, ScheduleNumbers, NothingLaunched
<1> QED  BY <1>1, <1>4, <1>5, <1>6 DEF OnceInv

(* A note is deleted, restored, gone for good; a tick forgets; a restart.    *)
LEMMA DeletionStep ==
  ASSUME OnceInv, DeleteNote \/ UndoDeletion \/ DeletionIsFinal
  PROVE  OnceInv'
<1> USE SchedulesAssumption
<1>1. /\ UNCHANGED <<minute, bootAt, dispatched, tick, runPane, launches>>
      /\ tick.at \notin {"launch", "record", "now"}
      /\ schedule' \in NoteSchedules /\ deletion' \in NoteSchedules \union {NoRun}
      /\ deletion' # NoRun => ~schedule'.present /\ schedule'.lastRun = NoRun /\ deletion'.present
      /\ Stored' = Stored \/ (~Stored'.present /\ Stored'.lastRun = NoRun)
      /\ counts'.undone # 0 \/ (UNCHANGED counts /\ ~schedule'.present)
      /\ counts' \in [edits : Nat, now : Nat, boots : Nat, lost : Nat, undone : Nat]
      /\ counts'.lost = counts.lost /\ (counts'.undone = 0 => counts.undone = 0)
  <2>1. counts \in [edits : Nat, now : Nat, boots : Nat, lost : Nat, undone : Nat]
    BY DEF OnceInv, CountsOK
  <2>2. CASE DeleteNote
    <3>1. /\ UNCHANGED <<minute, bootAt, dispatched, tick, runPane, launches, counts>>
          /\ tick.at \in {"idle", "dispatch", "reconcile"} /\ schedule.present
          /\ deletion = NoRun /\ deletion' = schedule /\ schedule \in NoteSchedules
          /\ schedule' = [schedule EXCEPT !.present = FALSE, !.lastRun = NoRun]
      BY <2>2, ScheduleNumbers DEF DeleteNote
    <3>2. /\ schedule' \in NoteSchedules /\ ~schedule'.present /\ schedule'.lastRun = NoRun
      BY <3>1 DEF NoteSchedules
    <3>3. Stored = schedule /\ Stored' = IF schedule = NoRun THEN schedule' ELSE schedule
      BY <3>1 DEF Stored
    <3> QED  BY <2>1, <3>1, <3>2, <3>3
  <2>3. CASE UndoDeletion
    <3>1. /\ UNCHANGED <<minute, bootAt, dispatched, tick, runPane, launches>>
          /\ tick.at \notin {"launch", "record", "now"}
          /\ deletion # NoRun /\ deletion' = NoRun /\ schedule' = deletion
          /\ deletion \in NoteSchedules /\ Stored' = Stored
          /\ counts' = [counts EXCEPT !.undone = @ + 1]
      BY <2>3, ScheduleNumbers DEF UndoDeletion, Count, OnceInv, DeletionOK, Stored
    <3>2. /\ counts' \in [edits : Nat, now : Nat, boots : Nat, lost : Nat, undone : Nat]
          /\ counts'.lost = counts.lost /\ counts'.undone # 0
      BY <2>1, <3>1
    <3> QED  BY <3>1, <3>2
  <2>4. CASE DeletionIsFinal
    <3>1. /\ UNCHANGED <<minute, schedule, bootAt, dispatched, tick, runPane, launches, counts>>
          /\ deletion # NoRun /\ deletion' = NoRun /\ ~schedule.present
          /\ schedule \in NoteSchedules /\ tick.at \notin {"launch", "record", "now"}
          /\ Stored' = schedule
      BY <2>4, ScheduleNumbers DEF DeletionIsFinal, OnceInv, DeletionOK, Stored
    <3>2. schedule.lastRun = NoRun
      BY <2>4 DEF DeletionIsFinal, OnceInv, DeletionOK
    <3> QED  BY <2>1, <3>1, <3>2
  <2> QED  BY <2>2, <2>3, <2>4
<1>2. SchedulesTypeOK' /\ CountsOK'
  BY <1>1 DEF OnceInv, SchedulesTypeOK, CountsOK
<1>3. DeletionOK' /\ TickOK' /\ RunOK'
  BY <1>1 DEF OnceInv, DeletionOK, TickOK, RunOK
<1>4. LaunchesOK'
  <2>1. \A i \in CronInstants : Behind(i) /\ counts'.undone = 0 => Behind(i)'
    BY <1>1 DEF Behind
  <2>2. \A i \in CronInstants : OnRecord(i) => OnRecord(i)'
    BY <1>1 DEF OnRecord, Pending, LastOf, Later
  <2>3. OnceHolds /\ tick'.at \in {"dispatch", "launch"} => launches[dispatched'] = 0
    BY <1>1 DEF OnceInv, LaunchesOK
  <2> QED  BY <1>1, <2>1, <2>2, <2>3, ScheduleNumbers, NothingLaunched
<1> QED  BY <1>1, <1>2, <1>3, <1>4 DEF OnceInv

LEMMA RebootStep ==
  ASSUME OnceInv, ForgetDispatched \/ Reboot
  PROVE  OnceInv'
<1> USE SchedulesAssumption
<1>1. /\ UNCHANGED <<minute, schedule, runPane, launches>> /\ dispatched' = 0
      /\ \/ tick' = NoTick /\ bootAt' = minute /\ deletion' = NoRun
         \/ tick' = tick /\ tick.at = "idle" /\ UNCHANGED <<bootAt, deletion>> /\ ~schedule.present
      /\ counts' \in [edits : Nat, now : Nat, boots : Nat, lost : Nat, undone : Nat]
      /\ counts'.undone = counts.undone /\ counts'.lost = counts.lost
  BY DEF ForgetDispatched, Reboot, Count, OnceInv, CountsOK
<1>2. tick' \in Ticks /\ tick'.at = "idle"
  <2>1. 0 \in Instants /\ tick \in Ticks
    BY DEF OnceInv, SchedulesTypeOK, Ticks, Instants
  <2> QED  BY <1>1, <2>1 DEF NoTick, Ticks
<1>3. SchedulesTypeOK' /\ CountsOK'
  <2>1. 0 \in Instants
    BY DEF Instants
  <2> QED  BY <1>1, <1>2, <2>1, ScheduleNumbers DEF OnceInv, SchedulesTypeOK, CountsOK, Ticks
<1>4. DeletionOK' /\ TickOK'
  BY <1>1, <1>2 DEF OnceInv, DeletionOK, TickOK
<1>5. RunOK'
  <2>1. CASE deletion' = deletion
    BY <1>1, <2>1 DEF OnceInv, RunOK, Stored
  <2>2. CASE deletion = NoRun /\ deletion' = NoRun
    BY <1>1, <2>2 DEF OnceInv, RunOK, Stored
  <2>3. CASE deletion # NoRun /\ deletion' = NoRun
    BY <1>1, <2>3 DEF OnceInv, DeletionOK, RunOK, Stored
  <2> QED  BY <1>1, <2>1, <2>2, <2>3
<1>6. LaunchesOK'
  <2>1. ASSUME NEW i \in CronInstants, i <= minute, Behind(i) PROVE Behind(i)'
    BY <1>1, <2>1 DEF Behind
  <2>2. ASSUME NEW i \in CronInstants, i <= minute, OnRecord(i) PROVE OnRecord(i)'
    <3>1. CASE bootAt' = minute
      BY <1>1, <2>2, <3>1 DEF OnRecord
    <3>2. CASE tick' = tick /\ UNCHANGED <<bootAt, deletion>>
      BY <1>1, <2>2, <3>2 DEF OnRecord, Pending, Stored, LastOf, Later
    <3> QED  BY <1>1, <3>1, <3>2
  <2> QED  BY <1>1, <1>2, <2>1, <2>2, ScheduleNumbers, NothingLaunched
<1> QED  BY <1>1, <1>3, <1>4, <1>5, <1>6, ScheduleNumbers DEF OnceInv

LEMMA OnceStep == OnceInv /\ [SchedulesNext]_schedules => OnceInv'
<1> SUFFICES ASSUME OnceInv, [SchedulesNext]_schedules PROVE OnceInv'
  OBVIOUS
<1>1. CASE UNCHANGED schedules
  BY <1>1 DEF schedules, OnceInv, SchedulesTypeOK, CountsOK, DeletionOK, TickOK, RunOK, LaunchesOK,
              OnceHolds, Behind, OnRecord, Pending, LastOf, Later, Stored
<1>2. CASE SchedulesNext
  BY <1>2, ClockStep, TickStep, LaunchStep, RecordStep, ReconcileStep, EditStep, DeletionStep,
     RebootStep DEF SchedulesNext
<1> QED  BY <1>1, <1>2

(* The state of the schedule and its managed runs has its type.             *)
THEOREM SchedulesTypeCorrect == SchedulesAlone => []SchedulesTypeOK
<1>1. OnceInv => SchedulesTypeOK
  BY DEF OnceInv
<1> QED  BY <1>1, OnceInit, OnceStep, PTL DEF SchedulesAlone

(* Whatever is edited, restarted or run by hand, and with deletions undone    *)
(* or with records lost, no instant of any cron schedule is launched twice.  *)
THEOREM NoInstantTwice == SchedulesAlone => []EachInstantOnce
<1>1. OnceInv => EachInstantOnce
  BY DEF OnceInv, LaunchesOK, OnceHolds, EachInstantOnce
<1> QED  BY <1>1, OnceInit, OnceStep, PTL DEF SchedulesAlone
-----------------------------------------------------------------------------
(*                         The services side by side                        *)

(* What runs all services side by side runs each of them as if it were alone: *)
(* every theorem about one of them holds in that composition.                *)
THEOREM ServicesRunAlone ==
  ServicesSpec => Spec /\ ButtonsAlone /\ ViewportAlone /\ SchedulesAlone /\ ReviewsAlone
<1>1. ServicesInit => Init /\ ButtonsInit /\ ViewportInit /\ SchedulesInit /\ ReviewsInit
  BY DEF ServicesInit
<1>2. [ServicesNext]_<<vars, buttonVars, viewport, schedules, reviewing, part>> =>
        /\ [Next]_vars /\ [ButtonsNext]_buttonVars /\ [ViewportNext]_viewport
        /\ [SchedulesNext]_schedules /\ [ReviewsNext]_reviewing
  BY DEF ServicesNext
<1> QED
  BY <1>1, <1>2, PTL
  DEF ServicesSpec, Spec, ButtonsAlone, ViewportAlone, SchedulesAlone, ReviewsAlone

(* The variables of all four services keep their types in the composition.   *)
THEOREM ServicesTypeCorrect == ServicesSpec => []ServicesTypeOK
<1>1. ButtonsTypeOK /\ ViewportTypeOK /\ SchedulesTypeOK /\ ReviewsTypeOK => ServicesTypeOK
  BY DEF ServicesTypeOK
<1> QED
  BY <1>1, ServicesRunAlone, ButtonsTypeCorrect, ViewportTypeCorrect, SchedulesTypeCorrect,
     ReviewsTypeCorrect, PTL
=============================================================================
