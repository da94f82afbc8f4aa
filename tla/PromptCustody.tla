---------------------------- MODULE PromptCustody ----------------------------
(***************************************************************************)
(* What delivery promises of one accepted prompt, with no Agents, panes or *)
(* jobs in sight: it is always somewhere.  It starts in a queue, it may    *)
(* reach several places (a failure between two stores leaves it in both),  *)
(* and it leaves the queue only for a place it has reached.                *)
(***************************************************************************)
CONSTANT Prompts

VARIABLE places       \* the places that have each prompt

Ends == {"confirmed", "noted", "removed"}

Init == places = [p \in Prompts |-> {}]

Accept(p) ==
  /\ places[p] = {}
  /\ places' = [places EXCEPT ![p] = {"queue"}]

\* It reaches an end while the queue still holds it, or late.
Reach(p, end) ==
  /\ places[p] # {}
  /\ places' = [places EXCEPT ![p] = @ \union {end}]

\* The queue lets go of a prompt that has reached, or now reaches, an end.
LetGo(p) ==
  /\ "queue" \in places[p]
  /\ \E ends \in SUBSET Ends :
       /\ ends # {}
       /\ places[p] \ {"queue"} \subseteq ends
       /\ places' = [places EXCEPT ![p] = ends]

Next == \E p \in Prompts : Accept(p) \/ LetGo(p) \/ \E end \in Ends : Reach(p, end)

Spec == Init /\ [][Next]_places
=============================================================================
