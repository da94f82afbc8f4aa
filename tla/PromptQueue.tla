----------------------------- MODULE PromptQueue -----------------------------
(***************************************************************************)
(* QueuedPromptService (apps/server/src/prompts/queue.ts): the durable     *)
(* per-Agent prompt queues.                                                *)
(*                                                                         *)
(* Every mutation is chained behind the previous one with a promise        *)
(* (mutate): it clones the published snapshot, changes the clone, writes   *)
(* it to a temporary file, renames that over the real one and only then    *)
(* publishes the clone.  consumeOnSuccess awaits its caller's callback in  *)
(* the middle.  A write may fail at any mutation, the process may die      *)
(* between any two steps, and a new process reloads the file.              *)
(***************************************************************************)
EXTENDS QueueOps

CONSTANTS MaxCalls     \* bound: mutations requested in one behaviour

ASSUME MaxCallsAssumption == MaxCalls \in Nat

Call ==
  [op : {"enqueue"}, scope : Scopes, text : Texts]
    \union [op : {"update"}, scope : Scopes, id : Ids, text : Texts]
    \union [op : {"move"}, scope : Scopes, id : Ids, direction : {"earlier", "later"}]
    \union [op : {"remove", "consumeOnSuccess"}, scope : Scopes, id : Ids]
    \union {c \in [op : {"moveScope"}, scope : Scopes, to : Scopes] : c.scope # c.to}

Stage == {"idle", "using", "writing", "publishing"}

VARIABLES
  file,       \* the durable file
  loaded,     \* has this process read the file yet
  stored,     \* this.stored: the published in-memory snapshot
  mutation,   \* this.mutation: the calls chained so far, the head one running
  stage,      \* how far the head call has come
  draft,      \* the clone the head call changed
  issued,     \* ids ever generated by enqueue
  accepted,   \* ids whose enqueue call resolved with a summary
  withdrawn,  \* ids taken out by a durable remove or consume
  noted,      \* ids the consumeOnSuccess callback reported durable elsewhere
  calls       \* mutations requested so far

vars == <<file, loaded, stored, mutation, stage, draft,
          issued, accepted, withdrawn, noted, calls>>
history == <<issued, accepted, withdrawn, noted, calls>>

TypeOK ==
  /\ IsStored(file)
  /\ loaded \in BOOLEAN
  /\ IsStored(stored)
  /\ mutation \in Seq(Call)
  /\ stage \in Stage
  /\ IsStored(draft)
  /\ issued \in SUBSET Ids
  /\ accepted \in SUBSET Ids
  /\ withdrawn \in SUBSET Ids
  /\ noted \in SUBSET Ids
  /\ calls \in Nat

Init ==
  /\ file = Nothing
  /\ loaded = FALSE
  /\ stored = Nothing
  /\ mutation = <<>>
  /\ stage = "idle"
  /\ draft = Nothing
  /\ issued = {}
  /\ accepted = {}
  /\ withdrawn = {}
  /\ noted = {}
  /\ calls = 0

Running == Head(mutation)
Snapshot == IF loaded THEN stored ELSE file

\* The prompt the head call takes out of a snapshot, if it is a removal.
Taken(snapshot) ==
  IF Running.op \in {"remove", "consumeOnSuccess"}
  THEN {Running.id} \intersect IdsOf(QueueOf(snapshot, Running.scope))
  ELSE {}

-----------------------------------------------------------------------------
(* A caller invokes one of the mutating methods.  (moveScope between equal   *)
(* scopes returns before it reaches the chain: Call has no such call.)       *)
Request(call) ==
  /\ calls < MaxCalls
  /\ mutation' = Append(mutation, call)
  /\ calls' = calls + 1
  /\ UNCHANGED <<file, loaded, stored, stage, draft, issued, accepted, withdrawn, noted>>

\* The head call's turn has come: read() serves or loads the snapshot.
Turn(op) ==
  /\ stage = "idle"
  /\ mutation # <<>>
  /\ Running.op = op
  /\ ValidFile(Snapshot)
  /\ loaded' = TRUE
  /\ stored' = Snapshot

\* The change has been made on the clone; the write comes next.
Change(changed) ==
  /\ draft' = changed
  /\ stage' = "writing"
  /\ UNCHANGED <<file, mutation, accepted, withdrawn, noted, calls>>

ChangeEnqueue ==
  /\ Turn("enqueue")
  /\ \E id \in Ids \ issued :
       LET prompt == [id |-> id, text |-> Running.text]
       IN \/ /\ CanEnqueue(Snapshot, Running.scope, prompt)
             /\ issued' = issued \union {id}
             /\ Change(Enqueued(Snapshot, Running.scope, prompt))
          \/ /\ ~ CanEnqueue(Snapshot, Running.scope, prompt)
             /\ UNCHANGED issued
             /\ Change(Snapshot)

ChangeUpdate ==
  /\ Turn("update")
  /\ UNCHANGED issued
  /\ LET s == Running.scope
         at == Positions(QueueOf(Snapshot, s), Running.id)
     IN \/ \E i \in at :
             LET rewritten == Rewritten(Snapshot, s, i, Running.text)
             IN Change(IF TotalText(rewritten) <= MaxStoredText
                       THEN rewritten ELSE Snapshot)
        \/ at = {} /\ Change(Snapshot)

ChangeMove ==
  /\ Turn("move")
  /\ UNCHANGED issued
  /\ LET s == Running.scope
         at == Positions(QueueOf(Snapshot, s), Running.id)
     IN \/ \E i \in at :
             LET next == Neighbour(i, Running.direction)
             IN Change(IF next \in DOMAIN Snapshot[s]
                       THEN Swapped(Snapshot, s, i, next) ELSE Snapshot)
        \/ at = {} /\ Change(Snapshot)

ChangeRemove ==
  /\ Turn("remove")
  /\ UNCHANGED issued
  /\ LET s == Running.scope
         at == Positions(QueueOf(Snapshot, s), Running.id)
     IN \/ \E i \in at : Change(Removed(Snapshot, s, i))
        \/ at = {} /\ Change(Snapshot)

ChangeMoveScope ==
  /\ Turn("moveScope")
  /\ UNCHANGED issued
  /\ LET from == Running.scope
     IN Change(IF /\ from \in DOMAIN Snapshot
                  /\ Len(Merged(Snapshot, from, Running.to)) <= MaxPromptsPerScope
               THEN Moved(Snapshot, from, Running.to) ELSE Snapshot)

(* consumeOnSuccess finds the prompt and awaits the callback; a missing     *)
(* prompt ends the call without a write.                                    *)
ConsumeLooksUp ==
  /\ Turn("consumeOnSuccess")
  /\ UNCHANGED <<file, draft, history>>
  /\ IF Positions(QueueOf(Snapshot, Running.scope), Running.id) # {}
     THEN stage' = "using" /\ UNCHANGED mutation
     ELSE stage' = "idle" /\ mutation' = Tail(mutation)

\* The callback made the prompt durable elsewhere; drop it from the clone.
UseSucceeds ==
  /\ stage = "using"
  /\ noted' = noted \union {Running.id}
  /\ \E i \in Positions(stored[Running.scope], Running.id) :
       draft' = Removed(stored, Running.scope, i)
  /\ stage' = "writing"
  /\ UNCHANGED <<file, loaded, stored, mutation, issued, accepted, withdrawn, calls>>

\* The callback returned false or threw: nothing is written.
UseFails ==
  /\ stage = "using"
  /\ stage' = "idle"
  /\ mutation' = Tail(mutation)
  /\ UNCHANGED <<file, loaded, stored, draft, history>>

\* rename() over the real file: the point at which the change is durable.
Rename ==
  /\ stage = "writing"
  /\ file' = draft
  /\ withdrawn' = withdrawn \union Taken(stored)
  /\ stage' = "publishing"
  /\ UNCHANGED <<loaded, stored, mutation, draft, issued, accepted, noted, calls>>

\* Mutant: the snapshot from before the write stays published.
Publish_StaleSnapshot ==
  /\ stage = "publishing"
  /\ accepted' = IF Running.op = "enqueue"
                 THEN accepted \union (IdsIn(draft) \ IdsIn(stored)) ELSE accepted
  /\ mutation' = Tail(mutation)
  /\ stage' = "idle"
  /\ UNCHANGED <<file, loaded, stored, draft, issued, withdrawn, noted, calls>>

\* this.stored = stored; the call resolves and the next one gets its turn.
Publish ==
  /\ stage = "publishing"
  /\ stored' = draft
  /\ accepted' = IF Running.op = "enqueue"
                 THEN accepted \union (IdsIn(draft) \ IdsIn(stored)) ELSE accepted
  /\ mutation' = Tail(mutation)
  /\ stage' = "idle"
  /\ UNCHANGED <<file, loaded, draft, issued, withdrawn, noted, calls>>

\* Mutant: the clone is published although its write failed.
WriteFails_Publishes ==
  /\ stage = "writing"
  /\ stage' = "idle"
  /\ stored' = draft
  /\ mutation' = Tail(mutation)
  /\ UNCHANGED <<file, loaded, draft, history>>

\* Mutant: the rejection is not swallowed, so no later link ever runs.
WriteFails_Jams ==
  /\ stage = "writing"
  /\ stage' = "rejected"
  /\ UNCHANGED <<file, loaded, stored, mutation, draft, history>>

(* mkdir, writeFile or rename throws: the call rejects, the published       *)
(* snapshot and the file stay, and the chain goes on (the rejection is      *)
(* swallowed when the next link is attached).                               *)
WriteFails ==
  /\ stage = "writing"
  /\ stage' = "idle"
  /\ mutation' = Tail(mutation)
  /\ UNCHANGED <<file, loaded, stored, draft, history>>

\* read() throws: an unreadable file, or one that breaks a storage limit.
ReadFails ==
  /\ stage = "idle"
  /\ mutation # <<>>
  /\ ~ loaded
  /\ mutation' = Tail(mutation)
  /\ UNCHANGED <<file, loaded, stored, stage, draft, history>>

\* The process dies and a new one starts with nothing in memory.
Restart ==
  /\ loaded' = FALSE
  /\ stored' = Nothing
  /\ mutation' = <<>>
  /\ stage' = "idle"
  /\ draft' = Nothing
  /\ UNCHANGED <<file, history>>

Mutate ==
  \/ ChangeEnqueue \/ ChangeUpdate \/ ChangeMove \/ ChangeRemove
  \/ ChangeMoveScope \/ ConsumeLooksUp
  \/ UseSucceeds \/ UseFails \/ Rename \/ Publish \/ WriteFails \/ ReadFails

Next ==
  \/ \E call \in Call : Request(call)
  \/ Mutate
  \/ Restart

(* The event loop runs every continuation that is due, and the callbacks    *)
(* given to consumeOnSuccess return, so the chain's next step is taken.     *)
Fairness == WF_vars(Mutate)

Spec == Init /\ [][Next]_vars
FairSpec == Spec /\ Fairness
-----------------------------------------------------------------------------
(* Between mutations the snapshot other methods answer from is the durable  *)
(* file; it lags behind only while one mutation's rename is being published *)
(* (mutate publishes only what was written).                                *)
SnapshotIsDurable ==
  loaded => \/ stored = file
            \/ (stage = "publishing" /\ draft = file)

(* A prompt whose enqueue was acknowledged is in the durable file until     *)
(* a remove or a consume took it out: no write failure, restart, hand-over  *)
(* or concurrent call loses it.                                             *)
AcceptedIsDurable == accepted \subseteq IdsIn(file) \union withdrawn

(* A prompt that was taken out never comes back: no later mutation works    *)
(* on a clone from before the removal.                                      *)
WithdrawnStaysOut == withdrawn \intersect IdsIn(file) = {}

(* An id is at one position of one scope: a hand-over never leaves a copy   *)
(* behind that a second Agent could be sent.                                *)
EachIdOnce == UniqueIds(file)

(* A scope with nothing queued has no key, so departed Agents do not use up *)
(* maxScopes.                                                               *)
NoEmptyScope == NoEmptyQueue(file)

(* What a mutation writes is always a file the next process accepts: read() *)
(* throws on a file over any limit, and then every call would fail.         *)
FileReloads == ValidFile(file)

(* While consumeOnSuccess awaits its callback the prompt stays in the file; *)
(* once it is noted it is taken out only by that call, or stays for a       *)
(* retry when the write fails.                                              *)
UseKeepsPrompt ==
  stage = "using" => Running.id \in IdsIn(file) /\ Running.id \in IdsIn(stored)

(* One failed or stuck call never blocks the others: the chain always       *)
(* drains (mutate swallows the rejection before it chains the next call).   *)
ChainDrains == (mutation # <<>>) ~> (mutation = <<>>)

(* The service implements the atomic queue: each call takes effect at most  *)
(* once, at its rename, on the contents left by the call before it.         *)
Atomic == INSTANCE DurableQueue WITH contents <- file
AtomicQueue == Atomic!Spec
=============================================================================
