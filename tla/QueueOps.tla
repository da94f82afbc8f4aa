------------------------------ MODULE QueueOps ------------------------------
(***************************************************************************)
(* The contents of the queued-prompts file and the changes that            *)
(* QueuedPromptService (apps/server/src/prompts/queue.ts) makes to a clone *)
(* of it.  A file is a record from scope to queue: its DOMAIN is the set of *)
(* keys the JSON object has, so a scope that keeps an empty queue is       *)
(* distinguishable from one that was deleted.                              *)
(*                                                                         *)
(* The three aggregate budgets of the code (text length, decoded attachment *)
(* bytes, serialized attachment footprint) are one budget here: Length     *)
(* gives what one text costs.                                              *)
(***************************************************************************)
EXTENDS Naturals, Sequences, FiniteSets

CONSTANTS Scopes,              \* queue scopes, one per Agent
          Ids,                 \* prompt ids (randomBytes(18) in the code)
          Texts,               \* prompt texts
          Length,              \* [Texts -> Nat]: what a text costs
          MaxScopes,           \* maxScopes
          MaxPromptsPerScope,  \* maxPromptsPerScope
          MaxStoredText        \* maxStoredTextLength

ASSUME QueueOpsAssumption ==
  /\ IsFiniteSet(Scopes)
  /\ Length \in [Texts -> Nat]
  /\ MaxScopes \in Nat
  /\ MaxPromptsPerScope \in Nat \ {0}
  /\ MaxStoredText \in Nat

Prompt == [id : Ids, text : Texts]
Queue  == Seq(Prompt)
IsStored(stored) ==
  /\ DOMAIN stored \subseteq Scopes
  /\ stored \in [DOMAIN stored -> Queue]
Nothing == [s \in {} |-> <<>>]     \* a missing file reads as {}

QueueOf(stored, s) == IF s \in DOMAIN stored THEN stored[s] ELSE <<>>
IdsOf(queue)       == {queue[i].id : i \in DOMAIN queue}
IdsIn(stored)      == {queue_id \in Ids :
                        \E s \in DOMAIN stored : queue_id \in IdsOf(stored[s])}
Positions(queue, id) == {i \in DOMAIN queue : queue[i].id = id}

\* No id is at two places, and no scope keeps an empty queue.
UniqueIds(stored) ==
  \A s, t \in DOMAIN stored : \A i \in DOMAIN stored[s], j \in DOMAIN stored[t] :
    stored[s][i].id = stored[t][j].id => s = t /\ i = j
NoEmptyQueue(stored) == \A s \in DOMAIN stored : stored[s] # <<>>

\* totals(): what every prompt of every scope costs together, counted as the
\* units of length in all of the file's slots.
Slots(stored) == UNION {{s} \X DOMAIN stored[s] : s \in DOMAIN stored}
Cost(stored, slot) == Length[stored[slot[1]][slot[2]].text]
Units(stored) ==
  UNION {{slot} \X (1 .. Cost(stored, slot)) : slot \in Slots(stored)}
TotalText(stored) == Cardinality(Units(stored))

\* Assign a queue to a scope; an emptied scope loses its key.
Put(stored, s, queue) ==
  [t \in DOMAIN stored \union {s} |-> IF t = s THEN queue ELSE stored[t]]
Delete(stored, s) == [t \in DOMAIN stored \ {s} |-> stored[t]]
PutOrDelete(stored, s, queue) ==
  IF queue = <<>> THEN Delete(stored, s) ELSE Put(stored, s, queue)

\* enqueue
Enqueued(stored, s, prompt) == Put(stored, s, Append(QueueOf(stored, s), prompt))
\* Mutant: the prompts of the scope are counted one short of the cap.
CanEnqueue_OffByOne(stored, s, prompt) ==
  /\ s \in DOMAIN stored \/ Cardinality(DOMAIN stored) < MaxScopes
  /\ Len(QueueOf(stored, s)) <= MaxPromptsPerScope
  /\ TotalText(Enqueued(stored, s, prompt)) <= MaxStoredText
CanEnqueue(stored, s, prompt) ==
  /\ s \in DOMAIN stored \/ Cardinality(DOMAIN stored) < MaxScopes
  /\ Len(QueueOf(stored, s)) < MaxPromptsPerScope
  /\ TotalText(Enqueued(stored, s, prompt)) <= MaxStoredText

\* remove, and the removal at the end of consumeOnSuccess
Without(queue, i) ==
  [j \in 1 .. Len(queue) - 1 |-> IF j < i THEN queue[j] ELSE queue[j + 1]]
Removed(stored, s, i) == PutOrDelete(stored, s, Without(stored[s], i))

\* update
\* Mutant: the new text is stored over the id.
Rewritten_OverId(stored, s, i, text) == [stored EXCEPT ![s][i].id = text]
Rewritten(stored, s, i, text) == [stored EXCEPT ![s][i].text = text]

\* move: swap a prompt with its neighbour, a no-op at either end
Neighbour(i, direction) == IF direction = "earlier" THEN i - 1 ELSE i + 1
Swapped(stored, s, i, j) ==
  [stored EXCEPT ![s] = [@ EXCEPT ![i] = stored[s][j], ![j] = stored[s][i]]]

\* moveScope: the moved prompts go ahead of those already waiting
\* Mutant: the prompts already waiting at the new scope are overwritten.
Merged_Overwrites(stored, from, to) == stored[from]
Merged(stored, from, to) == stored[from] \o QueueOf(stored, to)
\* Mutant: the old scope keeps its copy.
Moved_Copies(stored, from, to) == Put(stored, to, Merged(stored, from, to))
Moved(stored, from, to) ==
  Delete(Put(stored, to, Merged(stored, from, to)), from)

\* What read() demands of the file before it will serve any request.
ValidFile(stored) ==
  /\ Cardinality(DOMAIN stored) <= MaxScopes
  /\ \A s \in DOMAIN stored : Len(stored[s]) <= MaxPromptsPerScope
  /\ TotalText(stored) <= MaxStoredText
=============================================================================
