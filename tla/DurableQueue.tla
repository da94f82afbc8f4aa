---------------------------- MODULE DurableQueue ----------------------------
(***************************************************************************)
(* What the prompt queue promises its callers, with no files, clones or    *)
(* promises in sight: one shared record of queues that each operation      *)
(* changes in a single step or not at all.                                 *)
(***************************************************************************)
EXTENDS QueueOps

VARIABLE contents

Init == contents = Nothing

\* One new prompt at the end of one queue, within every cap.
Enqueue ==
  \E s \in Scopes, p \in Prompt :
    /\ p.id \notin IdsIn(contents)
    /\ CanEnqueue(contents, s, p)
    /\ contents' = Enqueued(contents, s, p)

Edit ==
  \E s \in DOMAIN contents : \E i \in DOMAIN contents[s], t \in Texts :
    /\ TotalText(Rewritten(contents, s, i, t)) <= MaxStoredText
    /\ contents' = Rewritten(contents, s, i, t)

Reorder ==
  \E s \in DOMAIN contents : \E i, j \in DOMAIN contents[s] :
    /\ j \in {i - 1, i + 1}
    /\ contents' = Swapped(contents, s, i, j)

Take ==
  \E s \in DOMAIN contents : \E i \in DOMAIN contents[s] :
    contents' = Removed(contents, s, i)

HandOver ==
  \E from \in DOMAIN contents : \E to \in Scopes \ {from} :
    /\ Len(Merged(contents, from, to)) <= MaxPromptsPerScope
    /\ contents' = Moved(contents, from, to)

Next == Enqueue \/ Edit \/ Reorder \/ Take \/ HandOver

Spec == Init /\ [][Next]_contents
=============================================================================
