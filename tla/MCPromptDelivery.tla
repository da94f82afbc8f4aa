-------------------------- MODULE MCPromptDelivery --------------------------
EXTENDS PromptDelivery, TLC

CONSTANTS a1, a2, p1, p2, o1, o2
MCAgents == {a1, a2}
OneAgent == {a1}
MCPrompts == {p1, p2}
OneReset == {p2}
Nobody == {}
Everyone == {p1, p2}
OneObserver == {o1}
TwoObservers == {o1, o2}
Interchangeable == Permutations(Prompts)

On(adapters, events) == {[adapter |-> a, happens |-> events] : a \in adapters}
Codex == {"native"}
Claude == {"reported"}
Both == Codex \union Claude

\* Every fault, in the combinations that a run of a few minutes can explore.
Faults == On(Codex, {"cancel", "external"}) \union On(Codex, {"terminal", "crash"})
            \union On(Codex, {"remove", "save", "storage", "death"})
            \union On(Claude, {"storage", "death"})
            \union On(Claude, {"terminal", "cancel"}) \union On(Claude, {"question", "terminal"})
            \union On(Both, {"cancel", "overlap"}) \union On(Codex, {"terminal", "overlap"})
IdleRestarts == On(Codex, {"restart", "restartFails"})
Hindrances == On(Both, {"cancel", "death", "terminal"})
Removals == On(Codex, {"remove"})
BareRestarts == On(Codex, {"restart"})
Cancels == On(Claude, {"cancel"})
=============================================================================
