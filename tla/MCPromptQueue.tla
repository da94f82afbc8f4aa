---------------------------- MODULE MCPromptQueue ----------------------------
(* Small constants for PromptQueue: a short and a long text, so that every   *)
(* cap (scopes, prompts per scope, total text) is reached.                   *)
EXTENDS PromptQueue, TLC

CONSTANTS s1, s2, p1, p2, p3, short, long

MCScopes == {s1, s2}
MCIds == {p1, p2, p3}
MCTexts == {short, long}
MCLength == [t \in Texts |-> IF t = short THEN 1 ELSE 2]
Interchangeable == Permutations(Ids) \union Permutations(Scopes)
=============================================================================
