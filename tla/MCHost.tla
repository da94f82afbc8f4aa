------------------------------- MODULE MCHost -------------------------------
(* Small constants for Host: two settings sources and requests, and every    *)
(* kind of file operation, with and without a file to replace.               *)
EXTENDS Host

CONSTANTS s1, s2, e1, o1

JobsOf(kinds, favorites) == [kind : kinds, replace : BOOLEAN, favorite : favorites]
MCJobs == JobsOf({"upload", "copy"}, {FALSE}) \union JobsOf({"move", "special"}, BOOLEAN)
Uploads == JobsOf({"upload"}, {FALSE})
MCSources == {s1, s2}
MCOrder == [s \in MCSources |-> IF s = s1 THEN 1 ELSE 2]
MCTouchable == {{s1}, MCSources}
MCEdits == {e1}
=============================================================================
