----------------------------- MODULE MCServices -----------------------------
(* Small constants for Services: two browsers, one shell button, courses     *)
(* that let two or three review jobs race.                                   *)
EXTENDS MCPromptDelivery, Services

CONSTANTS b1, b2, i1, h1, w1, w2

MCBrowsers == {b1, b2}
MCRequestIds == {i1}
MCShellButtons == {h1}
MCSizes == 1..3
MCCronInstants == {1, 3}
MCBranches == {w1, w2}
MCCourses == {[jobs |-> 3, events |-> {"stop"}], [jobs |-> 3, events |-> {"fail"}],
              [jobs |-> 2, events |-> {"switch", "look", "stop"}],
              [jobs |-> 2, events |-> {"switch", "dismiss"}],
              [jobs |-> 2, events |-> {"stop", "dismiss"}]}
ServicesInterchangeable == Interchangeable \union Permutations(Browsers)
=============================================================================
