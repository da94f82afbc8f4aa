------------------------ MODULE MCIntegrationGateway ------------------------
(* Three calls, each a first attempt, a retry or a request id used again    *)
(* with other arguments.                                                    *)
EXTENDS IntegrationGateway, TLC

CONSTANTS c1, c2, c3, r1, r2, d1, d2, s1, s2, v1

MCCalls == {c1, c2, c3}
MCRequests == {r1, r2}
MCDigests == {d1, d2}
MCSessions == {s1, s2}
MCVoices == {v1}
Interchangeable ==
  Permutations(Calls) \union Permutations(Requests) \union Permutations(Digests)
  \union Permutations(Sessions)
=============================================================================
