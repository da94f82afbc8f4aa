------------------------- MODULE IntegrationGateway -------------------------
(***************************************************************************)
(* IntegrationGateway.call for mutations (integrations/mcp/gateway.ts) on  *)
(* its idempotency store (integrations/policy/service.ts): a tool call of  *)
(* a remote model is authorized by the browser's voice session, claims its *)
(* request id, is audited, runs, and settles its claim, with an await      *)
(* between any two of these.  Clients retry, audit and store writes fail,  *)
(* old records are pruned and the server restarts.                         *)
(*                                                                         *)
(* The store's mutations are serialized by a promise chain and made        *)
(* durable by a rename, so each is one step, which may also fail before    *)
(* the rename or after it.                                                 *)
(***************************************************************************)
EXTENDS BrowserControl, FiniteSets

CONSTANTS
  Calls,           \* tool calls, retries included
  Requests,        \* (principal, tool, request id)
  Digests,         \* digests of arguments
  MaxRecords,
  MaxFaults        \* bound: failing writes and operations, records that outlive
                   \* their 24 hours, and server restarts, together

ASSUME IntegrationGatewayAssumption ==
  /\ None \notin Requests \union Digests
  /\ MaxRecords \in Nat \ {0}
  /\ MaxFaults \in Nat

VARIABLES
  records,         \* durable claims, oldest first; a claim's id is its call
  calls,           \* where each call is, and what it will answer
  ran,             \* the calls whose side effect happened
  forgotten,       \* requests whose claim was pruned
  faults           \* how many there were

progress == <<records, calls, ran, forgotten>>
vars == <<control, progress, faults>>

Settled == {"completed", "failed", "unknown_outcome"}
(* What the caller is told: success, an error code, or nothing because the   *)
(* call rejected or the server went away.                                   *)
Answers == {"none", "success", "error"}
Record == [id : Calls, request : Requests, digest : Digests,
           state : Settled \union {"in_progress"}, result : BOOLEAN]
Steps == {"idle", "claim", "intent", "execute", "finish", "catch", "outcome", "done"}

TypeOK ==
  /\ ControlTypeOK
  /\ records \in Seq(Record) /\ Len(records) <= MaxRecords
  /\ calls \in [Calls -> [pc : Steps, request : Requests \union {None}, digest : Digests \union {None},
                          audited : BOOLEAN, answer : Answers]]
  /\ ran \subseteq Calls
  /\ forgotten \subseteq Requests
  /\ faults \in 0 .. MaxFaults

Init ==
  /\ ControlInit
  /\ records = <<>>
  /\ calls = [c \in Calls |-> [pc |-> "idle", request |-> None, digest |-> None,
                              audited |-> FALSE, answer |-> "none"]]
  /\ ran = {} /\ forgotten = {}
  /\ faults = 0

-----------------------------------------------------------------------------
At(c, pc) == calls[c].pc = pc
Go(c, pc) == calls' = [calls EXCEPT ![c].pc = pc]
Answer(c, pc, answer) == calls' = [calls EXCEPT ![c].pc = pc, ![c].answer = answer]
Ended(call, answer) == [call EXCEPT !.pc = "done", !.answer = answer, !.audited = FALSE]
End(c, answer) == calls' = [calls EXCEPT ![c] = Ended(@, answer)]
Fault == faults < MaxFaults /\ faults' = faults + 1

(* mutate: the change is durable, or the write throws before the rename, or *)
(* it throws although the rename is done; ok tells which.                   *)
Mutate(new, ok) ==
  \/ ok /\ records' = new /\ UNCHANGED faults
  \/ ~ ok /\ Fault /\ (records' = records \/ records' = new)

\* Mutant: the records are capped before the append only.
Kept_Uncapped(all) == all

\* prune after an append: the oldest records beyond the capacity are dropped.
Kept(all) ==
  SubSeq(all, IF Len(all) > MaxRecords THEN Len(all) - MaxRecords + 1 ELSE 1, Len(all))
Forget(all) == forgotten' = forgotten \union {all[i].request : i \in 1 .. Len(all) - MaxRecords}

ClaimsOf(r) == {i \in DOMAIN records : records[i].request = r}

\* Mutant: a claim is settled whatever its state.
Finished_Again(c, state, result) ==
  [i \in DOMAIN records |->
     IF records[i].id = c THEN [records[i] EXCEPT !.state = state, !.result = result] ELSE records[i]]

\* finish: the claim with this id is settled if it is still in progress.
Finished(c, state, result) ==
  [i \in DOMAIN records |->
     IF records[i].id = c /\ records[i].state = "in_progress"
     THEN [records[i] EXCEPT !.state = state, !.result = result] ELSE records[i]]

(* call() up to its first await; the transport may vouch for the voice       *)
(* session, having checked it at another instance of the server.            *)
Call(c, r, d, vouched) ==
  /\ At(c, "idle")
  /\ calls' = [calls EXCEPT ![c] =
       [pc |-> IF vouched \/ Authorizes THEN "claim" ELSE "outcome",
        request |-> r, digest |-> d, audited |-> FALSE,
        answer |-> IF vouched \/ Authorizes THEN "none" ELSE "error"]]
  /\ IF vouched THEN UNCHANGED control ELSE RevokeVoice
  /\ UNCHANGED <<records, ran, forgotten, faults>>

\* claim: a new request claims its id
Claim(c) ==
  LET mine == [id |-> c, request |-> calls[c].request, digest |-> calls[c].digest,
               state |-> "in_progress", result |-> FALSE]
      all == Append(records, mine)
  IN
  /\ At(c, "claim")
  /\ ClaimsOf(calls[c].request) = {}
  /\ \/ Mutate(Kept(all), TRUE) /\ Go(c, "intent")
     \/ Mutate(Kept(all), FALSE) /\ End(c, "none")
  /\ IF records' = records THEN UNCHANGED forgotten ELSE Forget(all)
  /\ UNCHANGED <<control, ran>>

\* Mutant: a request that failed is run again.
Replay_Retries(c) ==
  /\ At(c, "claim")
  /\ \E i \in ClaimsOf(calls[c].request) :
       IF records[i].state = "failed" THEN Go(c, "intent") ELSE Answer(c, "outcome", "error")
  /\ UNCHANGED <<control, records, ran, forgotten, faults>>

(* A request that was claimed before is not run: other arguments are a       *)
(* conflict, a claim in progress is an error, and a settled one is replayed *)
(* if its result was stored.                                                *)
Replay(c) ==
  /\ At(c, "claim")
  /\ \E i \in ClaimsOf(calls[c].request) :
       LET replayed == /\ records[i].digest = calls[c].digest
                       /\ records[i].state = "completed" /\ records[i].result
       IN \/ Mutate(records, TRUE) /\ Answer(c, "outcome", IF replayed THEN "success" ELSE "error")
          \/ Mutate(records, FALSE) /\ End(c, "none")
  /\ UNCHANGED <<control, ran, forgotten>>

\* The intent is audited before the side effect.
AuditIntent(c) ==
  /\ At(c, "intent")
  /\ \/ calls' = [calls EXCEPT ![c].pc = "execute", ![c].audited = TRUE] /\ UNCHANGED faults
     \/ Fault /\ Go(c, "catch")
  /\ UNCHANGED <<control, records, ran, forgotten>>

\* The operation succeeds, or reports or throws an error with or without effect.
Execute(c) ==
  /\ At(c, "execute")
  /\ \/ ran' = ran \union {c} /\ Answer(c, "finish", "success") /\ UNCHANGED faults
     \/ /\ Fault
        /\ ran' \in {ran, ran \union {c}}
        /\ Answer(c, "finish", "error") \/ Go(c, "catch")
  /\ UNCHANGED <<control, records, forgotten>>

\* Mutant: every operation that returned is recorded as completed.
Finish_Completed(c) ==
  /\ At(c, "finish")
  /\ records' = Finished(c, "completed", TRUE)
  /\ Go(c, "outcome")
  /\ UNCHANGED <<control, ran, forgotten, faults>>

\* finish, with a result that is stored unless it is too large
Finish(c) ==
  LET state == IF calls[c].answer = "success" THEN "completed" ELSE "failed" IN
  /\ At(c, "finish")
  /\ \E stored \in BOOLEAN :
       \/ Mutate(Finished(c, state, stored), TRUE) /\ Go(c, "outcome")
       \/ Mutate(Finished(c, state, stored), FALSE) /\ Go(c, "catch")
  /\ UNCHANGED <<control, ran, forgotten>>

\* Mutant: a failed audit drops the claim.
Catch_Drops(c) ==
  /\ At(c, "catch")
  /\ records' = SelectSeq(records, LAMBDA e : e.id # c)
  /\ Answer(c, "outcome", "error")
  /\ UNCHANGED <<control, ran, forgotten, faults>>

\* Whatever was thrown, the claim is failed for a missing audit intent.
Catch(c) ==
  /\ At(c, "catch")
  /\ \/ Mutate(Finished(c, "failed", TRUE), TRUE) /\ Answer(c, "outcome", "error")
     \/ Mutate(Finished(c, "failed", TRUE), FALSE) /\ End(c, "none")
  /\ UNCHANGED <<control, ran, forgotten>>

\* A lost outcome audit is only told to the caller once an intent was audited.
AuditOutcome(c) ==
  /\ At(c, "outcome")
  /\ \/ End(c, calls[c].answer) /\ UNCHANGED faults
     \/ Fault /\ End(c, IF calls[c].audited THEN "error" ELSE calls[c].answer)
  /\ UNCHANGED <<control, records, ran, forgotten>>

\* prune: a record is not touched for 24 hours
RecordLapses ==
  /\ Fault
  /\ \E i \in DOMAIN records :
       /\ records' = RemoveAt(records, i)
       /\ forgotten' = forgotten \union {records[i].request}
  /\ UNCHANGED <<control, calls, ran>>

(* The server restarts: calls in progress get no answer, control is in       *)
(* memory, and recoverUnknownOutcomes settles what they left behind before  *)
(* the first call is served.                                                *)
Restart ==
  /\ Fault
  /\ records' = [i \in DOMAIN records |->
       IF records[i].state = "in_progress"
       THEN [records[i] EXCEPT !.state = "unknown_outcome"] ELSE records[i]]
  /\ calls' = [c \in Calls |-> IF calls[c].pc \in {"idle", "done"} THEN calls[c]
                               ELSE Ended(calls[c], "none")]
  /\ owner' = None /\ live' = FALSE /\ voice' = NoVoice /\ stopped' = <<>>
  /\ UNCHANGED <<ran, forgotten>>

Step(c) ==
  \/ Claim(c) \/ Replay(c) \/ AuditIntent(c) \/ Execute(c)
  \/ Finish(c) \/ Catch(c) \/ AuditOutcome(c)

Next ==
  \/ \E c \in Calls, r \in Requests, d \in Digests, vouched \in BOOLEAN : Call(c, r, d, vouched)
  \/ \E c \in Calls : Step(c)
  \/ ControlNext /\ UNCHANGED <<progress, faults>>
  \/ RecordLapses
  \/ Restart

Spec == Init /\ [][Next]_vars

-----------------------------------------------------------------------------
(* Retries never repeat an effect (gateway.ts "preserve at-most-once          *)
(* behavior across retries"): of all calls of a request at most one runs,   *)
(* through restarts and failed writes, until its claim is pruned.           *)
AtMostOnce ==
  \A c, d \in ran : c # d /\ calls[c].request = calls[d].request => calls[c].request \in forgotten

(* What ran is on record: a claim that answers its retries is durable before *)
(* the effect and stays until it is pruned.                                 *)
EffectsAreOnRecord ==
  \A c \in ran : ClaimsOf(calls[c].request) # {} \/ calls[c].request \in forgotten

(* A caller is told of success, by the call itself or by a replay, only when *)
(* a call of that request with the same arguments ran.                      *)
SuccessIsTrue ==
  \A c \in Calls : calls[c].answer = "success" =>
    \E d \in ran : calls[d].request = calls[c].request /\ calls[d].digest = calls[c].digest

(* Once settled, a claim never changes its outcome, so all retries hear the  *)
(* same.                                                                    *)
OutcomeIsFinal ==
  [][\A i \in DOMAIN records, j \in DOMAIN records' :
       records[i].id = records'[j].id /\ records[i].state \in Settled => records'[j] = records[i]]_vars

(* A call is let through only on the voice session of the browser that        *)
(* controls the console with a live lease, and never on one that this       *)
(* browser has stopped, in whatever order its start and stop requests came, *)
(* while the stop is remembered.                                            *)
OnlyTheOwnersVoice ==
  [][\A c \in Calls, r \in Requests, d \in Digests : Call(c, r, d, FALSE) /\ calls'[c].pc = "claim" =>
       /\ live /\ owner = voice.session
       /\ \A i \in DOMAIN stopped : stopped[i].id = voice.id => owner \notin stopped[i].by]_vars
=============================================================================
