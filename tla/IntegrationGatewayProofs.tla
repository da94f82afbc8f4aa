---------------------- MODULE IntegrationGatewayProofs ----------------------
(***************************************************************************)
(* Proofs about IntegrationGateway for every set of calls, requests,       *)
(* digests, browsers and voice sessions, any capacity of the store and any *)
(* number of faults.                                                       *)
(***************************************************************************)
EXTENDS IntegrationGateway, SequenceTheorems, TLAPS
-----------------------------------------------------------------------------
(* The inductive invariant behind the safety theorems: every call that may   *)
(* still run, or has run, holds a claim of its own request that no other    *)
(* call can hold, unless it was pruned.                                     *)
Claiming == {c \in Calls : calls[c].pc \in {"intent", "execute", "finish", "catch"}}
HoldsClaim(c) ==
  \/ \E i \in DOMAIN records : records[i].id = c
  \/ calls[c].request \in forgotten

Inductive ==
  /\ TypeOK
  /\ \A c \in Calls : IF calls[c].pc = "idle"
       THEN c \notin ran /\ calls[c].answer = "none"
       ELSE calls[c].request \in Requests /\ calls[c].digest \in Digests
  /\ \A i, j \in DOMAIN records : records[i].request = records[j].request => i = j
  /\ \A i \in DOMAIN records :
       LET c == records[i].id IN
       /\ calls[c].pc # "idle"
       /\ records[i].request = calls[c].request /\ records[i].digest = calls[c].digest
       /\ records[i].state = "completed" => c \in ran
  /\ \A c \in Claiming \union ran : HoldsClaim(c)
  /\ AtMostOnce
  /\ \A c \in Calls : calls[c].pc \in {"claim", "intent", "execute"} => c \notin ran
  /\ \A c \in Calls : calls[c].pc = "finish" /\ calls[c].answer = "success" => c \in ran
  /\ SuccessIsTrue
-----------------------------------------------------------------------------
(* What every step keeps of calls, claims and effects; each action is shown  *)
(* to be such a step, and such a step to keep the invariant.                 *)
CallMoves(c) ==
  \/ calls'[c] = calls[c]
  \/ /\ calls[c].pc = "idle"
     /\ calls'[c].pc \in {"claim", "outcome"} /\ calls'[c].answer # "success"
     /\ calls'[c].request \in Requests /\ calls'[c].digest \in Digests
  \/ /\ calls[c].pc # "idle" /\ calls'[c].pc # "idle"
     /\ calls'[c].request = calls[c].request /\ calls'[c].digest = calls[c].digest

\* A claim stems from an earlier one or belongs to a call that makes it.
ClaimStems(j) ==
  \/ \E i \in DOMAIN records :
       /\ records'[j].id = records[i].id
       /\ records'[j].request = records[i].request
       /\ records'[j].digest = records[i].digest
       /\ records'[j].state = "completed" =>
            records[i].state = "completed" \/ records[i].id \in ran'
  \/ LET c == records'[j].id IN
     /\ calls[c].pc # "idle"
     /\ records'[j].request = calls[c].request /\ records'[j].digest = calls[c].digest
     /\ records'[j].state # "completed"

ClaimStays(i) ==
  \/ \E j \in DOMAIN records' : records'[j].id = records[i].id
  \/ records[i].request \in forgotten'

\* A call answers with success when it or another call of its request ran.
SuccessStems(c) ==
  \/ calls[c].answer = "success"
  \/ \E d \in ran' : /\ calls[d].pc # "idle" /\ calls[c].pc # "idle"
                     /\ calls[d].request = calls[c].request /\ calls[d].digest = calls[c].digest

Moves ==
  /\ TypeOK'
  /\ ran \subseteq ran' /\ forgotten \subseteq forgotten'
  /\ \A c \in Calls : CallMoves(c)
  /\ \A c \in ran' \ ran : calls[c].pc = "execute"
  /\ \A c \in Claiming' : c \in Claiming \/ \E j \in DOMAIN records' : records'[j].id = c
  /\ \A i, j \in DOMAIN records' : records'[i].request = records'[j].request => i = j
  /\ \A j \in DOMAIN records' : ClaimStems(j)
  /\ \A i \in DOMAIN records : ClaimStays(i)
  /\ \A c \in Calls : calls'[c].pc \in {"claim", "intent", "execute"} => c \notin ran'
  /\ \A c \in Calls : calls'[c].pc = "finish" /\ calls'[c].answer = "success" => c \in ran'
  /\ \A c \in Calls : calls'[c].answer = "success" => SuccessStems(c)

(* The records of the store are indexed from 1 and name known calls.        *)
LEMMA RecordsLemma ==
  ASSUME TypeOK
  PROVE  \A i \in DOMAIN records : records[i] \in Record /\ records[i].id \in Calls
<1>1. records \in Seq(Record)
  BY DEF TypeOK
<1>2. DOMAIN records = 1 .. Len(records) /\ \A i \in 1 .. Len(records) : records[i] \in Record
  BY <1>1
<1> QED  BY <1>2 DEF Record

(* Such a step keeps the inductive invariant.                                *)
LEMMA MovesLemma == ASSUME Inductive, Moves PROVE Inductive'
<1>1. TypeOK /\ TypeOK'
  BY DEF Inductive, Moves
<1>2. \A i \in DOMAIN records : records[i].id \in Calls
  BY <1>1, RecordsLemma
<1>3. \A j \in DOMAIN records' : records'[j].id \in Calls
  <2>1. records' \in Seq(Record)
    BY <1>1 DEF TypeOK
  <2>2. DOMAIN records' = 1 .. Len(records') /\ \A i \in 1 .. Len(records') : records'[i] \in Record
    BY <2>1
  <2> QED  BY <2>2 DEF Record
<1>4. /\ ran \subseteq Calls /\ ran' \subseteq Calls
      /\ ran \subseteq ran' /\ forgotten \subseteq forgotten'
  BY <1>1 DEF TypeOK, Moves
<1>5. \A c \in ran' : calls[c].pc # "idle"
  BY <1>4 DEF Inductive, Moves
\* a call that has begun stays what it is
<1>6. \A c \in Calls : calls[c].pc # "idle" =>
        /\ calls'[c].pc # "idle"
        /\ calls'[c].request = calls[c].request /\ calls'[c].digest = calls[c].digest
  BY DEF Moves, CallMoves
<1>7. \A c \in Calls : IF calls'[c].pc = "idle"
        THEN c \notin ran' /\ calls'[c].answer = "none"
        ELSE calls'[c].request \in Requests /\ calls'[c].digest \in Digests
  <2> SUFFICES ASSUME NEW c \in Calls
               PROVE  IF calls'[c].pc = "idle"
                      THEN c \notin ran' /\ calls'[c].answer = "none"
                      ELSE calls'[c].request \in Requests /\ calls'[c].digest \in Digests
    OBVIOUS
  <2>1. CallMoves(c)
    BY DEF Moves
  <2> QED  BY <2>1, <1>5 DEF CallMoves, Inductive
<1>8. \A j \in DOMAIN records' :
        LET c == records'[j].id IN
        /\ calls'[c].pc # "idle"
        /\ records'[j].request = calls'[c].request /\ records'[j].digest = calls'[c].digest
        /\ records'[j].state = "completed" => c \in ran'
  <2> SUFFICES ASSUME NEW j \in DOMAIN records'
               PROVE  LET c == records'[j].id IN
                      /\ calls'[c].pc # "idle"
                      /\ records'[j].request = calls'[c].request /\ records'[j].digest = calls'[c].digest
                      /\ records'[j].state = "completed" => c \in ran'
    OBVIOUS
  <2>1. ClaimStems(j)
    BY DEF Moves
  <2>2. CASE \E i \in DOMAIN records :
               /\ records'[j].id = records[i].id
               /\ records'[j].request = records[i].request
               /\ records'[j].digest = records[i].digest
               /\ records'[j].state = "completed" =>
                    records[i].state = "completed" \/ records[i].id \in ran'
    <3>1. PICK i \in DOMAIN records :
               /\ records'[j].id = records[i].id
               /\ records'[j].request = records[i].request
               /\ records'[j].digest = records[i].digest
               /\ records'[j].state = "completed" =>
                    records[i].state = "completed" \/ records[i].id \in ran'
      BY <2>2
    <3>2. /\ calls[records[i].id].pc # "idle"
          /\ records[i].request = calls[records[i].id].request
          /\ records[i].digest = calls[records[i].id].digest
          /\ records[i].state = "completed" => records[i].id \in ran
      BY DEF Inductive
    <3> QED  BY <3>1, <3>2, <1>2, <1>4, <1>6
  <2>3. CASE LET c == records'[j].id IN
             /\ calls[c].pc # "idle"
             /\ records'[j].request = calls[c].request /\ records'[j].digest = calls[c].digest
             /\ records'[j].state # "completed"
    BY <2>3, <1>3, <1>6
  <2> QED  BY <2>1, <2>2, <2>3 DEF ClaimStems
<1>9. \A c \in Claiming' \union ran' : HoldsClaim(c)'
  <2> SUFFICES ASSUME NEW c \in Claiming' \union ran' PROVE HoldsClaim(c)'
    OBVIOUS
  <2>1. c \in Calls
    BY <1>4 DEF Claiming
  <2>2. CASE \E j \in DOMAIN records' : records'[j].id = c
    BY <2>2 DEF HoldsClaim
  <2>3. CASE ~ \E j \in DOMAIN records' : records'[j].id = c
    <3>1. c \in Claiming \union ran
      BY <2>1, <2>3 DEF Moves, Claiming
    <3>2. HoldsClaim(c)
      BY <3>1 DEF Inductive
    <3>3. calls[c].pc # "idle"
      BY <3>1, <2>1 DEF Claiming, Inductive
    <3>4. CASE calls[c].request \in forgotten
      BY <3>3, <3>4, <2>1, <1>4, <1>6 DEF HoldsClaim
    <3>5. CASE \E i \in DOMAIN records : records[i].id = c
      <4>1. PICK i \in DOMAIN records : records[i].id = c
        BY <3>5
      <4>2. records[i].request = calls[c].request
        BY <4>1 DEF Inductive
      <4>3. records[i].request \in forgotten'
        BY <4>1, <2>3 DEF Moves, ClaimStays
      <4> QED  BY <4>2, <4>3, <3>3, <2>1, <1>6 DEF HoldsClaim
    <3> QED  BY <3>2, <3>4, <3>5 DEF HoldsClaim
  <2> QED  BY <2>2, <2>3
<1>10. AtMostOnce'
  <2> SUFFICES ASSUME NEW c \in ran', NEW d \in ran', c # d,
                      calls'[c].request = calls'[d].request
               PROVE  calls'[c].request \in forgotten'
    BY DEF AtMostOnce
  <2>1. /\ c \in Calls /\ d \in Calls
        /\ calls'[c].request = calls[c].request /\ calls'[d].request = calls[d].request
    BY <1>4, <1>5, <1>6
  <2>2. c \in Claiming \union ran /\ d \in Claiming \union ran
    BY <2>1 DEF Moves, Claiming
  <2>3. HoldsClaim(c) /\ HoldsClaim(d)
    BY <2>2 DEF Inductive
  <2>4. CASE calls[c].request \in forgotten
    BY <2>1, <2>4, <1>4
  <2>5. CASE calls[c].request \notin forgotten
    <3>1. PICK i \in DOMAIN records : records[i].id = c
      BY <2>1, <2>3, <2>5 DEF HoldsClaim
    <3>2. PICK j \in DOMAIN records : records[j].id = d
      BY <2>1, <2>3, <2>5 DEF HoldsClaim
    <3>3. records[i].request = records[j].request
      BY <3>1, <3>2, <2>1 DEF Inductive
    <3>4. i = j
      BY <3>3 DEF Inductive
    <3> QED  BY <3>1, <3>2, <3>4
  <2> QED  BY <2>4, <2>5
<1>11. SuccessIsTrue'
  <2> SUFFICES ASSUME NEW c \in Calls, calls'[c].answer = "success"
               PROVE  \E d \in ran' : /\ calls'[d].request = calls'[c].request
                                      /\ calls'[d].digest = calls'[c].digest
    BY DEF SuccessIsTrue
  <2>1. \E d \in ran' : /\ calls[d].pc # "idle" /\ calls[c].pc # "idle"
                        /\ calls[d].request = calls[c].request
                        /\ calls[d].digest = calls[c].digest
    <3>1. SuccessStems(c)
      BY DEF Moves
    <3>2. CASE calls[c].answer = "success"
      <4>1. calls[c].pc # "idle"
        BY <3>2 DEF Inductive
      <4>2. PICK d \in ran : calls[d].request = calls[c].request /\ calls[d].digest = calls[c].digest
        BY <3>2 DEF Inductive, SuccessIsTrue
      <4> QED  BY <4>1, <4>2, <1>4, <1>5
    <3> QED  BY <3>1, <3>2 DEF SuccessStems
  <2> QED  BY <2>1, <1>4, <1>6
<1> QED
  BY <1>1, <1>7, <1>8, <1>9, <1>10, <1>11 DEF Inductive, Moves
-----------------------------------------------------------------------------
(* Steps that keep the claims, and may settle them.                          *)
ClaimsKept ==
  /\ DOMAIN records' = DOMAIN records
  /\ \A i \in DOMAIN records :
       /\ records'[i].id = records[i].id
       /\ records'[i].request = records[i].request
       /\ records'[i].digest = records[i].digest
       /\ records'[i].state = "completed" =>
            records[i].state = "completed" \/ records[i].id \in ran'

LEMMA ClaimsKeptLemma ==
  ASSUME Inductive, ClaimsKept
  PROVE  /\ \A i, j \in DOMAIN records' : records'[i].request = records'[j].request => i = j
         /\ \A j \in DOMAIN records' : ClaimStems(j)
         /\ \A i \in DOMAIN records : ClaimStays(i)
         /\ \A c \in Calls : (\E i \in DOMAIN records : records[i].id = c) =>
                               \E j \in DOMAIN records' : records'[j].id = c
<1>1. \A i, j \in DOMAIN records' : records'[i].request = records'[j].request => i = j
  BY DEF ClaimsKept, Inductive
<1>2. \A j \in DOMAIN records' : ClaimStems(j)
  BY DEF ClaimsKept, ClaimStems
<1>3. \A i \in DOMAIN records : ClaimStays(i)
  BY DEF ClaimsKept, ClaimStays
<1> QED  BY <1>1, <1>2, <1>3 DEF ClaimsKept

(* One call goes on, with its claims kept.                                   *)
LEMMA CallGoesOn ==
  ASSUME Inductive, TypeOK', ClaimsKept, forgotten' = forgotten,
         NEW c \in Calls, calls[c].pc # "idle", calls'[c].pc # "idle",
         \A d \in Calls \ {c} : calls'[d] = calls[d],
         calls'[c].request = calls[c].request, calls'[c].digest = calls[c].digest,
         ran' = ran \/ (ran' = ran \union {c} /\ calls[c].pc = "execute"),
         c \in Claiming' => c \in Claiming,
         calls'[c].pc \in {"claim", "intent", "execute"} => c \notin ran',
         calls'[c].pc = "finish" /\ calls'[c].answer = "success" => c \in ran',
         calls'[c].answer = "success" => SuccessStems(c)
  PROVE  Inductive'
<1>1. TypeOK
  BY DEF Inductive
<1>2. \A d \in Calls : CallMoves(d)
  BY DEF CallMoves
<1>3. ran \subseteq ran' /\ forgotten \subseteq forgotten'
  OBVIOUS
<1>4. \A d \in ran' \ ran : calls[d].pc = "execute"
  OBVIOUS
<1>5. \A d \in Claiming' : d \in Claiming \/ \E j \in DOMAIN records' : records'[j].id = d
  BY DEF Claiming
<1>6. \A d \in Calls : calls'[d].pc \in {"claim", "intent", "execute"} => d \notin ran'
  BY DEF Inductive
<1>7. \A d \in Calls : calls'[d].pc = "finish" /\ calls'[d].answer = "success" => d \in ran'
  BY DEF Inductive
<1>8. \A d \in Calls : calls'[d].answer = "success" => SuccessStems(d)
  BY DEF SuccessStems
<1>9. Moves
  BY <1>2, <1>3, <1>4, <1>5, <1>6, <1>7, <1>8, ClaimsKeptLemma DEF Moves
<1> QED  BY <1>9, MovesLemma

(* The types of calls, which every step of one call rests on.                *)
CallType ==
  [pc : Steps, request : Requests \union {None}, digest : Digests \union {None},
   audited : BOOLEAN, answer : Answers]

LEMMA CallTypeLemma == ASSUME TypeOK PROVE calls \in [Calls -> CallType]
BY DEF TypeOK, CallType

(* Settling the claim of one call keeps the store in type and its claims.    *)
LEMMA FinishedLemma ==
  ASSUME TypeOK, NEW c, NEW state \in Settled, NEW result \in BOOLEAN
  PROVE  LET new == Finished(c, state, result) IN
         /\ new \in Seq(Record) /\ Len(new) = Len(records)
         /\ DOMAIN new = DOMAIN records
         /\ \A i \in DOMAIN records :
              /\ new[i].id = records[i].id
              /\ new[i].request = records[i].request
              /\ new[i].digest = records[i].digest
              /\ new[i].state = records[i].state \/ (new[i].state = state /\ records[i].id = c)
              /\ records[i].state \in Settled => new[i] = records[i]
<1> DEFINE new == Finished(c, state, result)
<1>1. records \in Seq(Record) /\ Len(records) \in Nat /\ DOMAIN records = 1 .. Len(records)
  BY DEF TypeOK
<1>2. \A i \in DOMAIN records : records[i] \in Record
  BY <1>1
<1>3. /\ new = [i \in DOMAIN records |->
                  IF records[i].id = c /\ records[i].state = "in_progress"
                  THEN [records[i] EXCEPT !.state = state, !.result = result] ELSE records[i]]
      /\ DOMAIN new = DOMAIN records
  BY DEF Finished
<1>4. \A i \in DOMAIN records :
        /\ new[i] \in Record
        /\ new[i].id = records[i].id
        /\ new[i].request = records[i].request
        /\ new[i].digest = records[i].digest
        /\ new[i].state = records[i].state \/ (new[i].state = state /\ records[i].id = c)
        /\ records[i].state \in Settled => new[i] = records[i]
  <2> SUFFICES ASSUME NEW i \in DOMAIN records
               PROVE  /\ new[i] \in Record
                      /\ new[i].id = records[i].id
                      /\ new[i].request = records[i].request
                      /\ new[i].digest = records[i].digest
                      /\ new[i].state = records[i].state \/ (new[i].state = state /\ records[i].id = c)
                      /\ records[i].state \in Settled => new[i] = records[i]
    OBVIOUS
  <2>1. CASE records[i].id = c /\ records[i].state = "in_progress"
    <3>1. new[i] = [records[i] EXCEPT !.state = state, !.result = result]
      BY <1>3, <2>1
    <3> QED  BY <3>1, <2>1, <1>2 DEF Record, Settled
  <2>2. CASE ~ (records[i].id = c /\ records[i].state = "in_progress")
    BY <1>2, <1>3, <2>2
  <2> QED  BY <2>1, <2>2
<1>5. new \in Seq(Record) /\ Len(new) = Len(records)
  <2>1. new \in [1 .. Len(records) -> Record]
    BY <1>1, <1>3, <1>4
  <2> QED  BY <2>1, <1>1
<1> HIDE DEF new
<1> QED  BY <1>3, <1>4, <1>5 DEF new

(* The helpers that move one call change only that call.                     *)
LEMMA GoLemma ==
  ASSUME TypeOK, NEW c \in Calls, NEW pc \in Steps, Go(c, pc)
  PROVE  /\ calls' \in [Calls -> CallType]
         /\ calls'[c].pc = pc /\ calls'[c].answer = calls[c].answer
         /\ calls'[c].request = calls[c].request /\ calls'[c].digest = calls[c].digest
         /\ \A d \in Calls \ {c} : calls'[d] = calls[d]
<1>1. calls \in [Calls -> CallType]
  BY CallTypeLemma
<1>2. calls' = [calls EXCEPT ![c] = [calls[c] EXCEPT !.pc = pc]]
  BY DEF Go
<1>3. [calls[c] EXCEPT !.pc = pc] \in CallType
  BY <1>1 DEF CallType
<1> QED  BY <1>1, <1>2, <1>3 DEF CallType

LEMMA AnswerLemma ==
  ASSUME TypeOK, NEW c \in Calls, NEW pc \in Steps, NEW answer \in Answers, Answer(c, pc, answer)
  PROVE  /\ calls' \in [Calls -> CallType]
         /\ calls'[c].pc = pc /\ calls'[c].answer = answer
         /\ calls'[c].request = calls[c].request /\ calls'[c].digest = calls[c].digest
         /\ \A d \in Calls \ {c} : calls'[d] = calls[d]
<1>1. calls \in [Calls -> CallType]
  BY CallTypeLemma
<1> DEFINE moved == [calls[c] EXCEPT !.pc = pc]
           new == [moved EXCEPT !.answer = answer]
<1>2. calls' = [calls EXCEPT ![c] = new]
  BY <1>1 DEF Answer
<1>3. moved \in CallType /\ moved.pc = pc
      /\ moved.request = calls[c].request /\ moved.digest = calls[c].digest
  BY <1>1 DEF CallType
<1> HIDE DEF moved
<1>4. /\ new \in CallType /\ new.pc = pc /\ new.answer = answer
      /\ new.request = calls[c].request /\ new.digest = calls[c].digest
  BY <1>3 DEF CallType
<1> HIDE DEF new
<1> QED  BY <1>1, <1>2, <1>4

LEMMA EndedLemma ==
  ASSUME NEW call \in CallType, NEW answer \in Answers
  PROVE  LET ended == Ended(call, answer) IN
         /\ ended \in CallType
         /\ ended.pc = "done" /\ ended.answer = answer
         /\ ended.request = call.request /\ ended.digest = call.digest
<1> DEFINE moved == [call EXCEPT !.pc = "done"]
           answered == [moved EXCEPT !.answer = answer]
           ended == [answered EXCEPT !.audited = FALSE]
<1>1. Ended(call, answer) = ended
  BY DEF Ended
<1>2. moved \in CallType /\ moved.pc = "done"
      /\ moved.request = call.request /\ moved.digest = call.digest
  BY DEF CallType, Steps
<1> HIDE DEF moved
<1>3. answered \in CallType /\ answered.pc = "done" /\ answered.answer = answer
      /\ answered.request = call.request /\ answered.digest = call.digest
  BY <1>2 DEF CallType
<1> HIDE DEF answered
<1>4. ended \in CallType /\ ended.pc = "done" /\ ended.answer = answer
      /\ ended.request = call.request /\ ended.digest = call.digest
  BY <1>3 DEF CallType
<1> HIDE DEF ended
<1> QED  BY <1>1, <1>4

LEMMA EndLemma ==
  ASSUME TypeOK, NEW c \in Calls, NEW answer \in Answers, End(c, answer)
  PROVE  /\ calls' \in [Calls -> CallType]
         /\ calls'[c].pc = "done" /\ calls'[c].answer = answer
         /\ calls'[c].request = calls[c].request /\ calls'[c].digest = calls[c].digest
         /\ \A d \in Calls \ {c} : calls'[d] = calls[d]
<1>1. calls \in [Calls -> CallType]
  BY CallTypeLemma
<1>2. calls' = [calls EXCEPT ![c] = Ended(calls[c], answer)]
  BY DEF End
<1>3. LET ended == Ended(calls[c], answer) IN
      /\ ended \in CallType
      /\ ended.pc = "done" /\ ended.answer = answer
      /\ ended.request = calls[c].request /\ ended.digest = calls[c].digest
  BY <1>1, EndedLemma
<1> QED  BY <1>1, <1>2, <1>3

(* A step of calls and store that leaves browser control alone is in type    *)
(* when its parts are.                                                       *)
LEMMA TypeLemma ==
  ASSUME TypeOK, UNCHANGED control,
         records' \in Seq(Record), Len(records') <= MaxRecords,
         calls' \in [Calls -> CallType], ran' \subseteq Calls, forgotten' \subseteq Requests,
         faults' = faults \/ Fault
  PROVE  TypeOK'
<1>1. ControlTypeOK'
  BY DEF TypeOK, ControlTypeOK, control
<1>2. faults' \in 0 .. MaxFaults
  BY IntegrationGatewayAssumption DEF TypeOK, Fault
<1> QED  BY <1>1, <1>2 DEF TypeOK, CallType
-----------------------------------------------------------------------------
(* The actions, one by one                                                   *)

(* An intent is audited, or the call turns to its catch clause.              *)
LEMMA AuditIntentStep ==
  ASSUME Inductive, NEW c \in Calls, AuditIntent(c) PROVE Inductive'
<1>1. TypeOK /\ calls \in [Calls -> CallType]
  BY CallTypeLemma DEF Inductive
<1>2. calls[c].pc = "intent" /\ UNCHANGED <<control, records, ran, forgotten>>
  BY DEF AuditIntent, At
<1>3. /\ calls' \in [Calls -> CallType]
      /\ calls'[c].pc \in {"execute", "catch"} /\ calls'[c].answer = calls[c].answer
      /\ calls'[c].request = calls[c].request /\ calls'[c].digest = calls[c].digest
      /\ \A d \in Calls \ {c} : calls'[d] = calls[d]
      /\ faults' = faults \/ Fault
  <2>1. CASE calls' = [calls EXCEPT ![c].pc = "execute", ![c].audited = TRUE] /\ UNCHANGED faults
    <3> DEFINE moved == [calls[c] EXCEPT !.pc = "execute"]
               new == [moved EXCEPT !.audited = TRUE]
    <3>1. calls' = [calls EXCEPT ![c] = new]
      BY <1>1, <2>1
    <3>2. moved \in CallType /\ moved.pc = "execute" /\ moved.answer = calls[c].answer
          /\ moved.request = calls[c].request /\ moved.digest = calls[c].digest
      BY <1>1 DEF CallType, Steps
    <3> HIDE DEF moved
    <3>3. new \in CallType /\ new.pc = "execute" /\ new.answer = calls[c].answer
          /\ new.request = calls[c].request /\ new.digest = calls[c].digest
      BY <3>2 DEF CallType
    <3> HIDE DEF new
    <3> QED  BY <1>1, <2>1, <3>1, <3>3
  <2>2. CASE Fault /\ Go(c, "catch")
    <3>1. "catch" \in Steps
      BY DEF Steps
    <3> QED  BY <1>1, <2>2, <3>1, GoLemma
  <2> QED  BY <2>1, <2>2 DEF AuditIntent
<1>4. TypeOK'
  BY <1>1, <1>2, <1>3, TypeLemma DEF TypeOK
<1>5. ClaimsKept
  BY <1>2 DEF ClaimsKept
<1>6. c \in Claiming /\ c \notin ran
  BY <1>2 DEF Claiming, Inductive
<1>7. calls'[c].answer = "success" => SuccessStems(c)
  BY <1>3 DEF SuccessStems
<1> QED  BY <1>2, <1>3, <1>4, <1>5, <1>6, <1>7, CallGoesOn

(* The operation ran, with whatever outcome.                                 *)
LEMMA ExecuteStep ==
  ASSUME Inductive, NEW c \in Calls, Execute(c) PROVE Inductive'
<1>1. TypeOK /\ calls \in [Calls -> CallType]
  BY CallTypeLemma DEF Inductive
<1>2. calls[c].pc = "execute" /\ UNCHANGED <<control, records, forgotten>>
  BY DEF Execute, At
<1>3. "finish" \in Steps /\ "catch" \in Steps /\ "success" \in Answers /\ "error" \in Answers
  BY DEF Steps, Answers
<1>4. /\ calls' \in [Calls -> CallType]
      /\ calls'[c].pc \in {"finish", "catch"}
      /\ calls'[c].request = calls[c].request /\ calls'[c].digest = calls[c].digest
      /\ \A d \in Calls \ {c} : calls'[d] = calls[d]
      /\ faults' = faults \/ Fault
      /\ ran' = ran \/ ran' = ran \union {c}
      /\ calls'[c].answer = "success" => calls[c].answer = "success" \/ c \in ran'
      /\ calls'[c].pc = "finish" /\ calls'[c].answer = "success" => c \in ran'
  <2>1. CASE ran' = ran \union {c} /\ Answer(c, "finish", "success") /\ UNCHANGED faults
    BY <1>1, <1>3, <2>1, AnswerLemma
  <2>2. CASE Fault /\ ran' \in {ran, ran \union {c}} /\ Answer(c, "finish", "error")
    BY <1>1, <1>3, <2>2, AnswerLemma
  <2>3. CASE Fault /\ ran' \in {ran, ran \union {c}} /\ Go(c, "catch")
    BY <1>1, <1>3, <2>3, GoLemma
  <2> QED  BY <2>1, <2>2, <2>3 DEF Execute
<1>5. TypeOK'
  BY <1>1, <1>2, <1>4, TypeLemma DEF TypeOK
<1>6. ClaimsKept
  BY <1>2 DEF ClaimsKept
<1>7. c \in Claiming
  BY <1>2 DEF Claiming
<1>8. calls'[c].answer = "success" => SuccessStems(c)
  BY <1>2, <1>4 DEF SuccessStems
<1> QED  BY <1>2, <1>4, <1>5, <1>6, <1>7, <1>8, CallGoesOn

(* A lost or stored outcome audit ends the call.                             *)
LEMMA AuditOutcomeStep ==
  ASSUME Inductive, NEW c \in Calls, AuditOutcome(c) PROVE Inductive'
<1>1. TypeOK /\ calls \in [Calls -> CallType]
  BY CallTypeLemma DEF Inductive
<1>2. calls[c].pc = "outcome" /\ UNCHANGED <<control, records, ran, forgotten>>
  BY DEF AuditOutcome, At
<1>3. calls[c].answer \in Answers /\ "error" \in Answers
  BY <1>1 DEF CallType, Answers
<1>4. PICK answer \in {calls[c].answer, "error"} : End(c, answer) /\ (faults' = faults \/ Fault)
  BY DEF AuditOutcome
<1>5. /\ calls' \in [Calls -> CallType]
      /\ calls'[c].pc = "done" /\ calls'[c].answer = answer
      /\ calls'[c].request = calls[c].request /\ calls'[c].digest = calls[c].digest
      /\ \A d \in Calls \ {c} : calls'[d] = calls[d]
  BY <1>1, <1>3, <1>4, EndLemma
<1>6. TypeOK'
  BY <1>1, <1>2, <1>4, <1>5, TypeLemma DEF TypeOK
<1>7. ClaimsKept
  BY <1>2 DEF ClaimsKept
<1>8. c \notin Claiming'
  BY <1>5 DEF Claiming
<1>9. calls'[c].answer = "success" => SuccessStems(c)
  BY <1>4, <1>5 DEF SuccessStems
<1> QED  BY <1>2, <1>5, <1>6, <1>7, <1>8, <1>9, CallGoesOn

(* The call settles its claim, or fails to.                                  *)
LEMMA SettleLemma ==
  ASSUME Inductive, NEW c \in Calls, NEW state \in Settled, NEW stored \in BOOLEAN, NEW ok,
         Mutate(Finished(c, state, stored), ok), state = "completed" => c \in ran', ran \subseteq ran'
  PROVE  /\ ClaimsKept
         /\ records' \in Seq(Record) /\ Len(records') <= MaxRecords
         /\ faults' = faults \/ Fault
<1>1. TypeOK
  BY DEF Inductive
<1> DEFINE new == Finished(c, state, stored)
<1>2. /\ new \in Seq(Record) /\ Len(new) = Len(records)
      /\ DOMAIN new = DOMAIN records
      /\ \A i \in DOMAIN records :
           /\ new[i].id = records[i].id
           /\ new[i].request = records[i].request
           /\ new[i].digest = records[i].digest
           /\ new[i].state = records[i].state \/ (new[i].state = state /\ records[i].id = c)
  BY <1>1, FinishedLemma
<1>3. (records' = records \/ records' = new) /\ (faults' = faults \/ Fault)
  BY DEF Mutate
<1>4. records' \in Seq(Record) /\ Len(records') <= MaxRecords
  BY <1>1, <1>2, <1>3 DEF TypeOK
<1>5. ClaimsKept
  <2>1. CASE records' = records
    BY <2>1 DEF ClaimsKept
  <2>2. CASE records' = new
    <3> HIDE DEF new
    <3>1. \A i \in DOMAIN records : new[i].state = "completed" =>
            records[i].state = "completed" \/ records[i].id \in ran'
      BY <1>2
    <3> QED  BY <2>2, <1>2, <3>1 DEF ClaimsKept
  <2> QED  BY <1>3, <2>1, <2>2
<1> QED  BY <1>3, <1>4, <1>5

(* The outcome of the operation is stored, or the call turns to its catch    *)
(* clause.                                                                   *)
LEMMA FinishStep ==
  ASSUME Inductive, NEW c \in Calls, Finish(c) PROVE Inductive'
<1>1. TypeOK /\ calls \in [Calls -> CallType]
  BY CallTypeLemma DEF Inductive
<1>2. calls[c].pc = "finish" /\ UNCHANGED <<control, ran, forgotten>>
  BY DEF Finish, At
<1> DEFINE state == IF calls[c].answer = "success" THEN "completed" ELSE "failed"
<1>3. state \in Settled /\ (state = "completed" => c \in ran')
  BY <1>2 DEF Settled, Inductive
<1>4. \E stored \in BOOLEAN, ok \in BOOLEAN :
        Mutate(Finished(c, state, stored), ok) /\ Go(c, IF ok THEN "outcome" ELSE "catch")
  BY DEF Finish
<1> HIDE DEF state
<1>5. PICK stored \in BOOLEAN, ok \in BOOLEAN :
        Mutate(Finished(c, state, stored), ok) /\ Go(c, IF ok THEN "outcome" ELSE "catch")
  BY <1>4
<1>6. /\ ClaimsKept
      /\ records' \in Seq(Record) /\ Len(records') <= MaxRecords
      /\ faults' = faults \/ Fault
  BY <1>2, <1>3, <1>5, SettleLemma
<1> DEFINE pc == IF ok THEN "outcome" ELSE "catch"
<1>7. pc \in Steps /\ pc \in {"outcome", "catch"}
  BY DEF Steps
<1> HIDE DEF pc
<1>8. /\ calls' \in [Calls -> CallType]
      /\ calls'[c].pc = pc /\ calls'[c].answer = calls[c].answer
      /\ calls'[c].request = calls[c].request /\ calls'[c].digest = calls[c].digest
      /\ \A d \in Calls \ {c} : calls'[d] = calls[d]
  BY <1>1, <1>5, <1>7, GoLemma DEF pc
<1>9. TypeOK'
  BY <1>1, <1>2, <1>6, <1>8, TypeLemma DEF TypeOK
<1>10. c \in Claiming
  BY <1>2 DEF Claiming
<1>11. calls'[c].answer = "success" => SuccessStems(c)
  BY <1>8 DEF SuccessStems
<1> QED  BY <1>2, <1>6, <1>7, <1>8, <1>9, <1>10, <1>11, CallGoesOn

(* Whatever was thrown fails the claim, or the call ends without an answer.  *)
LEMMA CatchStep ==
  ASSUME Inductive, NEW c \in Calls, Catch(c) PROVE Inductive'
<1>1. TypeOK /\ calls \in [Calls -> CallType]
  BY CallTypeLemma DEF Inductive
<1>2. calls[c].pc = "catch" /\ UNCHANGED <<control, ran, forgotten>>
  BY DEF Catch, At
<1>3. PICK ok \in BOOLEAN : Mutate(Finished(c, "failed", TRUE), ok)
  BY DEF Catch
<1>4. /\ ClaimsKept
      /\ records' \in Seq(Record) /\ Len(records') <= MaxRecords
      /\ faults' = faults \/ Fault
  BY <1>2, <1>3, SettleLemma DEF Settled
<1>5. "outcome" \in Steps /\ "error" \in Answers /\ "none" \in Answers
  BY DEF Steps, Answers
<1>6. Answer(c, "outcome", "error") \/ End(c, "none")
  BY DEF Catch
<1>7. /\ calls' \in [Calls -> CallType]
      /\ calls'[c].pc \in {"outcome", "done"} /\ calls'[c].answer \in {"error", "none"}
      /\ calls'[c].request = calls[c].request /\ calls'[c].digest = calls[c].digest
      /\ \A d \in Calls \ {c} : calls'[d] = calls[d]
  BY <1>1, <1>5, <1>6, AnswerLemma, EndLemma
<1>8. TypeOK'
  BY <1>1, <1>2, <1>4, <1>7, TypeLemma DEF TypeOK
<1>9. c \in Claiming
  BY <1>2 DEF Claiming
<1> QED  BY <1>2, <1>4, <1>7, <1>8, <1>9, CallGoesOn

(* An earlier claim of the request answers the call, which does not run.     *)
LEMMA ReplayStep ==
  ASSUME Inductive, NEW c \in Calls, Replay(c) PROVE Inductive'
<1>1. TypeOK /\ calls \in [Calls -> CallType]
  BY CallTypeLemma DEF Inductive
<1>2. calls[c].pc = "claim" /\ UNCHANGED <<control, ran, forgotten>>
  BY DEF Replay, At
<1>3. PICK i \in ClaimsOf(calls[c].request) :
        LET replayed == /\ records[i].digest = calls[c].digest
                        /\ records[i].state = "completed" /\ records[i].result
        IN \/ Mutate(records, TRUE) /\ Answer(c, "outcome", IF replayed THEN "success" ELSE "error")
           \/ Mutate(records, FALSE) /\ End(c, "none")
  BY DEF Replay
<1>4. records' = records /\ (faults' = faults \/ Fault)
  BY <1>3 DEF Mutate
<1> DEFINE replayed == /\ records[i].digest = calls[c].digest
                       /\ records[i].state = "completed" /\ records[i].result
           answer == IF replayed THEN "success" ELSE "error"
<1>5. /\ "outcome" \in Steps /\ answer \in Answers /\ "none" \in Answers
      /\ answer = "success" => replayed
  BY DEF Steps, Answers
<1>6. Answer(c, "outcome", answer) \/ End(c, "none")
  BY <1>3
<1> HIDE DEF answer
<1>7. /\ calls' \in [Calls -> CallType]
      /\ calls'[c].pc \in {"outcome", "done"} /\ calls'[c].answer \in {answer, "none"}
      /\ calls'[c].request = calls[c].request /\ calls'[c].digest = calls[c].digest
      /\ \A d \in Calls \ {c} : calls'[d] = calls[d]
  BY <1>1, <1>5, <1>6, AnswerLemma, EndLemma
<1>8. TypeOK'
  BY <1>1, <1>2, <1>4, <1>7, TypeLemma DEF TypeOK
<1>9. ClaimsKept
  BY <1>4 DEF ClaimsKept
<1>10. calls'[c].answer = "success" => SuccessStems(c)
  <2> SUFFICES ASSUME calls'[c].answer = "success" PROVE SuccessStems(c)
    OBVIOUS
  <2>1. replayed
    BY <1>5, <1>7
  <2>2. i \in DOMAIN records /\ records[i].request = calls[c].request
    BY <1>3 DEF ClaimsOf
  <2>3. /\ records[i].id \in ran /\ calls[records[i].id].pc # "idle"
        /\ calls[records[i].id].request = records[i].request
        /\ calls[records[i].id].digest = records[i].digest
    BY <2>1, <2>2 DEF Inductive
  <2> QED  BY <1>2, <2>1, <2>2, <2>3 DEF SuccessStems
<1>11. c \notin Claiming'
  BY <1>7 DEF Claiming
<1> QED  BY <1>2, <1>7, <1>8, <1>9, <1>10, <1>11, CallGoesOn
-----------------------------------------------------------------------------
(* Browser control                                                           *)

(* Dropping the element at i of a sequence leaves those before and after it. *)
LEMMA RemoveAtLemma ==
  ASSUME NEW S, NEW s \in Seq(S), NEW i \in DOMAIN s
  PROVE  LET new == RemoveAt(s, i) IN
         /\ new \in Seq(S) /\ Len(new) = Len(s) - 1
         /\ \A j \in 1 .. Len(s) - 1 : new[j] = IF j < i THEN s[j] ELSE s[j + 1]
<1>1. Len(s) \in Nat /\ DOMAIN s = 1 .. Len(s) /\ i \in 1 .. Len(s)
  OBVIOUS
<1>2. \A j \in 1 .. Len(s) : s[j] \in S
  OBVIOUS
<1> DEFINE left == SubSeq(s, 1, i - 1)
           right == SubSeq(s, i + 1, Len(s))
<1>3. left \in Seq(S) /\ Len(left) = i - 1 /\ \A j \in 1 .. i - 1 : left[j] = s[j]
  <2>1. \A j \in 1 .. i - 1 : s[j] \in S
    BY <1>1, <1>2
  <2>2. /\ left \in Seq(S) /\ Len(left) = IF 1 <= i - 1 THEN (i - 1) - 1 + 1 ELSE 0
        /\ \A j \in 1 .. (i - 1) - 1 + 1 : left[j] = s[1 + j - 1]
    BY <1>1, <2>1, SubSeqProperties
  <2> HIDE DEF left
  <2> QED  BY <1>1, <2>2
<1>4. right \in Seq(S) /\ Len(right) = Len(s) - i /\ \A j \in 1 .. Len(s) - i : right[j] = s[i + j]
  <2>1. \A j \in i + 1 .. Len(s) : s[j] \in S
    BY <1>1, <1>2
  <2>2. /\ right \in Seq(S) /\ Len(right) = IF i + 1 <= Len(s) THEN Len(s) - (i + 1) + 1 ELSE 0
        /\ \A j \in 1 .. Len(s) - (i + 1) + 1 : right[j] = s[i + 1 + j - 1]
    BY <1>1, <2>1, SubSeqProperties
  <2> HIDE DEF right
  <2>3. Len(s) - (i + 1) + 1 = Len(s) - i /\ (i + 1 <= Len(s) \/ Len(s) - i = 0)
    BY <1>1
  <2>4. \A j \in 1 .. Len(s) - i : right[j] = s[i + j]
    <3> TAKE j \in 1 .. Len(s) - i
    <3>1. i + 1 + j - 1 = i + j
      BY <1>1
    <3> QED  BY <2>2, <2>3, <3>1
  <2> QED  BY <2>2, <2>3, <2>4
<1> HIDE DEF left, right
<1> DEFINE new == left \o right
<1>5. /\ new \in Seq(S) /\ Len(new) = Len(left) + Len(right)
      /\ \A j \in 1 .. Len(left) + Len(right) :
           new[j] = IF j <= Len(left) THEN left[j] ELSE right[j - Len(left)]
  BY <1>3, <1>4, ConcatProperties
<1>6. RemoveAt(s, i) = new
  BY DEF RemoveAt, left, right
<1> HIDE DEF new
<1>7. Len(new) = Len(s) - 1
  BY <1>1, <1>3, <1>4, <1>5
<1>8. ASSUME NEW j \in 1 .. Len(s) - 1 PROVE new[j] = IF j < i THEN s[j] ELSE s[j + 1]
  <2>1. CASE j < i
    BY <1>1, <1>3, <1>4, <1>5, <2>1, SMTT(30)
  <2>2. CASE j >= i
    <3>1. j - (i - 1) \in 1 .. Len(s) - i /\ i + (j - (i - 1)) = j + 1
      BY <1>1, <2>2
    <3>2. new[j] = right[j - (i - 1)]
      BY <1>1, <1>3, <1>4, <1>5, <2>2
    <3> QED  BY <1>1, <1>4, <2>2, <3>1, <3>2
  <2> QED  BY <1>1, <2>1, <2>2
<1> QED  BY <1>5, <1>6, <1>7, <1>8

(* A stop keeps the tombstones in type and within their number.              *)
LEMMA StopVoiceLemma ==
  ASSUME ControlTypeOK, NEW s \in Sessions, NEW v \in Voices, StopVoice(s, v)
  PROVE  ControlTypeOK'
<1> DEFINE Tombstone == [id : Voices, by : SUBSET Sessions]
           renewed == [i \in DOMAIN stopped |-> IF stopped[i].id = v
                         THEN [stopped[i] EXCEPT !.by = @ \union {s}] ELSE stopped[i]]
           all == IF v \in Stopped THEN renewed ELSE Append(stopped, [id |-> v, by |-> {s}])
<1>1. /\ stopped \in Seq(Tombstone) /\ Len(stopped) \in Nat /\ Len(stopped) <= MaxStopped
      /\ DOMAIN stopped = 1 .. Len(stopped) /\ MaxStopped \in Nat \ {0}
  BY BrowserControlAssumption DEF ControlTypeOK
<1>2. renewed \in Seq(Tombstone) /\ Len(renewed) = Len(stopped)
  <2>1. ASSUME NEW i \in DOMAIN stopped PROVE renewed[i] \in Tombstone
    <3>1. stopped[i] \in Tombstone
      <4> HIDE DEF Tombstone
      <4> QED  BY <1>1
    <3>2. stopped[i].by \union {s} \in SUBSET Sessions
      BY <3>1
    <3> QED  BY <3>1, <3>2
  <2>2. renewed \in [1 .. Len(stopped) -> Tombstone]
    BY <1>1, <2>1
  <2> HIDE DEF renewed, Tombstone
  <2> QED  BY <1>1, <2>2
<1>3. LET added == Append(stopped, [id |-> v, by |-> {s}]) IN
      added \in Seq(Tombstone) /\ Len(added) = Len(stopped) + 1
  <2>1. [id |-> v, by |-> {s}] \in Tombstone
    OBVIOUS
  <2> QED  BY <1>1, <2>1, AppendProperties
<1> HIDE DEF Tombstone, renewed
<1>4. all \in Seq(Tombstone) /\ Len(all) <= MaxStopped + 1
  BY <1>1, <1>2, <1>3
<1>5. stopped' = IF Len(all) > MaxStopped THEN Tail(all) ELSE all
  BY DEF StopVoice, renewed
<1> HIDE DEF all
<1>6. stopped' \in Seq(Tombstone) /\ Len(stopped') <= MaxStopped
  <2>1. CASE Len(all) > MaxStopped
    <3>1. all # <<>>
      BY <1>1, <2>1
    <3>2. Tail(all) \in Seq(Tombstone) /\ Len(Tail(all)) = Len(all) - 1
      BY <1>4, <3>1, HeadTailProperties
    <3> QED  BY <1>1, <1>4, <1>5, <2>1, <3>2
  <2>2. CASE ~ (Len(all) > MaxStopped)
    BY <1>1, <1>4, <1>5, <2>2
  <2> QED  BY <2>1, <2>2
<1>7. voice' \in {voice, NoVoice} /\ UNCHANGED <<owner, live>>
  BY DEF StopVoice
<1> QED  BY <1>6, <1>7 DEF ControlTypeOK, Tombstone

(* Browser control stays in type under every request, timeout and tool call. *)
LEMMA ControlLemma ==
  ASSUME ControlTypeOK, ControlNext \/ RevokeVoice PROVE ControlTypeOK'
<1>1. ASSUME NEW s \in Sessions, Connect(s) \/ Take(s) \/ Release(s) PROVE ControlTypeOK'
  BY <1>1 DEF ControlTypeOK, Connect, Take, Release
<1>2. ASSUME NEW s \in Sessions, NEW v \in Voices, StartVoice(s, v) PROVE ControlTypeOK'
  BY <1>2 DEF ControlTypeOK, StartVoice
<1>3. ASSUME NEW s \in Sessions, NEW v \in Voices, StopVoice(s, v) PROVE ControlTypeOK'
  BY <1>3, StopVoiceLemma
<1>4. CASE LeaseLapses \/ VoiceLapses \/ RevokeVoice
  BY <1>4 DEF ControlTypeOK, LeaseLapses, VoiceLapses, RevokeVoice
<1>5. CASE TombstoneLapses
  <2> DEFINE Tombstone == [id : Voices, by : SUBSET Sessions]
  <2>1. PICK i \in DOMAIN stopped : stopped' = RemoveAt(stopped, i)
    BY <1>5 DEF TombstoneLapses
  <2>2. stopped \in Seq(Tombstone) /\ Len(stopped) <= MaxStopped
    BY DEF ControlTypeOK
  <2> HIDE DEF Tombstone
  <2>3. stopped' \in Seq(Tombstone) /\ Len(stopped') = Len(stopped) - 1
    BY <2>1, <2>2, RemoveAtLemma
  <2>4. Len(stopped') <= MaxStopped
    BY <2>2, <2>3, BrowserControlAssumption
  <2> QED  BY <1>5, <2>3, <2>4 DEF ControlTypeOK, TombstoneLapses, Tombstone
<1> QED  BY <1>1, <1>2, <1>3, <1>4, <1>5 DEF ControlNext
-----------------------------------------------------------------------------
(* The actions on more than a call that goes on                              *)

(* A call begins, on the authority of browser control or of the transport.   *)
LEMMA CallStep ==
  ASSUME Inductive, NEW c \in Calls, NEW r \in Requests, NEW d \in Digests, NEW vouched \in BOOLEAN,
         Call(c, r, d, vouched)
  PROVE  Inductive'
<1>1. TypeOK /\ calls \in [Calls -> CallType]
  BY CallTypeLemma DEF Inductive
<1>2. calls[c].pc = "idle" /\ UNCHANGED <<records, ran, forgotten, faults>>
  BY DEF Call, At
<1> DEFINE new == [pc |-> IF vouched \/ Authorizes THEN "claim" ELSE "outcome",
                   request |-> r, digest |-> d, audited |-> FALSE,
                   answer |-> IF vouched \/ Authorizes THEN "none" ELSE "error"]
<1>3. calls' = [calls EXCEPT ![c] = new]
  BY DEF Call
<1>4. /\ new \in CallType
      /\ new.pc \in {"claim", "outcome"} /\ new.answer # "success"
      /\ new.request \in Requests /\ new.digest \in Digests
  BY DEF CallType, Steps, Answers
<1> HIDE DEF new
<1>5. /\ calls' \in [Calls -> CallType] /\ calls'[c] = new
      /\ \A e \in Calls \ {c} : calls'[e] = calls[e]
  BY <1>1, <1>3, <1>4
<1>6. ControlTypeOK'
  <2>1. CASE vouched
    BY <1>1, <2>1 DEF Call, TypeOK, ControlTypeOK, control
  <2>2. CASE ~ vouched
    BY <1>1, <2>2, ControlLemma DEF Call, TypeOK
  <2> QED  BY <2>1, <2>2
<1>7. TypeOK'
  BY <1>1, <1>2, <1>5, <1>6 DEF TypeOK, CallType
<1>8. \A e \in Calls : CallMoves(e)
  BY <1>2, <1>4, <1>5 DEF CallMoves
<1>9. ClaimsKept
  BY <1>2 DEF ClaimsKept
<1>10. c \notin ran
  BY <1>2 DEF Inductive
<1>11. \A e \in Claiming' : e \in Claiming
  BY <1>4, <1>5 DEF Claiming
<1>12. /\ \A e \in Calls : calls'[e].pc \in {"claim", "intent", "execute"} => e \notin ran'
       /\ \A e \in Calls : calls'[e].pc = "finish" /\ calls'[e].answer = "success" => e \in ran'
  BY <1>2, <1>4, <1>5, <1>10 DEF Inductive
<1>13. \A e \in Calls : calls'[e].answer = "success" => SuccessStems(e)
  BY <1>4, <1>5 DEF SuccessStems
<1>14. Moves
  BY <1>2, <1>7, <1>8, <1>9, <1>11, <1>12, <1>13, ClaimsKeptLemma DEF Moves
<1> QED  BY <1>14, MovesLemma

(* Steps that move no call and run nothing.                                  *)
LEMMA IdleMoves ==
  ASSUME Inductive, TypeOK', UNCHANGED <<calls, ran>>, forgotten \subseteq forgotten',
         \A i, j \in DOMAIN records' : records'[i].request = records'[j].request => i = j,
         \A j \in DOMAIN records' : ClaimStems(j),
         \A i \in DOMAIN records : ClaimStays(i)
  PROVE  Inductive'
<1>1. \A c \in Calls : CallMoves(c)
  BY DEF CallMoves
<1>2. Claiming' = Claiming
  BY DEF Claiming
<1>3. /\ \A c \in Calls : calls'[c].pc \in {"claim", "intent", "execute"} => c \notin ran'
      /\ \A c \in Calls : calls'[c].pc = "finish" /\ calls'[c].answer = "success" => c \in ran'
  BY DEF Inductive
<1>4. \A c \in Calls : calls'[c].answer = "success" => SuccessStems(c)
  BY DEF SuccessStems
<1>5. Moves
  BY <1>1, <1>2, <1>3, <1>4 DEF Moves
<1> QED  BY <1>5, MovesLemma

(* A claim that is dropped with age leaves its request forgotten.            *)
LEMMA RecordLapsesStep == ASSUME Inductive, RecordLapses PROVE Inductive'
<1>1. TypeOK
  BY DEF Inductive
<1>2. records \in Seq(Record) /\ Len(records) \in Nat /\ DOMAIN records = 1 .. Len(records)
  BY <1>1 DEF TypeOK
<1>3. PICK i \in DOMAIN records : /\ records' = RemoveAt(records, i)
                                  /\ forgotten' = forgotten \union {records[i].request}
  BY DEF RecordLapses
<1>4. UNCHANGED <<control, calls, ran>> /\ Fault
  BY DEF RecordLapses
<1>5. i \in 1 .. Len(records) /\ records[i] \in Record
  BY <1>2
<1>6. /\ records' \in Seq(Record) /\ Len(records') = Len(records) - 1
      /\ \A j \in 1 .. Len(records) - 1 :
           records'[j] = IF j < i THEN records[j] ELSE records[j + 1]
  BY <1>2, <1>3, RemoveAtLemma
<1>7. DOMAIN records' = 1 .. Len(records) - 1
  BY <1>6
<1>8. forgotten' \subseteq Requests /\ forgotten \subseteq forgotten'
  BY <1>1, <1>3, <1>5 DEF TypeOK, Record
<1>9. TypeOK'
  <2>1. Len(records') <= MaxRecords
    BY <1>1, <1>2, <1>6, IntegrationGatewayAssumption DEF TypeOK
  <2>2. calls' \in [Calls -> CallType] /\ ran' \subseteq Calls
    BY <1>1, <1>4, CallTypeLemma DEF TypeOK
  <2> QED  BY <1>1, <1>4, <1>6, <1>8, <2>1, <2>2, TypeLemma
<1> DEFINE was(j) == IF j < i THEN j ELSE j + 1
<1>10. \A j \in DOMAIN records' : was(j) \in DOMAIN records /\ records'[j] = records[was(j)]
  BY <1>2, <1>5, <1>6, <1>7
<1>11. \A j, k \in DOMAIN records' : was(j) = was(k) => j = k
  BY <1>2, <1>5, <1>7
<1>12. \A k \in DOMAIN records : k # i => \E j \in DOMAIN records' : was(j) = k
  <2> SUFFICES ASSUME NEW k \in DOMAIN records, k # i
               PROVE  \E j \in DOMAIN records' : was(j) = k
    OBVIOUS
  <2>1. CASE k < i
    <3>1. k \in DOMAIN records' /\ was(k) = k
      BY <1>2, <1>5, <1>7, <2>1
    <3> QED  BY <3>1
  <2>2. CASE k > i
    <3>1. k - 1 \in DOMAIN records' /\ was(k - 1) = k
      BY <1>2, <1>5, <1>7, <2>2
    <3> QED  BY <3>1
  <2> QED  BY <1>2, <1>5, <2>1, <2>2
<1> HIDE DEF was
<1>13. \A j, k \in DOMAIN records' : records'[j].request = records'[k].request => j = k
  BY <1>10, <1>11 DEF Inductive
<1>14. \A j \in DOMAIN records' : ClaimStems(j)
  BY <1>10 DEF ClaimStems
<1>15. \A k \in DOMAIN records : ClaimStays(k)
  BY <1>3, <1>10, <1>12 DEF ClaimStays
<1> QED  BY <1>4, <1>8, <1>9, <1>13, <1>14, <1>15, IdleMoves

(* A restart settles what it interrupts, and no call goes on.                *)
LEMMA RestartStep == ASSUME Inductive, Restart PROVE Inductive'
<1>1. TypeOK /\ calls \in [Calls -> CallType]
  BY CallTypeLemma DEF Inductive
<1>2. records \in Seq(Record) /\ Len(records) \in Nat /\ DOMAIN records = 1 .. Len(records)
  BY <1>1 DEF TypeOK
<1>3. UNCHANGED <<ran, forgotten>> /\ Fault
  BY DEF Restart
<1>4. /\ DOMAIN records' = DOMAIN records
      /\ \A i \in DOMAIN records :
           records'[i] = IF records[i].state = "in_progress"
                         THEN [records[i] EXCEPT !.state = "unknown_outcome"] ELSE records[i]
  BY DEF Restart
<1>5. \A i \in DOMAIN records :
        /\ records'[i] \in Record
        /\ records'[i].id = records[i].id
        /\ records'[i].request = records[i].request
        /\ records'[i].digest = records[i].digest
        /\ records'[i].state = records[i].state \/ records'[i].state = "unknown_outcome"
  <2> SUFFICES ASSUME NEW i \in DOMAIN records
               PROVE  /\ records'[i] \in Record
                      /\ records'[i].id = records[i].id
                      /\ records'[i].request = records[i].request
                      /\ records'[i].digest = records[i].digest
                      /\ records'[i].state = records[i].state \/ records'[i].state = "unknown_outcome"
    OBVIOUS
  <2>1. records[i] \in Record
    BY <1>2
  <2> QED  BY <1>4, <2>1 DEF Record, Settled
<1>6. records' \in Seq(Record) /\ Len(records') = Len(records)
  <2>1. records' = [i \in 1 .. Len(records) |-> records'[i]]
    BY <1>2 DEF Restart
  <2>2. records' \in [1 .. Len(records) -> Record]
    BY <1>2, <1>5, <2>1
  <2> QED  BY <1>2, <2>2
<1>7. ClaimsKept
  BY <1>4, <1>5 DEF ClaimsKept
<1>8. \A c \in Calls :
        /\ calls'[c] \in CallType
        /\ \/ calls'[c] = calls[c] /\ calls[c].pc \in {"idle", "done"}
           \/ /\ calls[c].pc # "idle" /\ calls'[c].pc = "done" /\ calls'[c].answer = "none"
              /\ calls'[c].request = calls[c].request /\ calls'[c].digest = calls[c].digest
  <2> SUFFICES ASSUME NEW c \in Calls
               PROVE  /\ calls'[c] \in CallType
                      /\ \/ calls'[c] = calls[c] /\ calls[c].pc \in {"idle", "done"}
                         \/ /\ calls[c].pc # "idle" /\ calls'[c].pc = "done" /\ calls'[c].answer = "none"
                            /\ calls'[c].request = calls[c].request
                            /\ calls'[c].digest = calls[c].digest
    OBVIOUS
  <2>1. calls[c] \in CallType /\ "none" \in Answers
    BY <1>1 DEF Answers
  <2>2. calls'[c] = IF calls[c].pc \in {"idle", "done"} THEN calls[c] ELSE Ended(calls[c], "none")
    BY DEF Restart
  <2>3. LET ended == Ended(calls[c], "none") IN
        /\ ended \in CallType
        /\ ended.pc = "done" /\ ended.answer = "none"
        /\ ended.request = calls[c].request /\ ended.digest = calls[c].digest
    BY <2>1, EndedLemma
  <2> QED  BY <2>1, <2>2, <2>3
<1>9. calls' \in [Calls -> CallType]
  <2>1. calls' = [c \in Calls |-> calls'[c]]
    BY DEF Restart
  <2> QED  BY <1>8, <2>1
<1>10. TypeOK'
  <2>1. ControlTypeOK'
    <3> DEFINE Tombstone == [id : Voices, by : SUBSET Sessions]
    <3>1. owner' = None /\ live' = FALSE /\ voice' = NoVoice /\ stopped' = <<>>
      BY DEF Restart
    <3>2. stopped' \in Seq(Tombstone) /\ Len(stopped') <= MaxStopped
      <4> HIDE DEF Tombstone
      <4> QED  BY <3>1, BrowserControlAssumption
    <3> QED  BY <3>1, <3>2 DEF ControlTypeOK
  <2>2. faults' \in 0 .. MaxFaults
    BY <1>1, <1>3, IntegrationGatewayAssumption DEF TypeOK, Fault
  <2> QED  BY <1>1, <1>3, <1>6, <1>9, <2>1, <2>2 DEF TypeOK, CallType
<1>11. \A c \in Calls : CallMoves(c)
  BY <1>8 DEF CallMoves
<1>12. Claiming' = {}
  BY <1>8 DEF Claiming
<1>13. /\ \A c \in Calls : calls'[c].pc \notin {"claim", "intent", "execute", "finish"}
       /\ \A c \in Calls : calls'[c].answer = "success" => SuccessStems(c)
  BY <1>8 DEF SuccessStems
<1>14. Moves
  BY <1>3, <1>7, <1>10, <1>11, <1>12, <1>13, ClaimsKeptLemma DEF Moves
<1> QED  BY <1>14, MovesLemma

(* The store after an append: what exceeds its capacity is dropped from the  *)
(* front, and the new record is the last.                                    *)
LEMMA KeptLemma ==
  ASSUME NEW all \in Seq(Record), Len(all) >= 1, Len(all) <= MaxRecords + 1
  PROVE  LET dropped == IF Len(all) > MaxRecords THEN Len(all) - MaxRecords ELSE 0
             new == Kept(all)
         IN /\ dropped \in Nat /\ dropped < Len(all)
            /\ new \in Seq(Record) /\ Len(new) = Len(all) - dropped /\ Len(new) <= MaxRecords
            /\ \A j \in 1 .. Len(all) - dropped : new[j] = all[j + dropped]
<1> DEFINE n == Len(all)
           dropped == IF n > MaxRecords THEN n - MaxRecords ELSE 0
           new == Kept(all)
<1>1. MaxRecords \in Nat \ {0} /\ n \in Nat /\ n >= 1 /\ n <= MaxRecords + 1
  BY IntegrationGatewayAssumption
<1>2. /\ dropped \in Nat /\ dropped < n /\ n - dropped <= MaxRecords
      /\ dropped + 1 = IF n > MaxRecords THEN n - MaxRecords + 1 ELSE 1
  BY <1>1
<1>3. new = SubSeq(all, dropped + 1, n)
  BY <1>2 DEF Kept
<1>4. \A i \in dropped + 1 .. n : all[i] \in Record
  <2>1. \A i \in 1 .. n : all[i] \in Record
    OBVIOUS
  <2> QED  BY <1>1, <1>2, <2>1
<1> HIDE DEF n, dropped, new
<1>5. /\ new \in Seq(Record)
      /\ Len(new) = IF dropped + 1 <= n THEN n - (dropped + 1) + 1 ELSE 0
      /\ \A j \in 1 .. n - (dropped + 1) + 1 : new[j] = all[dropped + 1 + j - 1]
  BY <1>1, <1>2, <1>3, <1>4, SubSeqProperties
<1>6. n - (dropped + 1) + 1 = n - dropped /\ dropped + 1 <= n
  BY <1>1, <1>2
<1>7. \A j \in 1 .. n - dropped : new[j] = all[j + dropped]
  <2> TAKE j \in 1 .. n - dropped
  <2>1. dropped + 1 + j - 1 = j + dropped
    BY <1>1, <1>2
  <2> QED  BY <1>5, <1>6, <2>1
<1>8. Len(new) = n - dropped
  BY <1>5, <1>6
<1> QED  BY <1>2, <1>5, <1>7, <1>8 DEF n, dropped, new

(* A new claim is added to the store, unless the write fails before it.      *)
LEMMA AddedLemma ==
  ASSUME Inductive, NEW c \in Calls, calls[c].pc = "claim", ClaimsOf(calls[c].request) = {},
         NEW mine, mine = [id |-> c, request |-> calls[c].request, digest |-> calls[c].digest,
                           state |-> "in_progress", result |-> FALSE],
         NEW all, all = Append(records, mine),
         records' = Kept(all), records' = records \/ Forget(all),
         records' = records => UNCHANGED forgotten
  PROVE  /\ records' \in Seq(Record) /\ Len(records') <= MaxRecords
         /\ forgotten \subseteq forgotten' /\ forgotten' \subseteq Requests
         /\ \E j \in DOMAIN records' : records'[j].id = c
         /\ \A i, j \in DOMAIN records' : records'[i].request = records'[j].request => i = j
         /\ \A j \in DOMAIN records' : ClaimStems(j)
         /\ \A i \in DOMAIN records : ClaimStays(i)
         /\ \A j \in DOMAIN records' :
              records'[j].id = c \/ \E i \in DOMAIN records : records'[j] = records[i]
<1>1. TypeOK /\ calls[c].request \in Requests /\ calls[c].digest \in Digests
  BY DEF Inductive
<1>2. /\ records \in Seq(Record) /\ Len(records) \in Nat /\ Len(records) <= MaxRecords
      /\ DOMAIN records = 1 .. Len(records) /\ MaxRecords \in Nat \ {0}
  BY <1>1, IntegrationGatewayAssumption DEF TypeOK
<1>3. /\ mine \in Record /\ mine.id = c /\ mine.state = "in_progress"
      /\ mine.request = calls[c].request /\ mine.digest = calls[c].digest
  BY <1>1 DEF Record, Settled
<1> DEFINE n == Len(records) + 1
           dropped == IF n > MaxRecords THEN n - MaxRecords ELSE 0
<1>4. /\ all \in Seq(Record) /\ Len(all) = n
      /\ \A i \in 1 .. Len(records) : all[i] = records[i]
      /\ all[n] = mine
  BY <1>2, <1>3, AppendProperties
<1>5. n \in Nat /\ n >= 1 /\ n <= MaxRecords + 1
  BY <1>2
<1>6. /\ dropped \in Nat /\ dropped < n
      /\ records' \in Seq(Record) /\ Len(records') = n - dropped /\ Len(records') <= MaxRecords
      /\ \A j \in 1 .. n - dropped : records'[j] = all[j + dropped]
  <2> HIDE DEF n
  <2> QED  BY <1>4, <1>5, KeptLemma, ZenonT(60)
<1>7. DOMAIN records' = 1 .. n - dropped
  BY <1>6
<1>8. \A i \in 1 .. dropped : i \in 1 .. n - MaxRecords
  BY <1>2, <1>5
<1>9. \A i \in 1 .. n - MaxRecords : i \in 1 .. n
  BY <1>2, <1>5
<1>10. \A i \in 1 .. n : i \in DOMAIN records \/ i = n
  BY <1>2
<1>11. n \notin DOMAIN records /\ \A i \in DOMAIN records : i \in 1 .. n
  BY <1>2
<1> HIDE DEF n, dropped
<1>12. \A i, j \in 1 .. n : all[i].request = all[j].request => i = j
  <2>1. \A i \in DOMAIN records : records[i].request # mine.request
    BY <1>3 DEF ClaimsOf
  <2>2. \A i, j \in DOMAIN records : records[i].request = records[j].request => i = j
    BY DEF Inductive
  <2>3. \A i \in DOMAIN records : all[i] = records[i]
    BY <1>2, <1>4
  <2> QED  BY <1>4, <1>10, <2>1, <2>2, <2>3
<1>13. \A j \in DOMAIN records' : j + dropped \in 1 .. n /\ records'[j] = all[j + dropped]
  <2> TAKE j \in DOMAIN records'
  <2>1. j \in 1 .. n - dropped
    BY <1>7
  <2>2. j + dropped \in 1 .. n
    BY <1>5, <1>6, <2>1
  <2> QED  BY <1>6, <2>1, <2>2
<1>14. \A i, j \in DOMAIN records' : records'[i].request = records'[j].request => i = j
  <2> SUFFICES ASSUME NEW i \in DOMAIN records', NEW j \in DOMAIN records',
                      records'[i].request = records'[j].request
               PROVE  i = j
    OBVIOUS
  <2> DEFINE a == i + dropped
             b == j + dropped
  <2>1. a \in 1 .. n /\ b \in 1 .. n /\ records'[i] = all[a] /\ records'[j] = all[b]
    BY <1>13
  <2> HIDE DEF a, b
  <2>2. a = b
    BY <1>12, <2>1
  <2> QED  BY <2>2, <1>5, <1>6, <1>7 DEF a, b
<1>15. \A i \in 1 .. n : i \in 1 .. dropped \/ \E j \in DOMAIN records' : j + dropped = i
  <2> SUFFICES ASSUME NEW i \in 1 .. n, i \notin 1 .. dropped
               PROVE  \E j \in DOMAIN records' : j + dropped = i
    OBVIOUS
  <2>1. i - dropped \in DOMAIN records' /\ (i - dropped) + dropped = i
    BY <1>5, <1>6, <1>7
  <2> QED  BY <2>1
<1>16. \E j \in DOMAIN records' : records'[j].id = c
  <2>1. n \in 1 .. n /\ n \notin 1 .. dropped
    BY <1>5, <1>6
  <2>2. PICK j \in DOMAIN records' : j + dropped = n
    BY <1>15, <2>1
  <2>3. records'[j] = all[n]
    BY <1>13, <2>2
  <2> QED  BY <1>3, <1>4, <2>3
<1>17. \A j \in DOMAIN records' : records'[j] = mine \/ \E i \in DOMAIN records : records'[j] = records[i]
  <2> SUFFICES ASSUME NEW j \in DOMAIN records'
               PROVE  records'[j] = mine \/ \E i \in DOMAIN records : records'[j] = records[i]
    OBVIOUS
  <2>1. CASE j + dropped \in DOMAIN records
    <3>1. records'[j] = records[j + dropped]
      BY <1>2, <1>4, <1>13, <2>1
    <3> QED  BY <2>1, <3>1
  <2>2. CASE j + dropped = n
    BY <1>4, <1>13, <2>2
  <2> QED  BY <1>10, <1>13, <2>1, <2>2
<1>20. \A j \in DOMAIN records' : ClaimStems(j)
  <2> SUFFICES ASSUME NEW j \in DOMAIN records' PROVE ClaimStems(j)
    OBVIOUS
  <2>1. CASE records'[j] = mine
    BY <1>3, <2>1 DEF ClaimStems
  <2>2. CASE \E i \in DOMAIN records : records'[j] = records[i]
    BY <2>2 DEF ClaimStems
  <2> QED  BY <1>17, <2>1, <2>2
<1>18. forgotten \subseteq forgotten' /\ forgotten' \subseteq Requests
  <2>1. CASE records' = records
    BY <1>1, <2>1 DEF TypeOK
  <2>2. CASE Forget(all)
    <3>1. \A i \in 1 .. n : all[i].request \in Requests
      <4>1. \A i \in 1 .. n : all[i] \in Record
        BY <1>4
      <4> QED  BY <4>1 DEF Record
    <3>2. forgotten' = forgotten \union {all[i].request : i \in 1 .. n - MaxRecords}
      BY <1>4, <2>2 DEF Forget
    <3> QED  BY <1>1, <1>9, <3>1, <3>2 DEF TypeOK
  <2> QED  BY <2>1, <2>2
<1>19. \A i \in DOMAIN records : ClaimStays(i)
  <2> SUFFICES ASSUME NEW i \in DOMAIN records PROVE ClaimStays(i)
    OBVIOUS
  <2>1. CASE records' = records
    BY <2>1 DEF ClaimStays
  <2>2. CASE Forget(all) /\ i \in 1 .. dropped
    <3>1. all[i].request \in forgotten'
      BY <1>4, <1>8, <2>2 DEF Forget
    <3> QED  BY <1>2, <1>4, <3>1 DEF ClaimStays
  <2>3. CASE i \notin 1 .. dropped
    <3>1. PICK j \in DOMAIN records' : j + dropped = i
      BY <1>11, <1>15, <2>3
    <3>2. records'[j] = records[i]
      BY <1>2, <1>4, <1>13, <3>1
    <3> QED  BY <3>2 DEF ClaimStays
  <2> QED  BY <2>1, <2>2, <2>3
<1> QED  BY <1>3, <1>6, <1>14, <1>16, <1>17, <1>18, <1>19, <1>20

(* A new request claims its id: the call goes on only with a claim stored.   *)
LEMMA ClaimStep == ASSUME Inductive, NEW c \in Calls, Claim(c) PROVE Inductive'
<1>1. TypeOK /\ calls \in [Calls -> CallType]
  BY CallTypeLemma DEF Inductive
<1>2. calls[c].pc = "claim" /\ ClaimsOf(calls[c].request) = {} /\ UNCHANGED <<control, ran>>
  BY DEF Claim, At
<1> DEFINE mine == [id |-> c, request |-> calls[c].request, digest |-> calls[c].digest,
                    state |-> "in_progress", result |-> FALSE]
           all == Append(records, mine)
<1>3. \/ Mutate(Kept(all), TRUE) /\ Go(c, "intent")
      \/ Mutate(Kept(all), FALSE) /\ End(c, "none")
  BY DEF Claim
<1>4. IF records' = records THEN UNCHANGED forgotten ELSE Forget(all)
  BY DEF Claim
<1> HIDE DEF mine, all
<1>5. /\ faults' = faults \/ Fault
      /\ records' = records \/ records' = Kept(all)
      /\ (records' = Kept(all) /\ Go(c, "intent")) \/ End(c, "none")
  BY <1>3 DEF Mutate
<1>6. "intent" \in Steps /\ "none" \in Answers
  BY DEF Steps, Answers
<1>7. /\ calls' \in [Calls -> CallType]
      /\ calls'[c].pc \in {"intent", "done"}
      /\ calls'[c].pc = "intent" => records' = Kept(all)
      /\ calls'[c].answer = "success" => calls[c].answer = "success"
      /\ calls'[c].request = calls[c].request /\ calls'[c].digest = calls[c].digest
      /\ \A d \in Calls \ {c} : calls'[d] = calls[d]
  <2>1. CASE records' = Kept(all) /\ Go(c, "intent")
    BY <1>1, <1>6, <2>1, GoLemma
  <2>2. CASE End(c, "none")
    BY <1>1, <1>6, <2>2, EndLemma
  <2> QED  BY <1>5, <2>1, <2>2
<1>8. /\ records' \in Seq(Record) /\ Len(records') <= MaxRecords
      /\ forgotten \subseteq forgotten' /\ forgotten' \subseteq Requests
      /\ calls'[c].pc = "intent" => \E j \in DOMAIN records' : records'[j].id = c
      /\ \A i, j \in DOMAIN records' : records'[i].request = records'[j].request => i = j
      /\ \A j \in DOMAIN records' : ClaimStems(j)
      /\ \A i \in DOMAIN records : ClaimStays(i)
  <2>1. CASE records' = Kept(all)
    BY <1>2, <1>4, <2>1, AddedLemma DEF mine, all
  <2>2. CASE records' # Kept(all)
    <3>1. records' = records /\ forgotten' = forgotten
      BY <1>4, <1>5, <2>2
    <3>2. ClaimsKept
      BY <3>1 DEF ClaimsKept
    <3> QED  BY <1>1, <1>7, <2>2, <3>1, <3>2, ClaimsKeptLemma DEF TypeOK
  <2> QED  BY <2>1, <2>2
<1>9. TypeOK'
  BY <1>1, <1>2, <1>5, <1>7, <1>8, TypeLemma DEF TypeOK
<1>10. \A d \in Calls : CallMoves(d)
  BY <1>2, <1>7 DEF CallMoves
<1>11. \A d \in Claiming' : d \in Claiming \/ \E j \in DOMAIN records' : records'[j].id = d
  BY <1>7, <1>8 DEF Claiming
<1>12. c \notin ran
  BY <1>2 DEF Inductive
<1>13. /\ \A d \in Calls : calls'[d].pc \in {"claim", "intent", "execute"} => d \notin ran'
       /\ \A d \in Calls : calls'[d].pc = "finish" /\ calls'[d].answer = "success" => d \in ran'
  BY <1>2, <1>7, <1>12 DEF Inductive
<1>14. \A d \in Calls : calls'[d].answer = "success" => SuccessStems(d)
  BY <1>7 DEF SuccessStems
<1>15. Moves
  BY <1>2, <1>8, <1>9, <1>10, <1>11, <1>13, <1>14 DEF Moves
<1> QED  BY <1>15, MovesLemma
-----------------------------------------------------------------------------
(* The theorems                                                              *)

(* The invariant holds when the server first starts.                         *)
LEMMA InitHolds == ASSUME Init PROVE Inductive
<1>1. /\ records = <<>> /\ ran = {} /\ forgotten = {} /\ faults = 0
      /\ Len(records) = 0 /\ DOMAIN records = {}
  BY DEF Init
<1>2. ControlTypeOK
  <2> DEFINE Tombstone == [id : Voices, by : SUBSET Sessions]
  <2>1. owner = None /\ live = FALSE /\ voice = NoVoice /\ stopped = <<>>
    BY DEF Init, ControlInit
  <2>2. stopped \in Seq(Tombstone) /\ Len(stopped) <= MaxStopped
    <3> HIDE DEF Tombstone
    <3> QED  BY <2>1, BrowserControlAssumption
  <2> QED  BY <2>1, <2>2 DEF ControlTypeOK
<1>3. records \in Seq(Record) /\ Len(records) <= MaxRecords /\ faults \in 0 .. MaxFaults
  BY <1>1, IntegrationGatewayAssumption
<1>4. /\ calls \in [Calls -> CallType]
      /\ \A c \in Calls : calls[c].pc = "idle" /\ calls[c].answer = "none"
  BY DEF Init, CallType, Steps, Answers
<1>5. TypeOK
  BY <1>1, <1>2, <1>3, <1>4 DEF TypeOK, CallType
<1>6. Claiming = {}
  BY <1>4 DEF Claiming
<1>7. AtMostOnce /\ SuccessIsTrue
  BY <1>1, <1>4 DEF AtMostOnce, SuccessIsTrue
<1> QED  BY <1>1, <1>4, <1>5, <1>6, <1>7 DEF Inductive

(* Every step, and every stutter, keeps it.                                  *)
LEMMA NextHolds == ASSUME Inductive, [Next]_vars PROVE Inductive'
<1>1. ASSUME NEW c \in Calls, NEW r \in Requests, NEW d \in Digests, NEW vouched \in BOOLEAN,
             Call(c, r, d, vouched)
      PROVE  Inductive'
  BY <1>1, CallStep
<1>2. ASSUME NEW c \in Calls, Step(c) PROVE Inductive'
  BY <1>2, ClaimStep, ReplayStep, AuditIntentStep, ExecuteStep, FinishStep, CatchStep,
     AuditOutcomeStep DEF Step
<1>3. CASE ControlNext /\ UNCHANGED <<progress, faults>>
  <2>1. UNCHANGED <<records, calls, ran, forgotten, faults>>
    BY <1>3 DEF progress
  <2>2. TypeOK
    BY DEF Inductive
  <2>3. ControlTypeOK'
    BY <1>3, <2>2, ControlLemma DEF TypeOK
  <2>4. TypeOK'
    BY <2>1, <2>2, <2>3 DEF TypeOK
  <2>5. ClaimsKept
    BY <2>1 DEF ClaimsKept
  <2> QED  BY <2>1, <2>4, <2>5, ClaimsKeptLemma, IdleMoves
<1>4. CASE RecordLapses
  BY <1>4, RecordLapsesStep
<1>5. CASE Restart
  BY <1>5, RestartStep
<1>6. CASE UNCHANGED vars
  BY <1>6 DEF vars, progress, control, Inductive, TypeOK, ControlTypeOK, ClaimsOf, HoldsClaim, Claiming,
              AtMostOnce, SuccessIsTrue
<1> QED  BY <1>1, <1>2, <1>3, <1>4, <1>5, <1>6 DEF Next

(* The inductive invariant holds always.                                     *)
THEOREM InductiveAlways == Spec => []Inductive
<1>1. Init => Inductive
  BY InitHolds
<1>2. Inductive /\ [Next]_vars => Inductive'
  BY NextHolds
<1> QED  BY <1>1, <1>2, PTL DEF Spec

(* Calls, claims and browser control are always in type: the store never     *)
(* holds more claims, and the console no more tombstones, than it may.       *)
THEOREM GatewayTypeCorrect == Spec => []TypeOK
<1>1. Inductive => TypeOK
  BY DEF Inductive
<1> QED  BY <1>1, InductiveAlways, PTL

(* No request takes effect twice while its claim is kept, however calls      *)
(* interleave, writes fail and the server restarts.                          *)
THEOREM RetriesRunOnce == Spec => []AtMostOnce
<1>1. Inductive => AtMostOnce
  BY DEF Inductive
<1> QED  BY <1>1, InductiveAlways, PTL

(* Whatever took effect has a claim on record that answers its retries.      *)
THEOREM EffectsAreAlwaysOnRecord == Spec => []EffectsAreOnRecord
<1>1. Inductive => EffectsAreOnRecord
  <2> SUFFICES ASSUME Inductive, NEW c \in ran, calls[c].request \notin forgotten
               PROVE  ClaimsOf(calls[c].request) # {}
    BY DEF EffectsAreOnRecord
  <2>1. PICK i \in DOMAIN records : records[i].id = c
    BY DEF Inductive, HoldsClaim
  <2>2. records[i].request = calls[c].request
    BY <2>1 DEF Inductive
  <2> QED  BY <2>2 DEF ClaimsOf
<1> QED  BY <1>1, InductiveAlways, PTL

(* No caller is told of a success that did not happen.                       *)
THEOREM SuccessIsAlwaysTrue == Spec => []SuccessIsTrue
<1>1. Inductive => SuccessIsTrue
  BY DEF Inductive
<1> QED  BY <1>1, InductiveAlways, PTL
-----------------------------------------------------------------------------
(* The outcome of a claim                                                    *)

(* The claims of a step stem from earlier ones, which stay as they are once  *)
(* settled, or are new.                                                      *)
Final ==
  \A j \in DOMAIN records' :
    \/ \A i \in DOMAIN records : records[i].id # records'[j].id
    \/ \E i \in DOMAIN records :
         records[i].id = records'[j].id /\ (records[i].state \in Settled => records'[j] = records[i])

(* A claim is known by its id, so where claims stem from is where they were. *)
LEMMA FinalLemma ==
  ASSUME Inductive, Final
  PROVE  \A i \in DOMAIN records, j \in DOMAIN records' :
           records[i].id = records'[j].id /\ records[i].state \in Settled => records'[j] = records[i]
<1>1. \A i, j \in DOMAIN records : records[i].id = records[j].id => i = j
  <2> SUFFICES ASSUME NEW i \in DOMAIN records, NEW j \in DOMAIN records,
                      records[i].id = records[j].id
               PROVE  i = j
    OBVIOUS
  <2>1. records[i].request = records[j].request
    BY DEF Inductive
  <2> QED  BY <2>1 DEF Inductive
<1> QED  BY <1>1 DEF Final

(* Settling a claim leaves those that are settled alone.                     *)
LEMMA SettleFinal ==
  ASSUME Inductive, NEW c \in Calls, NEW state \in Settled, NEW stored \in BOOLEAN, NEW ok,
         Mutate(Finished(c, state, stored), ok)
  PROVE  Final
<1>1. TypeOK
  BY DEF Inductive
<1> DEFINE new == Finished(c, state, stored)
<1>2. /\ DOMAIN new = DOMAIN records
      /\ \A i \in DOMAIN records :
           new[i].id = records[i].id /\ (records[i].state \in Settled => new[i] = records[i])
  BY <1>1, FinishedLemma
<1>3. records' = records \/ records' = new
  BY DEF Mutate
<1> HIDE DEF new
<1> QED  BY <1>2, <1>3 DEF Final

(* No step of a call changes a settled claim.                                *)
LEMMA StepFinal == ASSUME Inductive, NEW c \in Calls, Step(c) PROVE Final
<1>1. CASE UNCHANGED records
  BY <1>1 DEF Final
<1>2. CASE Claim(c)
  <2> DEFINE mine == [id |-> c, request |-> calls[c].request, digest |-> calls[c].digest,
                      state |-> "in_progress", result |-> FALSE]
             all == Append(records, mine)
  <2>1. calls[c].pc = "claim" /\ ClaimsOf(calls[c].request) = {}
    BY <1>2 DEF Claim, At
  <2>2. \A i \in DOMAIN records : records[i].id # c
    BY <2>1 DEF Inductive, ClaimsOf
  <2>3. records' = records \/ records' = Kept(all)
    BY <1>2 DEF Claim, Mutate
  <2>4. IF records' = records THEN UNCHANGED forgotten ELSE Forget(all)
    BY <1>2 DEF Claim
  <2> HIDE DEF mine, all
  <2>5. CASE records' = Kept(all)
    <3>1. \A j \in DOMAIN records' :
            records'[j].id = c \/ \E i \in DOMAIN records : records'[j] = records[i]
      BY <2>1, <2>4, <2>5, AddedLemma DEF mine, all
    <3> QED  BY <2>2, <3>1 DEF Final
  <2> QED  BY <1>1, <2>3, <2>5
<1>3. CASE Finish(c)
  <2> DEFINE state == IF calls[c].answer = "success" THEN "completed" ELSE "failed"
  <2>1. PICK stored \in BOOLEAN, ok \in BOOLEAN : Mutate(Finished(c, state, stored), ok)
    BY <1>3 DEF Finish
  <2>2. state \in Settled
    BY DEF Settled
  <2> HIDE DEF state
  <2> QED  BY <2>1, <2>2, SettleFinal
<1>4. CASE Catch(c)
  <2>1. PICK ok \in BOOLEAN : Mutate(Finished(c, "failed", TRUE), ok)
    BY <1>4 DEF Catch
  <2>2. "failed" \in Settled
    BY DEF Settled
  <2> QED  BY <2>1, <2>2, SettleFinal
<1>5. CASE Replay(c) \/ AuditIntent(c) \/ Execute(c) \/ AuditOutcome(c)
  <2>1. UNCHANGED records
    BY <1>5 DEF Replay, Mutate, AuditIntent, Execute, AuditOutcome
  <2> QED  BY <1>1, <2>1
<1> QED  BY <1>2, <1>3, <1>4, <1>5 DEF Step

(* A settled claim keeps its outcome: every retry it answers hears the same. *)
THEOREM OutcomesAreFinal == Spec => OutcomeIsFinal
<1>1. ASSUME Inductive, [Next]_vars PROVE Final
  <2>1. CASE UNCHANGED records
    BY <2>1 DEF Final
  <2>2. ASSUME NEW c \in Calls, Step(c) PROVE Final
    BY <2>2, <1>1, StepFinal
  <2>3. CASE RecordLapses
    <3>1. PICK k \in DOMAIN records : records' = RemoveAt(records, k)
      BY <2>3 DEF RecordLapses
    <3>2. records \in Seq(Record) /\ Len(records) \in Nat /\ DOMAIN records = 1 .. Len(records)
      BY <1>1 DEF Inductive, TypeOK
    <3>3. /\ records' \in Seq(Record) /\ Len(records') = Len(records) - 1
          /\ \A j \in 1 .. Len(records) - 1 :
               records'[j] = IF j < k THEN records[j] ELSE records[j + 1]
      BY <3>1, <3>2, RemoveAtLemma
    <3>4. \A j \in DOMAIN records' : \E i \in DOMAIN records : records'[j] = records[i]
      <4> TAKE j \in DOMAIN records'
      <4>1. j \in 1 .. Len(records) - 1
        BY <3>3
      <4>2. j \in DOMAIN records /\ j + 1 \in DOMAIN records
        BY <3>2, <4>1
      <4> QED  BY <3>3, <4>1, <4>2
    <3> QED  BY <3>4 DEF Final
  <2>4. CASE Restart
    <3>1. records' = [i \in DOMAIN records |->
            IF records[i].state = "in_progress"
            THEN [records[i] EXCEPT !.state = "unknown_outcome"] ELSE records[i]]
      BY <2>4 DEF Restart
    <3>2. \A i \in DOMAIN records : records[i] \in Record
      BY <1>1, RecordsLemma DEF Inductive
    <3>3. \A i \in DOMAIN records :
            records'[i].id = records[i].id /\ (records[i].state \in Settled => records'[i] = records[i])
      BY <3>1, <3>2 DEF Record, Settled
    <3>4. DOMAIN records' = DOMAIN records
      BY <3>1
    <3> QED  BY <3>3, <3>4 DEF Final
  <2>5. CASE ControlNext /\ UNCHANGED <<progress, faults>>
    BY <2>1, <2>5 DEF progress
  <2>6. CASE UNCHANGED vars
    BY <2>1, <2>6 DEF vars, progress
  <2>7. ASSUME NEW c \in Calls, NEW r \in Requests, NEW d \in Digests, NEW vouched \in BOOLEAN,
               Call(c, r, d, vouched)
        PROVE  Final
    BY <2>1, <2>7 DEF Call
  <2> QED  BY <1>1, <2>2, <2>3, <2>4, <2>5, <2>6, <2>7 DEF Next
<1>2. Inductive /\ [Next]_vars =>
        [\A i \in DOMAIN records, j \in DOMAIN records' :
           records[i].id = records'[j].id /\ records[i].state \in Settled => records'[j] = records[i]]_vars
  BY <1>1, FinalLemma
<1> QED  BY <1>2, InductiveAlways, PTL DEF Spec, OutcomeIsFinal
-----------------------------------------------------------------------------
(* The voice session that authorizes a call                                  *)

\* The active voice session was not stopped by its own browser, as far as remembered.
VoiceNotStopped ==
  voice # NoVoice =>
    \A i \in DOMAIN stopped : stopped[i].id = voice.id => voice.session \notin stopped[i].by

(* A stop leaves a tombstone and takes the voice session of its browser.     *)
LEMMA StopKeepsVoice ==
  ASSUME ControlTypeOK, VoiceNotStopped, NEW s \in Sessions, NEW v \in Voices, StopVoice(s, v)
  PROVE  VoiceNotStopped'
<1> DEFINE Tombstone == [id : Voices, by : SUBSET Sessions]
           new == [id |-> v, by |-> {s}]
           renewed == [i \in DOMAIN stopped |-> IF stopped[i].id = v
                         THEN [stopped[i] EXCEPT !.by = @ \union {s}] ELSE stopped[i]]
           all == IF v \in Stopped THEN renewed ELSE Append(stopped, new)
           Stems(t) ==
             \/ t = new
             \/ \E k \in DOMAIN stopped :
                  /\ t.id = stopped[k].id
                  /\ t.by = stopped[k].by \/ (t.id = v /\ t.by = stopped[k].by \union {s})
<1>1. /\ stopped \in Seq(Tombstone) /\ Len(stopped) \in Nat /\ DOMAIN stopped = 1 .. Len(stopped)
      /\ \A i \in DOMAIN stopped : stopped[i] \in Tombstone
  <2>1. stopped \in Seq(Tombstone)
    BY DEF ControlTypeOK
  <2> HIDE DEF Tombstone
  <2> QED  BY <2>1
<1>2. /\ renewed \in Seq(Tombstone) /\ DOMAIN renewed = DOMAIN stopped
      /\ \A i \in DOMAIN renewed : Stems(renewed[i])
  <2>1. ASSUME NEW i \in DOMAIN stopped
        PROVE  renewed[i] \in Tombstone /\ Stems(renewed[i])
    <3>1. stopped[i] \in Tombstone
      BY <1>1
    <3>2. CASE stopped[i].id = v
      <4>1. stopped[i].by \union {s} \in SUBSET Sessions
        BY <3>1
      <4>2. renewed[i] = [stopped[i] EXCEPT !.by = stopped[i].by \union {s}]
        BY <3>2
      <4>3. /\ renewed[i] \in Tombstone
            /\ renewed[i].id = v /\ renewed[i].by = stopped[i].by \union {s}
        BY <3>1, <3>2, <4>1, <4>2
      <4> HIDE DEF renewed
      <4> QED  BY <3>2, <4>3
    <3>3. CASE stopped[i].id # v
      <4>1. renewed[i] = stopped[i]
        BY <3>3
      <4> HIDE DEF renewed
      <4> QED  BY <3>1, <4>1
    <3> QED  BY <3>2, <3>3
  <2>2. renewed \in [1 .. Len(stopped) -> Tombstone]
    BY <1>1, <2>1
  <2> HIDE DEF renewed, Tombstone, Stems
  <2> QED  BY <1>1, <2>1, <2>2
<1>3. LET added == Append(stopped, new) IN
      added \in Seq(Tombstone) /\ \A i \in DOMAIN added : Stems(added[i])
  <2> DEFINE added == Append(stopped, new)
  <2>1. new \in Tombstone
    OBVIOUS
  <2> HIDE DEF Tombstone, new
  <2>2. /\ added \in Seq(Tombstone) /\ Len(added) = Len(stopped) + 1
        /\ \A i \in 1 .. Len(stopped) : added[i] = stopped[i]
        /\ added[Len(stopped) + 1] = new
    BY <1>1, <2>1, AppendProperties
  <2> HIDE DEF added
  <2>3. DOMAIN added = 1 .. Len(stopped) + 1
    BY <2>2
  <2>4. \A i \in DOMAIN added : added[i] = new \/ (i \in DOMAIN stopped /\ added[i] = stopped[i])
    BY <1>1, <2>2, <2>3
  <2>5. \A i \in DOMAIN added : Stems(added[i])
    BY <2>4
  <2> QED  BY <2>2, <2>5 DEF added
<1> HIDE DEF renewed, new
<1>4. all \in Seq(Tombstone) /\ \A i \in DOMAIN all : Stems(all[i])
  <2> HIDE DEF Tombstone, Stems
  <2> QED  BY <1>2, <1>3
<1>5. stopped' = IF Len(all) > MaxStopped THEN Tail(all) ELSE all
  BY DEF StopVoice, renewed, new
<1>6. \A i \in DOMAIN stopped' : Stems(stopped'[i])
  <2> HIDE DEF all, Stems, Tombstone
  <2>1. CASE Len(all) > MaxStopped
    <3>1. all # <<>> /\ Len(all) \in Nat /\ DOMAIN all = 1 .. Len(all)
      BY <1>4, <2>1, BrowserControlAssumption
    <3>2. /\ Tail(all) \in Seq(Tombstone) /\ Len(Tail(all)) = Len(all) - 1
          /\ \A i \in 1 .. Len(Tail(all)) : Tail(all)[i] = all[i + 1]
      BY <1>4, <3>1, HeadTailProperties
    <3>3. \A i \in DOMAIN stopped' : i + 1 \in DOMAIN all /\ stopped'[i] = all[i + 1]
      BY <1>5, <2>1, <3>1, <3>2
    <3> QED  BY <1>4, <3>3
  <2> QED  BY <1>4, <1>5, <2>1
<1>7. voice' = IF voice = [session |-> s, id |-> v] THEN NoVoice ELSE voice
  BY DEF StopVoice
<1>8. voice \in [session : Sessions, id : Voices] \union {NoVoice}
  BY DEF ControlTypeOK
<1> HIDE DEF all, Tombstone
<1> SUFFICES ASSUME voice' # NoVoice, NEW i \in DOMAIN stopped', stopped'[i].id = voice'.id
             PROVE  voice'.session \notin stopped'[i].by
  BY DEF VoiceNotStopped
<1>9. voice' = voice /\ voice # NoVoice /\ (voice.session # s \/ voice.id # v)
  BY <1>7, <1>8
<1>10. \A k \in DOMAIN stopped : stopped[k].id = voice.id => voice.session \notin stopped[k].by
  BY <1>9 DEF VoiceNotStopped
<1>11. Stems(stopped'[i])
  BY <1>6
<1>12. CASE stopped'[i] = new
  BY <1>9, <1>12 DEF new
<1>13. CASE \E k \in DOMAIN stopped :
              /\ stopped'[i].id = stopped[k].id
              /\ \/ stopped'[i].by = stopped[k].by
                 \/ stopped'[i].id = v /\ stopped'[i].by = stopped[k].by \union {s}
  BY <1>9, <1>10, <1>13
<1> QED  BY <1>11, <1>12, <1>13

(* So does every other step of browser control.                              *)
LEMMA ControlKeepsVoice ==
  ASSUME ControlTypeOK, VoiceNotStopped, ControlNext \/ RevokeVoice PROVE VoiceNotStopped'
<1>1. ASSUME NEW s \in Sessions, Connect(s) \/ Take(s) \/ Release(s) PROVE VoiceNotStopped'
  BY <1>1 DEF VoiceNotStopped, Connect, Take, Release
<1>2. ASSUME NEW s \in Sessions, NEW v \in Voices, StartVoice(s, v) PROVE VoiceNotStopped'
  BY <1>2 DEF VoiceNotStopped, StartVoice, Stopped
<1>3. ASSUME NEW s \in Sessions, NEW v \in Voices, StopVoice(s, v) PROVE VoiceNotStopped'
  BY <1>3, StopKeepsVoice
<1>4. CASE LeaseLapses \/ VoiceLapses \/ RevokeVoice
  BY <1>4 DEF VoiceNotStopped, LeaseLapses, VoiceLapses, RevokeVoice
<1>5. CASE TombstoneLapses
  <2> DEFINE Tombstone == [id : Voices, by : SUBSET Sessions]
  <2>1. PICK i \in DOMAIN stopped : stopped' = RemoveAt(stopped, i) /\ voice' = voice
    BY <1>5 DEF TombstoneLapses
  <2>2. stopped \in Seq(Tombstone)
    BY DEF ControlTypeOK
  <2> HIDE DEF Tombstone
  <2>3. Len(stopped) \in Nat /\ DOMAIN stopped = 1 .. Len(stopped)
    BY <2>2
  <2>4. /\ stopped' \in Seq(Tombstone) /\ Len(stopped') = Len(stopped) - 1
        /\ \A j \in 1 .. Len(stopped) - 1 :
             stopped'[j] = IF j < i THEN stopped[j] ELSE stopped[j + 1]
    BY <2>1, <2>2, RemoveAtLemma
  <2>5. \A j \in DOMAIN stopped' : \E k \in DOMAIN stopped : stopped'[j] = stopped[k]
    <3> TAKE j \in DOMAIN stopped'
    <3>1. j \in 1 .. Len(stopped) - 1
      BY <2>4
    <3>2. j \in DOMAIN stopped /\ j + 1 \in DOMAIN stopped
      BY <2>3, <3>1
    <3> QED  BY <2>4, <3>1, <3>2
  <2> QED  BY <2>1, <2>5 DEF VoiceNotStopped
<1> QED  BY <1>1, <1>2, <1>3, <1>4, <1>5 DEF ControlNext

(* Every call that browser control lets through has the live voice session   *)
(* of the browser that owns the console, which that browser did not stop.    *)
THEOREM OnlyTheOwnersVoiceAlways == Spec => OnlyTheOwnersVoice
<1>1. Init => VoiceNotStopped
  BY DEF Init, ControlInit, VoiceNotStopped
<1>2. ASSUME Inductive, VoiceNotStopped, [Next]_vars PROVE VoiceNotStopped'
  <2>1. ControlTypeOK
    BY <1>2 DEF Inductive, TypeOK
  <2>2. CASE UNCHANGED control
    BY <1>2, <2>2 DEF control, VoiceNotStopped
  <2>3. CASE ControlNext \/ RevokeVoice
    BY <1>2, <2>1, <2>3, ControlKeepsVoice
  <2>4. CASE Restart
    BY <2>4 DEF Restart, VoiceNotStopped
  <2>5. ASSUME NEW c \in Calls, NEW r \in Requests, NEW d \in Digests, NEW vouched \in BOOLEAN,
               Call(c, r, d, vouched)
        PROVE  VoiceNotStopped'
    BY <2>2, <2>3, <2>5 DEF Call
  <2>6. ASSUME NEW c \in Calls, Step(c) PROVE VoiceNotStopped'
    <3>1. UNCHANGED control
      BY <2>6 DEF Step, Claim, Replay, AuditIntent, Execute, Finish, Catch, AuditOutcome
    <3> QED  BY <2>2, <3>1
  <2>7. CASE RecordLapses
    BY <2>2, <2>7 DEF RecordLapses
  <2>8. CASE UNCHANGED vars
    BY <2>2, <2>8 DEF vars
  <2> QED  BY <1>2, <2>3, <2>4, <2>5, <2>6, <2>7, <2>8 DEF Next
<1>3. ASSUME Inductive, VoiceNotStopped, NEW c \in Calls, NEW r \in Requests, NEW d \in Digests,
             Call(c, r, d, FALSE), calls'[c].pc = "claim"
      PROVE  /\ live /\ owner = voice.session
             /\ \A i \in DOMAIN stopped : stopped[i].id = voice.id => owner \notin stopped[i].by
  <2>1. calls \in [Calls -> CallType]
    BY <1>3, CallTypeLemma DEF Inductive
  <2>2. Authorizes
    BY <1>3, <2>1 DEF Call
  <2>3. voice # NoVoice /\ voice \in [session : Sessions, id : Voices] /\ voice.session # None
    BY <1>3, <2>2, BrowserControlAssumption DEF Authorizes, Inductive, TypeOK, ControlTypeOK
  <2>4. live /\ owner = voice.session
    BY <2>2, <2>3 DEF Authorizes, LiveOwner
  <2> QED  BY <1>3, <2>3, <2>4 DEF VoiceNotStopped
<1>4. Inductive /\ VoiceNotStopped /\ [Next]_vars =>
        [\A c \in Calls, r \in Requests, d \in Digests : Call(c, r, d, FALSE) /\ calls'[c].pc = "claim" =>
           /\ live /\ owner = voice.session
           /\ \A i \in DOMAIN stopped : stopped[i].id = voice.id => owner \notin stopped[i].by]_vars
  BY <1>3
<1>5. Inductive /\ VoiceNotStopped /\ [Next]_vars => VoiceNotStopped'
  BY <1>2
<1> QED  BY <1>1, <1>4, <1>5, InductiveAlways, PTL DEF Spec, OnlyTheOwnersVoice
=============================================================================
