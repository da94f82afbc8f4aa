-------------------------- MODULE PromptQueueProofs --------------------------
(***************************************************************************)
(* Proofs about PromptQueue for every set of scopes, prompts and texts and *)
(* every value of the caps.                                                *)
(***************************************************************************)
EXTENDS PromptQueue, FiniteSetTheorems, TLAPS
-----------------------------------------------------------------------------
(* The inductive invariant behind the safety theorems: what the clone of the *)
(* head call may differ in from the file while it waits to be written.       *)
Inductive ==
  /\ TypeOK
  /\ EachIdOnce
  /\ NoEmptyScope
  /\ AcceptedIsDurable
  /\ WithdrawnStaysOut
  /\ IdsIn(file) \union withdrawn \subseteq issued
  /\ stage # "idle" => loaded /\ mutation # <<>>
  /\ loaded /\ stage # "publishing" => stored = file
  /\ stage = "publishing" => draft = file
  /\ stage = "using" =>
       /\ Running.op = "consumeOnSuccess"
       /\ Positions(QueueOf(file, Running.scope), Running.id) # {}
  /\ stage = "writing" =>
       /\ UniqueIds(draft)
       /\ NoEmptyQueue(draft)
       /\ IdsIn(draft) \subseteq issued
       /\ IdsIn(draft) \intersect withdrawn = {}
       /\ IdsIn(file) \subseteq IdsIn(draft) \union Taken(file)
       /\ IdsIn(draft) \intersect Taken(file) = {}
-----------------------------------------------------------------------------
(* What a stored file holds: queues of prompts, indexed from 1.             *)
LEMMA EntryLemma ==
  ASSUME NEW st, IsStored(st), NEW s \in DOMAIN st
  PROVE  /\ st[s] \in Queue
         /\ Len(st[s]) \in Nat
         /\ DOMAIN st[s] = 1 .. Len(st[s])
         /\ \A i \in DOMAIN st[s] : st[s][i] \in Prompt /\ st[s][i].id \in Ids
<1>1. st[s] \in Seq(Prompt)
  BY DEF IsStored, Queue
<1>2. DOMAIN st[s] = 1 .. Len(st[s]) /\ Len(st[s]) \in Nat
  BY <1>1
<1>3. \A i \in DOMAIN st[s] : st[s][i] \in Prompt
  BY <1>1, <1>2
<1>4. \A x \in Prompt : x.id \in Ids
  BY DEF Prompt
<1> QED  BY <1>1, <1>2, <1>3, <1>4 DEF Queue

(* Appending to a queue, as enqueue does, adds one id and keeps every other. *)
LEMMA EnqueuedLemma ==
  ASSUME NEW st, IsStored(st), NEW s \in Scopes, NEW p \in Prompt
  PROVE  /\ IsStored(Enqueued(st, s, p))
         /\ IdsIn(Enqueued(st, s, p)) = IdsIn(st) \union {p.id}
         /\ NoEmptyQueue(st) => NoEmptyQueue(Enqueued(st, s, p))
         /\ UniqueIds(st) /\ p.id \notin IdsIn(st) => UniqueIds(Enqueued(st, s, p))
<1> DEFINE q == QueueOf(st, s)
           new == Enqueued(st, s, p)
<1>1. q \in Queue /\ (s \in DOMAIN st => q = st[s]) /\ (s \notin DOMAIN st => q = <<>>)
  BY DEF IsStored, QueueOf, Queue
<1>2. /\ Append(q, p) \in Queue
      /\ DOMAIN Append(q, p) = 1 .. Len(q) + 1
      /\ DOMAIN q = 1 .. Len(q)
      /\ \A i \in 1 .. Len(q) : Append(q, p)[i] = q[i]
      /\ Append(q, p)[Len(q) + 1] = p
      /\ Len(q) \in Nat
  BY <1>1 DEF Queue
<1>3. /\ DOMAIN new = DOMAIN st \union {s}
      /\ new[s] = Append(q, p)
      /\ \A t \in DOMAIN st \ {s} : new[t] = st[t]
  BY DEF Enqueued, Put
<1>4. IsStored(new)
  BY <1>1, <1>2, <1>3 DEF IsStored, Enqueued, Put
<1>5. IdsIn(new) = IdsIn(st) \union {p.id}
  <2>1. ASSUME NEW id \in IdsIn(new) PROVE id \in IdsIn(st) \union {p.id}
    <3>1. PICK t \in DOMAIN new : \E i \in DOMAIN new[t] : new[t][i].id = id
      BY <2>1 DEF IdsIn, IdsOf
    <3>2. PICK i \in DOMAIN new[t] : new[t][i].id = id
      BY <3>1
    <3>3. id \in Ids
      BY <2>1 DEF IdsIn
    <3>4. CASE t # s
      BY <3>2, <3>3, <3>4, <1>3 DEF IdsIn, IdsOf
    <3>5. CASE t = s /\ i = Len(q) + 1
      BY <3>2, <3>5, <1>2, <1>3
    <3>6. CASE t = s /\ i # Len(q) + 1
      <4>1. i \in DOMAIN q /\ q[i].id = id
        BY <3>2, <3>6, <1>2, <1>3
      <4>2. s \in DOMAIN st /\ q = st[s]
        BY <4>1, <1>1
      <4> QED  BY <4>1, <4>2, <3>3 DEF IdsIn, IdsOf
    <3> QED  BY <3>4, <3>5, <3>6
  <2>2. p.id \in IdsIn(new)
    <3>1. s \in DOMAIN new /\ Len(q) + 1 \in DOMAIN new[s] /\ new[s][Len(q) + 1].id = p.id
      BY <1>2, <1>3
    <3> QED  BY <3>1 DEF IdsIn, IdsOf, Prompt
  <2>3. ASSUME NEW id \in IdsIn(st) PROVE id \in IdsIn(new)
    <3>1. PICK t \in DOMAIN st : \E i \in DOMAIN st[t] : st[t][i].id = id
      BY <2>3 DEF IdsIn, IdsOf
    <3>2. PICK i \in DOMAIN st[t] : st[t][i].id = id
      BY <3>1
    <3>3. t \in DOMAIN new /\ i \in DOMAIN new[t] /\ new[t][i] = st[t][i]
      BY <3>2, <1>1, <1>2, <1>3
    <3> QED  BY <3>2, <3>3, <2>3 DEF IdsIn, IdsOf
  <2> QED  BY <2>1, <2>2, <2>3
<1>6. ASSUME NoEmptyQueue(st) PROVE NoEmptyQueue(new)
  BY <1>6, <1>2, <1>3 DEF NoEmptyQueue
<1>7. ASSUME UniqueIds(st), p.id \notin IdsIn(st) PROVE UniqueIds(new)
  <2> SUFFICES ASSUME NEW t \in DOMAIN new, NEW u \in DOMAIN new,
                      NEW i \in DOMAIN new[t], NEW j \in DOMAIN new[u],
                      new[t][i].id = new[u][j].id
               PROVE  t = u /\ i = j
    BY DEF UniqueIds
  <2>1. ASSUME NEW v \in DOMAIN new, NEW k \in DOMAIN new[v]
        PROVE  \/ v = s /\ k = Len(q) + 1 /\ new[v][k].id = p.id
               \/ v \in DOMAIN st /\ k \in DOMAIN st[v] /\ new[v][k] = st[v][k]
                  /\ new[v][k].id # p.id
    <3>1. CASE v = s /\ k = Len(q) + 1
      BY <3>1, <1>2, <1>3
    <3>2. CASE ~ (v = s /\ k = Len(q) + 1)
      <4>1. v \in DOMAIN st /\ k \in DOMAIN st[v] /\ new[v][k] = st[v][k]
        BY <3>2, <2>1, <1>1, <1>2, <1>3
      <4>2. st[v][k].id \in Ids
        BY <4>1, EntryLemma
      <4>3. st[v][k].id \in IdsIn(st)
        BY <4>1, <4>2 DEF IdsIn, IdsOf
      <4> QED  BY <4>1, <4>3, <1>7
    <3> QED  BY <3>1, <3>2
  <2>2. CASE t = s /\ i = Len(q) + 1 /\ new[t][i].id = p.id
    BY <2>1, <2>2
  <2>3. CASE u = s /\ j = Len(q) + 1 /\ new[u][j].id = p.id
    BY <2>1, <2>3
  <2>4. CASE /\ t \in DOMAIN st /\ i \in DOMAIN st[t] /\ new[t][i] = st[t][i]
             /\ u \in DOMAIN st /\ j \in DOMAIN st[u] /\ new[u][j] = st[u][j]
    BY <2>4, <1>7 DEF UniqueIds
  <2> QED  BY <2>1, <2>2, <2>3, <2>4
<1> QED  BY <1>4, <1>5, <1>6, <1>7

(* Replacing one queue by another whose entries carry the same ids, one for  *)
(* one, keeps the ids of the file and their uniqueness (update and move).    *)
LEMMA ReplacedLemma ==
  ASSUME NEW st, IsStored(st), NEW s \in DOMAIN st, NEW new, IsStored(new),
         DOMAIN new = DOMAIN st,
         \A t \in DOMAIN st \ {s} : new[t] = st[t],
         DOMAIN new[s] = DOMAIN st[s],
         NEW f \in [DOMAIN st[s] -> DOMAIN st[s]],
         \A i \in DOMAIN st[s] : f[f[i]] = i,
         \A i \in DOMAIN st[s] : new[s][i].id = st[s][f[i]].id
  PROVE  /\ IdsIn(new) = IdsIn(st)
         /\ NoEmptyQueue(st) => NoEmptyQueue(new)
         /\ UniqueIds(st) => UniqueIds(new)
<1>1. IdsOf(new[s]) = IdsOf(st[s])
  <2>1. \A i \in DOMAIN st[s] : f[i] \in DOMAIN st[s] /\ st[s][i].id = new[s][f[i]].id
    OBVIOUS
  <2> QED  BY <2>1 DEF IdsOf
<1>2. IdsIn(new) = IdsIn(st)
  <2>1. \A t \in DOMAIN st : IdsOf(new[t]) = IdsOf(st[t])
    BY <1>1
  <2> QED  BY <2>1 DEF IdsIn
<1>3. ASSUME NoEmptyQueue(st) PROVE NoEmptyQueue(new)
  <2> SUFFICES ASSUME NEW t \in DOMAIN new PROVE new[t] # <<>>
    BY DEF NoEmptyQueue
  <2>1. CASE t # s  BY <2>1, <1>3 DEF NoEmptyQueue
  <2>2. CASE t = s
    <3>1. st[s] # <<>> /\ st[s] \in Seq(Prompt) /\ new[s] \in Seq(Prompt)
      BY <1>3, EntryLemma DEF NoEmptyQueue, Queue
    <3>2. 1 \in DOMAIN st[s]
      BY <3>1
    <3> QED  BY <3>1, <3>2, <2>2
  <2> QED  BY <2>1, <2>2
<1>4. ASSUME UniqueIds(st) PROVE UniqueIds(new)
  <2> SUFFICES ASSUME NEW t \in DOMAIN new, NEW u \in DOMAIN new,
                      NEW i \in DOMAIN new[t], NEW j \in DOMAIN new[u],
                      new[t][i].id = new[u][j].id
               PROVE  t = u /\ i = j
    BY DEF UniqueIds
  <2> DEFINE At(v, k) == IF v = s THEN f[k] ELSE k
  <2>1. \A v \in DOMAIN new : \A k \in DOMAIN new[v] :
          At(v, k) \in DOMAIN st[v] /\ new[v][k].id = st[v][At(v, k)].id
    OBVIOUS
  <2>2. t = u /\ At(t, i) = At(u, j)
    <3> HIDE DEF At
    <3> QED  BY <2>1, <1>4 DEF UniqueIds
  <2>3. CASE t = s
    <3>1. i \in DOMAIN st[s] /\ j \in DOMAIN st[s] /\ f[i] = f[j]
      BY <2>2, <2>3
    <3> QED  BY <3>1, <2>2
  <2>4. CASE t # s
    BY <2>2, <2>4
  <2> QED  BY <2>3, <2>4
<1> QED  BY <1>2, <1>3, <1>4

(* update changes a text and nothing else.                                  *)
LEMMA RewrittenLemma ==
  ASSUME NEW st, IsStored(st), NEW s \in DOMAIN st, NEW i \in DOMAIN st[s],
         NEW text \in Texts
  PROVE  /\ IsStored(Rewritten(st, s, i, text))
         /\ IdsIn(Rewritten(st, s, i, text)) = IdsIn(st)
         /\ NoEmptyQueue(st) => NoEmptyQueue(Rewritten(st, s, i, text))
         /\ UniqueIds(st) => UniqueIds(Rewritten(st, s, i, text))
<1> DEFINE new == Rewritten(st, s, i, text)
           f == [k \in DOMAIN st[s] |-> k]
<1>1. st[s] \in Seq(Prompt) /\ DOMAIN st[s] = 1 .. Len(st[s]) /\ Len(st[s]) \in Nat
      /\ \A k \in DOMAIN st[s] : st[s][k] \in Prompt
  BY EntryLemma DEF Queue
<1>2. DOMAIN new = DOMAIN st /\ \A t \in DOMAIN st \ {s} : new[t] = st[t]
  BY DEF Rewritten
<1>3. new[s] = [st[s] EXCEPT ![i] = [st[s][i] EXCEPT !.text = text]]
  BY DEF Rewritten
<1>4. [st[s][i] EXCEPT !.text = text] \in Prompt
      /\ [st[s][i] EXCEPT !.text = text].id = st[s][i].id
  BY <1>1 DEF Prompt
<1>5. DOMAIN new[s] = DOMAIN st[s] /\ \A k \in DOMAIN st[s] : new[s][k].id = st[s][k].id
  BY <1>3, <1>4
<1>6. new[s] \in Seq(Prompt)
  BY <1>1, <1>3, <1>4
<1>7. IsStored(new)
  BY <1>2, <1>6 DEF IsStored, Queue, Rewritten
<1>8. /\ f \in [DOMAIN st[s] -> DOMAIN st[s]]
      /\ \A k \in DOMAIN st[s] : f[f[k]] = k
      /\ \A k \in DOMAIN st[s] : new[s][k].id = st[s][f[k]].id
  BY <1>5
<1> HIDE DEF new, f
<1> QED  BY <1>2, <1>5, <1>7, <1>8, ReplacedLemma DEF new

(* move exchanges two neighbours and nothing else.                          *)
LEMMA SwappedLemma ==
  ASSUME NEW st, IsStored(st), NEW s \in DOMAIN st,
         NEW i \in DOMAIN st[s], NEW j \in DOMAIN st[s]
  PROVE  /\ IsStored(Swapped(st, s, i, j))
         /\ IdsIn(Swapped(st, s, i, j)) = IdsIn(st)
         /\ NoEmptyQueue(st) => NoEmptyQueue(Swapped(st, s, i, j))
         /\ UniqueIds(st) => UniqueIds(Swapped(st, s, i, j))
<1> DEFINE new == Swapped(st, s, i, j)
           f == [k \in DOMAIN st[s] |-> IF k = i THEN j ELSE IF k = j THEN i ELSE k]
<1>1. st[s] \in Seq(Prompt) /\ DOMAIN st[s] = 1 .. Len(st[s]) /\ Len(st[s]) \in Nat
      /\ \A k \in DOMAIN st[s] : st[s][k] \in Prompt
  BY EntryLemma DEF Queue
<1>2. DOMAIN new = DOMAIN st /\ \A t \in DOMAIN st \ {s} : new[t] = st[t]
  BY DEF Swapped
<1>3. new[s] = [st[s] EXCEPT ![i] = st[s][j], ![j] = st[s][i]]
  BY DEF Swapped
<1>4. DOMAIN new[s] = DOMAIN st[s] /\ \A k \in DOMAIN st[s] : new[s][k] = st[s][f[k]]
  BY <1>3
<1>5. new[s] \in Seq(Prompt)
  BY <1>1, <1>3
<1>6. IsStored(new)
  BY <1>2, <1>5 DEF IsStored, Queue, Swapped
<1>7. f \in [DOMAIN st[s] -> DOMAIN st[s]] /\ \A k \in DOMAIN st[s] : f[f[k]] = k
  OBVIOUS
<1>8. \A k \in DOMAIN st[s] : new[s][k].id = st[s][f[k]].id
  BY <1>4
<1> HIDE DEF new, f
<1> QED  BY <1>2, <1>4, <1>6, <1>7, <1>8, ReplacedLemma DEF new

(* When every place of a new file takes its entry from a different place of  *)
(* the old one, no id becomes duplicated and none appears.                   *)
LEMMA EmbeddedLemma ==
  ASSUME NEW st, IsStored(st), NEW new, IsStored(new),
         NEW f \in [Slots(new) -> Slots(st)],
         \A a, b \in Slots(new) : f[a] = f[b] => a = b,
         \A a \in Slots(new) : new[a[1]][a[2]].id = st[f[a][1]][f[a][2]].id
  PROVE  /\ IdsIn(new) \subseteq IdsIn(st)
         /\ UniqueIds(st) => UniqueIds(new)
<1>1. \A v : \A t, k : <<t, k>> \in Slots(v) <=> t \in DOMAIN v /\ k \in DOMAIN v[t]
  BY DEF Slots
<1>2. \A a \in Slots(st) : a = <<a[1], a[2]>> /\ a[1] \in DOMAIN st /\ a[2] \in DOMAIN st[a[1]]
  BY DEF Slots
<1>3. ASSUME NEW id \in IdsIn(new) PROVE id \in IdsIn(st)
  <2>1. PICK t \in DOMAIN new : \E k \in DOMAIN new[t] : new[t][k].id = id
    BY <1>3 DEF IdsIn, IdsOf
  <2>2. PICK k \in DOMAIN new[t] : new[t][k].id = id
    BY <2>1
  <2>3. <<t, k>> \in Slots(new)
    BY <1>1
  <2>4. st[f[<<t, k>>][1]][f[<<t, k>>][2]].id = id
    BY <2>2, <2>3
  <2> QED  BY <2>3, <2>4, <1>2, <1>3 DEF IdsIn, IdsOf
<1>4. ASSUME UniqueIds(st) PROVE UniqueIds(new)
  <2> SUFFICES ASSUME NEW t \in DOMAIN new, NEW u \in DOMAIN new,
                      NEW i \in DOMAIN new[t], NEW j \in DOMAIN new[u],
                      new[t][i].id = new[u][j].id
               PROVE  t = u /\ i = j
    BY DEF UniqueIds
  <2> DEFINE a == <<t, i>>
             b == <<u, j>>
  <2>1. a \in Slots(new) /\ b \in Slots(new)
    BY <1>1
  <2>2. new[a[1]][a[2]].id = new[b[1]][b[2]].id
    OBVIOUS
  <2>3. st[f[a][1]][f[a][2]].id = st[f[b][1]][f[b][2]].id
    <3> HIDE DEF a, b
    <3> QED  BY <2>1, <2>2
  <2>4. f[a][1] = f[b][1] /\ f[a][2] = f[b][2]
    <3> HIDE DEF a, b
    <3>1. f[a] \in Slots(st) /\ f[b] \in Slots(st)
      BY <2>1
    <3> QED  BY <3>1, <2>3, <1>2, <1>4 DEF UniqueIds
  <2>5. f[a] = f[b]
    <3> HIDE DEF a, b
    <3> QED  BY <2>1, <2>4, <1>2
  <2>6. a = b
    <3> HIDE DEF a, b
    <3> QED  BY <2>1, <2>5
  <2> QED  BY <2>6
<1> QED  BY <1>3, <1>4

(* Every entry of a new file was an entry of the old one, at a place of its  *)
(* own.                                                                      *)
EntriesOf(new, st) ==
  \E f \in [Slots(new) -> Slots(st)] :
    /\ \A a, b \in Slots(new) : f[a] = f[b] => a = b
    /\ \A a \in Slots(new) : new[a[1]][a[2]] = st[f[a][1]][f[a][2]]

(* remove takes out one entry and keeps the rest in their order.             *)
LEMMA RemovedLemma ==
  ASSUME NEW st, IsStored(st), NEW s \in DOMAIN st, NEW i \in DOMAIN st[s]
  PROVE  /\ IsStored(Removed(st, s, i))
         /\ IdsIn(Removed(st, s, i)) \subseteq IdsIn(st)
         /\ IdsIn(st) \subseteq IdsIn(Removed(st, s, i)) \union {st[s][i].id}
         /\ NoEmptyQueue(st) => NoEmptyQueue(Removed(st, s, i))
         /\ UniqueIds(st) => /\ UniqueIds(Removed(st, s, i))
                             /\ st[s][i].id \notin IdsIn(Removed(st, s, i))
         /\ EntriesOf(Removed(st, s, i), st)
<1> DEFINE q == st[s]
           w == Without(q, i)
           new == Removed(st, s, i)
<1>1. q \in Seq(Prompt) /\ DOMAIN q = 1 .. Len(q) /\ Len(q) \in Nat /\ i \in 1 .. Len(q)
      /\ \A k \in 1 .. Len(q) : q[k] \in Prompt
  BY EntryLemma DEF Queue
<1>2. /\ DOMAIN w = 1 .. Len(q) - 1
      /\ \A k \in 1 .. Len(q) - 1 : w[k] = IF k < i THEN q[k] ELSE q[k + 1]
  BY DEF Without
<1>3. Len(q) - 1 \in Nat /\ \A k \in 1 .. Len(q) - 1 : w[k] \in Prompt
  BY <1>1, <1>2
<1>4. w \in Seq(Prompt)
  <2>1. w \in [1 .. Len(q) - 1 -> Prompt]
    <3>1. w = [k \in 1 .. Len(q) - 1 |-> w[k]]
      BY DEF Without
    <3> HIDE DEF w, q
    <3> QED  BY <3>1, <1>3
  <2> HIDE DEF w, q
  <2> QED  BY <2>1, <1>3
<1>5. /\ w = <<>> => DOMAIN new = DOMAIN st \ {s}
      /\ w # <<>> => DOMAIN new = DOMAIN st /\ new[s] = w
      /\ \A t \in DOMAIN st \ {s} : new[t] = st[t]
  BY DEF Removed, PutOrDelete, Put, Delete
<1>6. DOMAIN new \subseteq DOMAIN st /\ (s \in DOMAIN new => new[s] = w)
  BY <1>5
<1>7. IsStored(new)
  <2>1. \A t \in DOMAIN new : new[t] \in Seq(Prompt)
    BY <1>4, <1>5, <1>6, EntryLemma DEF Queue
  <2>2. new = [t \in DOMAIN new |-> new[t]]
    BY DEF Removed, PutOrDelete, Put, Delete
  <2> HIDE DEF new
  <2> QED  BY <2>1, <2>2, <1>6 DEF IsStored, Queue
<1> DEFINE f == [a \in Slots(new) |->
                  <<a[1], IF a[1] = s /\ a[2] >= i THEN a[2] + 1 ELSE a[2]>>]
<1>8. \A a \in Slots(new) :
        /\ a = <<a[1], a[2]>> /\ a[1] \in DOMAIN new /\ a[2] \in DOMAIN new[a[1]]
        /\ a[2] \in Nat
  <2>1. \A a \in Slots(new) :
          a = <<a[1], a[2]>> /\ a[1] \in DOMAIN new /\ a[2] \in DOMAIN new[a[1]]
    BY DEF Slots
  <2>2. \A t \in DOMAIN new : DOMAIN new[t] \subseteq Nat
    BY <1>7, EntryLemma
  <2> QED  BY <2>1, <2>2
<1>9. \A a \in Slots(new) :
        /\ f[a][1] = a[1] /\ f[a][1] \in DOMAIN st
        /\ f[a][2] \in DOMAIN st[a[1]]
        /\ new[a[1]][a[2]] = st[f[a][1]][f[a][2]]
        /\ ~ (f[a][1] = s /\ f[a][2] = i)
  <2> SUFFICES ASSUME NEW a \in Slots(new)
               PROVE  /\ f[a][1] = a[1] /\ f[a][1] \in DOMAIN st
                      /\ f[a][2] \in DOMAIN st[a[1]]
                      /\ new[a[1]][a[2]] = st[f[a][1]][f[a][2]]
                      /\ ~ (f[a][1] = s /\ f[a][2] = i)
    OBVIOUS
  <2>1. f[a][1] = a[1] /\ f[a][2] = IF a[1] = s /\ a[2] >= i THEN a[2] + 1 ELSE a[2]
    OBVIOUS
  <2>2. a[1] \in DOMAIN new /\ a[2] \in DOMAIN new[a[1]] /\ a[2] \in Nat
    BY <1>8
  <2> HIDE DEF f, new
  <2>3. CASE a[1] # s
    BY <2>1, <2>2, <2>3, <1>5, <1>6
  <2>4. CASE a[1] = s
    <3>1. new[s] = w /\ a[2] \in 1 .. Len(q) - 1
      BY <2>2, <2>4, <1>2, <1>6
    <3> HIDE DEF w
    <3> QED  BY <3>1, <2>1, <2>2, <2>4, <1>1, <1>2, <1>6
  <2> QED  BY <2>3, <2>4
<1>10. f \in [Slots(new) -> Slots(st)]
  <2>1. \A a \in Slots(new) : f[a] = <<f[a][1], f[a][2]>>
    OBVIOUS
  <2>2. \A a \in Slots(new) : f[a] \in Slots(st)
    <3> HIDE DEF f, new
    <3> QED  BY <2>1, <1>9 DEF Slots
  <2>3. f = [a \in Slots(new) |-> f[a]]
    OBVIOUS
  <2> HIDE DEF f, new
  <2> QED  BY <2>2, <2>3
<1>11. \A a, b \in Slots(new) : f[a] = f[b] => a = b
  <2> SUFFICES ASSUME NEW a \in Slots(new), NEW b \in Slots(new), f[a] = f[b]
               PROVE  a[1] = b[1] /\ a[2] = b[2]
    BY <1>8
  <2>1. a[2] \in Nat /\ b[2] \in Nat
    BY <1>8
  <2>2. <<a[1], IF a[1] = s /\ a[2] >= i THEN a[2] + 1 ELSE a[2]>>
         = <<b[1], IF b[1] = s /\ b[2] >= i THEN b[2] + 1 ELSE b[2]>>
    OBVIOUS
  <2>3. a[1] = b[1]
    BY <2>2
  <2>4. (IF a[1] = s /\ a[2] >= i THEN a[2] + 1 ELSE a[2])
          = (IF a[1] = s /\ b[2] >= i THEN b[2] + 1 ELSE b[2])
    BY <2>2, <2>3
  <2>5. i \in Nat
    BY <1>1
  <2>6. a[2] = b[2]
    <3> HIDE DEF f, new
    <3> QED  BY <2>1, <2>4, <2>5
  <2> QED  BY <2>3, <2>6
<1>12. IdsIn(new) \subseteq IdsIn(st) /\ (UniqueIds(st) => UniqueIds(new))
  <2> HIDE DEF f, new
  <2> QED  BY <1>7, <1>9, <1>10, <1>11, EmbeddedLemma
<1>13. IdsIn(st) \subseteq IdsIn(new) \union {st[s][i].id}
  <2> SUFFICES ASSUME NEW id \in IdsIn(st), id # st[s][i].id PROVE id \in IdsIn(new)
    OBVIOUS
  <2>1. PICK t \in DOMAIN st : \E k \in DOMAIN st[t] : st[t][k].id = id
    BY DEF IdsIn, IdsOf
  <2>2. PICK k \in DOMAIN st[t] : st[t][k].id = id
    BY <2>1
  <2>3. id \in Ids
    BY DEF IdsIn
  <2> SUFFICES \E u \in DOMAIN new : \E l \in DOMAIN new[u] : new[u][l].id = id
    BY <2>3 DEF IdsIn, IdsOf
  <2> HIDE DEF new
  <2>4. CASE t # s
    BY <2>2, <2>4, <1>5
  <2>5. CASE t = s
    <3> DEFINE l == IF k < i THEN k ELSE k - 1
    <3>1. k \in 1 .. Len(q) /\ k # i
      BY <2>2, <2>5, <1>1
    <3> HIDE DEF w
    <3>2. l \in 1 .. Len(q) - 1 /\ w[l] = q[k]
      BY <3>1, <1>1, <1>2
    <3>3. w # <<>>
      <4>1. l \in DOMAIN w
        BY <3>2, <1>2
      <4> QED  BY <4>1
    <3> QED  BY <3>2, <3>3, <1>2, <1>5, <2>2, <2>5
  <2> QED  BY <2>4, <2>5
<1>14. ASSUME NoEmptyQueue(st) PROVE NoEmptyQueue(new)
  <2> HIDE DEF new
  <2> QED  BY <1>14, <1>5, <1>6 DEF NoEmptyQueue
<1>15. ASSUME UniqueIds(st) PROVE st[s][i].id \notin IdsIn(new)
  <2> SUFFICES ASSUME st[s][i].id \in IdsIn(new) PROVE FALSE
    OBVIOUS
  <2>1. PICK t \in DOMAIN new : \E k \in DOMAIN new[t] : new[t][k].id = st[s][i].id
    BY DEF IdsIn, IdsOf
  <2>2. PICK k \in DOMAIN new[t] : new[t][k].id = st[s][i].id
    BY <2>1
  <2> DEFINE a == <<t, k>>
  <2>3. a \in Slots(new)
    BY <2>2 DEF Slots
  <2>4. new[a[1]][a[2]].id = st[s][i].id
    BY <2>2
  <2> HIDE DEF a, f, new
  <2>5. /\ f[a][1] \in DOMAIN st /\ f[a][2] \in DOMAIN st[f[a][1]]
        /\ st[f[a][1]][f[a][2]].id = st[s][i].id
        /\ ~ (f[a][1] = s /\ f[a][2] = i)
    BY <2>3, <2>4, <1>9
  <2> QED  BY <2>5, <1>15 DEF UniqueIds
<1>16. EntriesOf(new, st)
  <2> HIDE DEF f, new
  <2> QED  BY <1>9, <1>10, <1>11 DEF EntriesOf
<1> QED  BY <1>7, <1>12, <1>13, <1>14, <1>15, <1>16

(* moveScope puts every prompt of one scope ahead of those of another.       *)
LEMMA MovedLemma ==
  ASSUME NEW st, IsStored(st), NEW from \in DOMAIN st, NEW to \in Scopes \ {from}
  PROVE  /\ IsStored(Moved(st, from, to))
         /\ IdsIn(Moved(st, from, to)) = IdsIn(st)
         /\ NoEmptyQueue(st) => NoEmptyQueue(Moved(st, from, to))
         /\ UniqueIds(st) => UniqueIds(Moved(st, from, to))
         /\ EntriesOf(Moved(st, from, to), st)
<1> DEFINE p == st[from]
           q == QueueOf(st, to)
           new == Moved(st, from, to)
<1>1. /\ p \in Seq(Prompt) /\ Len(p) \in Nat /\ DOMAIN p = 1 .. Len(p)
      /\ q \in Seq(Prompt) /\ Len(q) \in Nat /\ DOMAIN q = 1 .. Len(q)
      /\ to \in DOMAIN st => q = st[to]
      /\ to \notin DOMAIN st => q = <<>>
  <2>1. q \in Seq(Prompt)
    BY EntryLemma DEF QueueOf, Queue
  <2> QED  BY <2>1, EntryLemma DEF QueueOf, Queue
<1>2. /\ p \o q \in Seq(Prompt)
      /\ Len(p \o q) = Len(p) + Len(q)
      /\ DOMAIN (p \o q) = 1 .. Len(p) + Len(q)
      /\ \A k \in 1 .. Len(p) : (p \o q)[k] = p[k]
      /\ \A k \in 1 .. Len(q) : (p \o q)[Len(p) + k] = q[k]
  <2> HIDE DEF p, q
  <2> QED  BY <1>1
<1>3. /\ DOMAIN new = (DOMAIN st \union {to}) \ {from}
      /\ new[to] = p \o q
      /\ \A t \in DOMAIN new \ {to} : t \in DOMAIN st /\ new[t] = st[t]
  BY DEF Moved, Merged, Put, Delete
<1>4. IsStored(new)
  <2>1. \A t \in DOMAIN new : new[t] \in Seq(Prompt)
    <3>1. \A t \in DOMAIN st : st[t] \in Seq(Prompt)
      BY EntryLemma DEF Queue
    <3> HIDE DEF p, q, new
    <3> QED  BY <3>1, <1>2, <1>3
  <2>2. new = [t \in DOMAIN new |-> new[t]] /\ DOMAIN new \subseteq Scopes
    <3>1. DOMAIN st \subseteq Scopes
      BY DEF IsStored
    <3> QED  BY <3>1 DEF Moved, Put, Delete
  <2> HIDE DEF new
  <2> QED  BY <2>1, <2>2 DEF IsStored, Queue
<1> DEFINE f == [a \in Slots(new) |->
                  IF a[1] # to THEN <<a[1], a[2]>>
                  ELSE IF a[2] <= Len(p) THEN <<from, a[2]>>
                  ELSE <<to, a[2] - Len(p)>>]
<1>5. \A a \in Slots(new) :
        /\ a = <<a[1], a[2]>> /\ a[1] \in DOMAIN new /\ a[2] \in DOMAIN new[a[1]]
        /\ a[2] \in Nat \ {0}
  <2>1. \A a \in Slots(new) :
          a = <<a[1], a[2]>> /\ a[1] \in DOMAIN new /\ a[2] \in DOMAIN new[a[1]]
    BY DEF Slots
  <2>2. \A t \in DOMAIN new : DOMAIN new[t] \subseteq Nat \ {0}
    BY <1>4, EntryLemma
  <2> QED  BY <2>1, <2>2
<1>6. ASSUME NEW a \in Slots(new)
      PROVE  /\ f[a] = <<f[a][1], f[a][2]>>
             /\ f[a][1] \in DOMAIN st /\ f[a][2] \in DOMAIN st[f[a][1]]
             /\ new[a[1]][a[2]] = st[f[a][1]][f[a][2]]
  <2>1. a[1] \in DOMAIN new /\ a[2] \in DOMAIN new[a[1]] /\ a[2] \in Nat \ {0}
    BY <1>5
  <2>2. CASE a[1] # to
    <3>1. f[a] = <<a[1], a[2]>>
      BY <2>2
    <3> HIDE DEF f, new
    <3> QED  BY <3>1, <2>1, <2>2, <1>3
  <2>3. CASE a[1] = to /\ a[2] <= Len(p)
    <3>1. f[a] = <<from, a[2]>>
      BY <2>3
    <3> HIDE DEF f, new
    <3>2. a[2] \in 1 .. Len(p) /\ new[to][a[2]] = p[a[2]]
      BY <2>1, <2>3, <1>1, <1>2, <1>3
    <3> QED  BY <3>1, <3>2, <2>3, <1>1
  <2>4. CASE a[1] = to /\ ~ (a[2] <= Len(p))
    <3>1. f[a] = <<to, a[2] - Len(p)>>
      BY <2>4
    <3> HIDE DEF f, new
    <3>2. a[2] \in 1 .. Len(p) + Len(q)
      BY <2>1, <2>4, <1>2, <1>3
    <3> DEFINE k == a[2] - Len(p)
    <3>3. k \in 1 .. Len(q) /\ a[2] = Len(p) + k
      BY <3>2, <2>1, <2>4, <1>1
    <3> HIDE DEF k, p, q
    <3>4. new[to][a[2]] = q[k]
      BY <3>3, <1>2, <1>3
    <3>5. to \in DOMAIN st /\ q = st[to]
      BY <3>3, <1>1
    <3> QED  BY <3>1, <3>3, <3>4, <3>5, <2>4, <1>1 DEF k
  <2> QED  BY <2>2, <2>3, <2>4
<1>7. f \in [Slots(new) -> Slots(st)]
  <2>1. \A a \in Slots(new) : f[a] \in Slots(st)
    <3> HIDE DEF f, new
    <3> QED  BY <1>6 DEF Slots
  <2>2. f = [a \in Slots(new) |-> f[a]]
    OBVIOUS
  <2> HIDE DEF f, new
  <2> QED  BY <2>1, <2>2
<1>8. \A a, b \in Slots(new) : f[a] = f[b] => a = b
  <2> HIDE DEF f, new
  <2> SUFFICES ASSUME NEW a \in Slots(new), NEW b \in Slots(new), f[a] = f[b]
               PROVE  a[1] = b[1] /\ a[2] = b[2]
    BY <1>5
  <2>1. /\ a[2] \in Nat \ {0} /\ b[2] \in Nat \ {0}
        /\ a[1] # from /\ b[1] # from
    BY <1>3, <1>5
  <2>2. \A c \in {a, b} :
          \/ c[1] # to /\ f[c][1] = c[1] /\ f[c][2] = c[2]
          \/ c[1] = to /\ c[2] <= Len(p) /\ f[c][1] = from /\ f[c][2] = c[2]
          \/ c[1] = to /\ f[c][1] = to /\ f[c][2] = c[2] - Len(p)
    BY DEF f
  <2> HIDE DEF p
  <2> QED  BY <2>1, <2>2, <1>1, SMTT(30)
<1>9. IdsIn(new) \subseteq IdsIn(st) /\ (UniqueIds(st) => UniqueIds(new))
  <2> HIDE DEF f, new
  <2> QED  BY <1>4, <1>6, <1>7, <1>8, EmbeddedLemma
<1>10. IdsIn(st) \subseteq IdsIn(new)
  <2> SUFFICES ASSUME NEW id \in IdsIn(st) PROVE id \in IdsIn(new)
    OBVIOUS
  <2>1. PICK t \in DOMAIN st : \E k \in DOMAIN st[t] : st[t][k].id = id
    BY DEF IdsIn, IdsOf
  <2>2. PICK k \in DOMAIN st[t] : st[t][k].id = id
    BY <2>1
  <2>3. id \in Ids
    BY DEF IdsIn
  <2> SUFFICES \E u \in DOMAIN new : \E l \in DOMAIN new[u] : new[u][l].id = id
    BY <2>3 DEF IdsIn, IdsOf
  <2>4. to \in DOMAIN new /\ DOMAIN new[to] = 1 .. Len(p) + Len(q)
    BY <1>2, <1>3
  <2> HIDE DEF new
  <2>5. CASE t # from /\ t # to
    <3>1. t \in DOMAIN new /\ new[t] = st[t]
      BY <2>5, <1>3
    <3> QED  BY <3>1, <2>2
  <2>6. CASE t = from
    <3> HIDE DEF q
    <3>1. k \in 1 .. Len(p) /\ k \in 1 .. Len(p) + Len(q) /\ new[to][k] = p[k]
      BY <2>2, <2>6, <1>1, <1>2, <1>3
    <3> QED  BY <3>1, <2>2, <2>4, <2>6
  <2>7. CASE t = to
    <3>1. k \in 1 .. Len(q) /\ q[k].id = id
      BY <2>2, <2>7, <1>1
    <3> HIDE DEF p, q
    <3>2. Len(p) + k \in 1 .. Len(p) + Len(q) /\ new[to][Len(p) + k] = q[k]
      BY <3>1, <1>1, <1>2, <1>3
    <3> QED  BY <3>1, <3>2, <2>4
  <2> QED  BY <2>5, <2>6, <2>7
<1>11. ASSUME NoEmptyQueue(st) PROVE NoEmptyQueue(new)
  <2>1. p # <<>>
    BY <1>11 DEF NoEmptyQueue
  <2>2. p \o q # <<>>
    <3> HIDE DEF p, q
    <3>1. 1 \in 1 .. Len(p)
      BY <2>1, <1>1
    <3>2. 1 \in DOMAIN (p \o q)
      BY <3>1, <1>1, <1>2
    <3>3. DOMAIN <<>> = {}
      OBVIOUS
    <3> QED  BY <3>2, <3>3
  <2> HIDE DEF new, p, q
  <2> QED  BY <1>11, <2>2, <1>3 DEF NoEmptyQueue
<1>12. EntriesOf(new, st)
  <2> HIDE DEF f, new
  <2> QED  BY <1>6, <1>7, <1>8 DEF EntriesOf
<1> QED  BY <1>4, <1>9, <1>10, <1>11, <1>12
-----------------------------------------------------------------------------
(* The fields a call has, by its operation.                                  *)
LEMMA CallLemma ==
  ASSUME NEW c \in Call
  PROVE  /\ c.scope \in Scopes
         /\ c.op = "enqueue" => c.text \in Texts
         /\ c.op = "update" => c.text \in Texts /\ c.id \in Ids
         /\ c.op \in {"move", "remove", "consumeOnSuccess"} => c.id \in Ids
         /\ c.op = "moveScope" => c.to \in Scopes \ {c.scope}
BY DEF Call

(* The running call heads the promise chain, and the rest waits behind it.  *)
LEMMA ChainLemma ==
  ASSUME NEW chain \in Seq(Call), chain # <<>>
  PROVE  Head(chain) \in Call /\ Tail(chain) \in Seq(Call)
OBVIOUS

(* A scope without a key has the empty queue, any other its stored one.     *)
LEMMA QueueOfLemma ==
  ASSUME NEW st, IsStored(st), NEW s, NEW id, NEW i \in Positions(QueueOf(st, s), id)
  PROVE  /\ s \in DOMAIN st /\ QueueOf(st, s) = st[s]
         /\ i \in DOMAIN st[s] /\ st[s][i].id = id
         /\ id \in Ids /\ id \in IdsIn(st)
<1>1. s \in DOMAIN st /\ QueueOf(st, s) = st[s] /\ i \in DOMAIN st[s] /\ st[s][i].id = id
  BY DEF QueueOf, Positions
<1>2. id \in Ids
  BY <1>1, EntryLemma
<1> QED  BY <1>1, <1>2 DEF IdsIn, IdsOf

(* A head call that leaves such a clone to be written keeps the invariant.   *)
LEMMA ChangeLemma ==
  ASSUME Inductive, stage = "idle", mutation # <<>>, loaded' = TRUE, stored' = file,
         stage' = "writing",
         UNCHANGED <<file, mutation, accepted, withdrawn, noted, calls>>,
         NEW fresh \in SUBSET (Ids \ issued), issued' = issued \union fresh,
         IsStored(draft'), UniqueIds(draft'), NoEmptyQueue(draft'),
         IdsIn(draft') \subseteq IdsIn(file) \union fresh,
         IdsIn(file) \subseteq IdsIn(draft') \union Taken(file),
         IdsIn(draft') \intersect Taken(file) = {}
  PROVE  Inductive'
<1>1. TypeOK'
  BY DEF Inductive, TypeOK, Stage
<1>2. /\ EachIdOnce' /\ NoEmptyScope' /\ AcceptedIsDurable' /\ WithdrawnStaysOut'
      /\ (IdsIn(file) \union withdrawn \subseteq issued)'
  BY DEF Inductive, EachIdOnce, NoEmptyScope, AcceptedIsDurable, WithdrawnStaysOut
<1>3. Taken(file)' = Taken(file)
  BY DEF Taken, Running
<1>4. IdsIn(draft') \subseteq issued' /\ IdsIn(draft') \intersect withdrawn' = {}
  BY DEF Inductive, WithdrawnStaysOut, TypeOK
<1> QED  BY <1>1, <1>2, <1>3, <1>4 DEF Inductive

(* In particular a clone that is not changed at all.                         *)
LEMMA IdleLemma ==
  ASSUME Inductive, NEW op, Turn(op)
  PROVE  /\ Snapshot = file /\ stored' = file /\ loaded' = TRUE
         /\ stage = "idle" /\ mutation # <<>> /\ Running.op = op
         /\ Running \in Call /\ IsStored(file)
         /\ UniqueIds(file) /\ NoEmptyQueue(file)
         /\ IdsIn(file) \subseteq issued
<1>1. Snapshot = file
  BY DEF Turn, Snapshot, Inductive
<1>2. Running \in Call
  BY ChainLemma DEF Turn, Running, Inductive, TypeOK
<1> QED  BY <1>1, <1>2 DEF Turn, Inductive, TypeOK, EachIdOnce, NoEmptyScope

(* enqueue, accepted or refused at a cap, keeps the invariant.              *)
LEMMA EnqueueStep == ASSUME Inductive, ChangeEnqueue PROVE Inductive'
<1>1. PICK id \in Ids \ issued :
        LET prompt == [id |-> id, text |-> Running.text]
        IN \/ issued' = issued \union {id} /\ Change(Enqueued(Snapshot, Running.scope, prompt))
           \/ UNCHANGED issued /\ Change(Snapshot)
  BY DEF ChangeEnqueue
<1> DEFINE prompt == [id |-> id, text |-> Running.text]
<1>2. /\ Snapshot = file /\ stored' = file /\ loaded' = TRUE
      /\ stage = "idle" /\ mutation # <<>> /\ Running.op = "enqueue"
      /\ Running \in Call /\ IsStored(file)
      /\ UniqueIds(file) /\ NoEmptyQueue(file)
      /\ IdsIn(file) \subseteq issued
  BY IdleLemma DEF ChangeEnqueue
<1>3. Taken(file) = {}
  BY <1>2 DEF Taken
<1>4. Running.scope \in Scopes /\ prompt \in Prompt /\ prompt.id = id
  BY <1>2, CallLemma DEF Prompt
<1>5. CASE issued' = issued \union {id} /\ Change(Enqueued(Snapshot, Running.scope, prompt))
  <2>1. /\ IsStored(draft') /\ IdsIn(draft') = IdsIn(file) \union {id}
        /\ NoEmptyQueue(draft') /\ UniqueIds(draft')
    <3>1. draft' = Enqueued(file, Running.scope, prompt) /\ id \notin IdsIn(file)
      BY <1>2, <1>5 DEF Change
    <3> HIDE DEF prompt
    <3> QED  BY <3>1, <1>2, <1>4, EnqueuedLemma
  <2>2. {id} \in SUBSET (Ids \ issued)
    OBVIOUS
  <2>3. /\ stage' = "writing"
        /\ UNCHANGED <<file, mutation, accepted, withdrawn, noted, calls>>
    BY <1>5 DEF Change
  <2> QED  BY <2>1, <2>2, <2>3, <1>2, <1>3, <1>5, ChangeLemma
<1>6. CASE UNCHANGED issued /\ Change(Snapshot)
  BY <1>2, <1>3, <1>6, ChangeLemma DEF Change
<1> QED  BY <1>1, <1>5, <1>6

(* update of a present or missing prompt keeps the invariant.               *)
LEMMA UpdateStep == ASSUME Inductive, ChangeUpdate PROVE Inductive'
<1>1. /\ Snapshot = file /\ stored' = file /\ loaded' = TRUE
      /\ stage = "idle" /\ mutation # <<>> /\ Running.op = "update"
      /\ Running \in Call /\ IsStored(file)
      /\ UniqueIds(file) /\ NoEmptyQueue(file) /\ issued' = issued
  BY IdleLemma DEF ChangeUpdate
<1>2. Taken(file) = {}
  BY <1>1 DEF Taken
<1>3. CASE Change(file)
  BY <1>1, <1>2, <1>3, ChangeLemma DEF Change
<1>4. CASE \E i \in Positions(QueueOf(file, Running.scope), Running.id) :
             Change(Rewritten(file, Running.scope, i, Running.text))
  <2>1. PICK i \in Positions(QueueOf(file, Running.scope), Running.id) :
               Change(Rewritten(file, Running.scope, i, Running.text))
    BY <1>4
  <2>2. Running.scope \in DOMAIN file /\ i \in DOMAIN file[Running.scope] /\ Running.text \in Texts
    BY <1>1, QueueOfLemma, CallLemma
  <2>3. /\ IsStored(draft') /\ IdsIn(draft') = IdsIn(file)
        /\ NoEmptyQueue(draft') /\ UniqueIds(draft')
    BY <2>1, <2>2, <1>1, RewrittenLemma DEF Change
  <2> QED  BY <2>1, <2>3, <1>1, <1>2, ChangeLemma DEF Change
<1> QED  BY <1>1, <1>3, <1>4 DEF ChangeUpdate

(* move, at an end of the queue or not, keeps the invariant.                *)
LEMMA MoveStep == ASSUME Inductive, ChangeMove PROVE Inductive'
<1>1. /\ Snapshot = file /\ stored' = file /\ loaded' = TRUE
      /\ stage = "idle" /\ mutation # <<>> /\ Running.op = "move"
      /\ Running \in Call /\ IsStored(file)
      /\ UniqueIds(file) /\ NoEmptyQueue(file) /\ issued' = issued
  BY IdleLemma DEF ChangeMove
<1>2. Taken(file) = {}
  BY <1>1 DEF Taken
<1>3. CASE Change(file)
  BY <1>1, <1>2, <1>3, ChangeLemma DEF Change
<1>4. CASE \E i \in Positions(QueueOf(file, Running.scope), Running.id) :
             \E j \in DOMAIN file[Running.scope] : Change(Swapped(file, Running.scope, i, j))
  <2>1. PICK i \in Positions(QueueOf(file, Running.scope), Running.id),
             j \in DOMAIN file[Running.scope] : Change(Swapped(file, Running.scope, i, j))
    BY <1>4
  <2>2. Running.scope \in DOMAIN file /\ i \in DOMAIN file[Running.scope]
    BY <1>1, QueueOfLemma
  <2>3. /\ IsStored(draft') /\ IdsIn(draft') = IdsIn(file)
        /\ NoEmptyQueue(draft') /\ UniqueIds(draft')
    BY <2>1, <2>2, <1>1, SwappedLemma DEF Change
  <2> QED  BY <2>1, <2>3, <1>1, <1>2, ChangeLemma DEF Change
<1> QED  BY <1>1, <1>3, <1>4 DEF ChangeMove

(* remove of a present or missing prompt keeps the invariant.               *)
LEMMA RemoveStep == ASSUME Inductive, ChangeRemove PROVE Inductive'
<1>1. /\ Snapshot = file /\ stored' = file /\ loaded' = TRUE
      /\ stage = "idle" /\ mutation # <<>> /\ Running.op = "remove"
      /\ Running \in Call /\ IsStored(file)
      /\ UniqueIds(file) /\ NoEmptyQueue(file) /\ issued' = issued
  BY IdleLemma DEF ChangeRemove
<1>2. CASE Positions(QueueOf(file, Running.scope), Running.id) = {} /\ Change(file)
  <2>1. Taken(file) = {}
    BY <1>1, <1>2 DEF Taken, Positions, IdsOf
  <2> QED  BY <2>1, <1>1, <1>2, ChangeLemma DEF Change
<1>3. CASE \E i \in Positions(QueueOf(file, Running.scope), Running.id) :
             Change(Removed(file, Running.scope, i))
  <2>1. PICK i \in Positions(QueueOf(file, Running.scope), Running.id) :
             Change(Removed(file, Running.scope, i))
    BY <1>3
  <2>2. /\ Running.scope \in DOMAIN file /\ i \in DOMAIN file[Running.scope]
        /\ file[Running.scope][i].id = Running.id
        /\ QueueOf(file, Running.scope) = file[Running.scope]
    BY <1>1, QueueOfLemma
  <2>3. Taken(file) = {Running.id}
    BY <1>1, <2>2 DEF Taken, IdsOf
  <2>4. /\ IsStored(draft') /\ IdsIn(draft') \subseteq IdsIn(file)
        /\ IdsIn(file) \subseteq IdsIn(draft') \union {Running.id}
        /\ Running.id \notin IdsIn(draft')
        /\ NoEmptyQueue(draft') /\ UniqueIds(draft')
    BY <2>1, <2>2, <1>1, RemovedLemma DEF Change
  <2>5. /\ IdsIn(draft') \subseteq IdsIn(file) \union {}
        /\ IdsIn(file) \subseteq IdsIn(draft') \union Taken(file)
        /\ IdsIn(draft') \intersect Taken(file) = {}
    BY <2>3, <2>4
  <2>6. /\ stage' = "writing"
        /\ UNCHANGED <<file, mutation, accepted, withdrawn, noted, calls>>
    BY <2>1 DEF Change
  <2>7. {} \in SUBSET (Ids \ issued) /\ issued' = issued \union {}
    BY <1>1
  <2> QED  BY <2>4, <2>5, <2>6, <2>7, <1>1, ChangeLemma
<1> QED  BY <1>1, <1>2, <1>3 DEF ChangeRemove

(* moveScope, whether the merged queue fits or not, keeps the invariant.    *)
LEMMA MoveScopeStep == ASSUME Inductive, ChangeMoveScope PROVE Inductive'
<1>1. /\ Snapshot = file /\ stored' = file /\ loaded' = TRUE
      /\ stage = "idle" /\ mutation # <<>> /\ Running.op = "moveScope"
      /\ Running \in Call /\ IsStored(file)
      /\ UniqueIds(file) /\ NoEmptyQueue(file) /\ issued' = issued
  BY IdleLemma DEF ChangeMoveScope
<1>2. Taken(file) = {}
  BY <1>1 DEF Taken
<1>3. CASE Change(file)
  BY <1>1, <1>2, <1>3, ChangeLemma DEF Change
<1>4. CASE /\ Running.scope \in DOMAIN file
           /\ Change(Moved(file, Running.scope, Running.to))
  <2>1. Running.to \in Scopes \ {Running.scope}
    BY <1>1, <1>4, CallLemma
  <2>2. /\ IsStored(draft') /\ IdsIn(draft') = IdsIn(file)
        /\ NoEmptyQueue(draft') /\ UniqueIds(draft')
    BY <2>1, <1>1, <1>4, MovedLemma DEF Change
  <2> QED  BY <2>2, <1>1, <1>2, <1>4, ChangeLemma DEF Change
<1> QED  BY <1>1, <1>3, <1>4 DEF ChangeMoveScope

(* consumeOnSuccess finding its prompt keeps the invariant.                 *)
LEMMA LookUpStep == ASSUME Inductive, ConsumeLooksUp PROVE Inductive'
<1>1. /\ Snapshot = file /\ stored' = file /\ loaded' = TRUE
      /\ stage = "idle" /\ mutation # <<>> /\ Running.op = "consumeOnSuccess"
      /\ UNCHANGED <<file, draft, issued, accepted, withdrawn, noted, calls>>
  BY IdleLemma DEF ConsumeLooksUp, history
<1>2. \/ /\ Positions(QueueOf(file, Running.scope), Running.id) # {}
         /\ stage' = "using" /\ mutation' = mutation
      \/ stage' = "idle" /\ mutation' = Tail(mutation)
  BY <1>1 DEF ConsumeLooksUp
<1>3. mutation' \in Seq(Call)
  BY <1>1, <1>2, ChainLemma DEF Inductive, TypeOK
<1>4. TypeOK'
  BY <1>1, <1>2, <1>3 DEF Inductive, TypeOK, Stage
<1>5. /\ EachIdOnce' /\ NoEmptyScope' /\ AcceptedIsDurable' /\ WithdrawnStaysOut'
      /\ (IdsIn(file) \union withdrawn \subseteq issued)'
  BY <1>1 DEF Inductive, EachIdOnce, NoEmptyScope, AcceptedIsDurable, WithdrawnStaysOut
<1> QED  BY <1>1, <1>2, <1>4, <1>5 DEF Inductive, Running

(* A callback that succeeded lets consumeOnSuccess drop its prompt.         *)
LEMMA UseStep == ASSUME Inductive, UseSucceeds PROVE Inductive'
<1>1. /\ stored = file /\ IsStored(file) /\ Running.op = "consumeOnSuccess"
      /\ UniqueIds(file) /\ NoEmptyQueue(file)
      /\ loaded /\ mutation # <<>> /\ Running \in Call
  BY ChainLemma DEF Inductive, UseSucceeds, TypeOK, EachIdOnce, NoEmptyScope, Running
<1>2. Running.scope \in DOMAIN file /\ QueueOf(file, Running.scope) = file[Running.scope]
  <2>1. PICK i \in Positions(QueueOf(file, Running.scope), Running.id) : TRUE
    BY DEF Inductive, UseSucceeds
  <2> QED  BY <2>1, <1>1, QueueOfLemma
<1>3. PICK i \in Positions(file[Running.scope], Running.id) :
        draft' = Removed(file, Running.scope, i)
  BY <1>1 DEF UseSucceeds
<1>4. i \in DOMAIN file[Running.scope] /\ file[Running.scope][i].id = Running.id
  BY <1>1, <1>2, <1>3, QueueOfLemma
<1>5. /\ IsStored(draft') /\ IdsIn(draft') \subseteq IdsIn(file)
      /\ IdsIn(file) \subseteq IdsIn(draft') \union {Running.id}
      /\ Running.id \notin IdsIn(draft')
      /\ NoEmptyQueue(draft') /\ UniqueIds(draft')
  BY <1>1, <1>2, <1>3, <1>4, RemovedLemma
<1>6. Taken(file) = {Running.id} /\ Taken(file)' = Taken(file)
  BY <1>1, <1>2, <1>4 DEF Taken, IdsOf, UseSucceeds, Running
<1>7. /\ stage' = "writing" /\ noted' = noted \union {Running.id}
      /\ UNCHANGED <<file, loaded, stored, mutation, issued, accepted, withdrawn, calls>>
  BY DEF UseSucceeds
<1>8. Running.id \in Ids
  BY <1>1, CallLemma
<1>9. TypeOK'
  BY <1>5, <1>7, <1>8 DEF Inductive, TypeOK, Stage
<1>10. /\ EachIdOnce' /\ NoEmptyScope' /\ AcceptedIsDurable' /\ WithdrawnStaysOut'
       /\ (IdsIn(file) \union withdrawn \subseteq issued)'
  BY <1>7 DEF Inductive, EachIdOnce, NoEmptyScope, AcceptedIsDurable, WithdrawnStaysOut
<1>11. /\ IdsIn(draft') \subseteq issued /\ IdsIn(draft') \intersect withdrawn = {}
       /\ IdsIn(file) \subseteq IdsIn(draft') \union Taken(file)
       /\ IdsIn(draft') \intersect Taken(file) = {}
  BY <1>5, <1>6 DEF Inductive, WithdrawnStaysOut
<1> QED  BY <1>1, <1>5, <1>6, <1>7, <1>9, <1>10, <1>11 DEF Inductive

(* The rename makes the change durable: what it accepts is in the file.     *)
LEMMA RenameStep == ASSUME Inductive, Rename PROVE Inductive'
<1>1. /\ file' = draft /\ stage' = "publishing"
      /\ withdrawn' = withdrawn \union Taken(file)
      /\ UNCHANGED <<loaded, stored, mutation, draft, issued, accepted, noted, calls>>
      /\ stage = "writing" /\ stored = file
  BY DEF Rename, Inductive
<1>2. Taken(file) \subseteq IdsIn(file)
  <2> SUFFICES ASSUME NEW id \in Taken(file) PROVE id \in IdsIn(file)
    OBVIOUS
  <2>1. id = Running.id /\ Positions(QueueOf(file, Running.scope), Running.id) # {}
    BY DEF Taken, IdsOf, Positions
  <2> QED  BY <2>1, QueueOfLemma DEF Inductive, TypeOK
<1>3. IdsIn(file) \subseteq issued /\ withdrawn \subseteq issued /\ IdsIn(draft) \subseteq issued
  BY <1>1 DEF Inductive
<1>4. TypeOK'
  BY <1>1, <1>2, <1>3 DEF Inductive, TypeOK, Stage
<1>5. EachIdOnce' /\ NoEmptyScope'
  BY <1>1 DEF Inductive, EachIdOnce, NoEmptyScope
<1>6. AcceptedIsDurable' /\ WithdrawnStaysOut'
  BY <1>1 DEF Inductive, AcceptedIsDurable, WithdrawnStaysOut
<1>7. (IdsIn(file) \union withdrawn \subseteq issued)'
  BY <1>1, <1>2, <1>3
<1> QED  BY <1>1, <1>4, <1>5, <1>6, <1>7 DEF Inductive

(* Publishing the renamed snapshot ends the call.                           *)
LEMMA PublishStep == ASSUME Inductive, Publish PROVE Inductive'
<1>1. /\ stage = "publishing" /\ draft = file /\ stored' = file /\ loaded /\ mutation # <<>>
      /\ stage' = "idle" /\ mutation' = Tail(mutation)
      /\ accepted \subseteq accepted' /\ accepted' \subseteq accepted \union IdsIn(file)
      /\ UNCHANGED <<file, loaded, draft, issued, withdrawn, noted, calls>>
  BY DEF Publish, Inductive
<1>2. mutation' \in Seq(Call)
  BY <1>1, ChainLemma DEF Inductive, TypeOK
<1>3. IdsIn(file) \subseteq Ids
  BY DEF IdsIn
<1>4. TypeOK'
  BY <1>1, <1>2, <1>3 DEF Inductive, TypeOK, Stage
<1>5. /\ EachIdOnce' /\ NoEmptyScope' /\ AcceptedIsDurable' /\ WithdrawnStaysOut'
      /\ (IdsIn(file) \union withdrawn \subseteq issued)'
  BY <1>1 DEF Inductive, EachIdOnce, NoEmptyScope, AcceptedIsDurable, WithdrawnStaysOut
<1> QED  BY <1>1, <1>4, <1>5 DEF Inductive

(* A call that ends without a write, for whatever reason.                    *)
LEMMA GiveUpStep ==
  ASSUME Inductive, UseFails \/ WriteFails \/ ReadFails PROVE Inductive'
<1>1. /\ mutation # <<>> /\ mutation' = Tail(mutation) /\ stage' = "idle"
      /\ UNCHANGED <<file, loaded, stored, draft, issued, accepted, withdrawn, noted, calls>>
      /\ stage # "publishing"
  BY DEF UseFails, WriteFails, ReadFails, history, Inductive
<1>2. mutation' \in Seq(Call)
  BY <1>1, ChainLemma DEF Inductive, TypeOK
<1>3. TypeOK'
  BY <1>1, <1>2 DEF Inductive, TypeOK, Stage
<1>4. /\ EachIdOnce' /\ NoEmptyScope' /\ AcceptedIsDurable' /\ WithdrawnStaysOut'
      /\ (IdsIn(file) \union withdrawn \subseteq issued)'
  BY <1>1 DEF Inductive, EachIdOnce, NoEmptyScope, AcceptedIsDurable, WithdrawnStaysOut
<1> QED  BY <1>1, <1>3, <1>4 DEF Inductive

(* A server restart loses the chain and keeps the file.                     *)
LEMMA RestartStep == ASSUME Inductive, Restart PROVE Inductive'
<1>1. /\ loaded' = FALSE /\ stored' = Nothing /\ mutation' = <<>> /\ stage' = "idle"
      /\ draft' = Nothing
      /\ UNCHANGED <<file, issued, accepted, withdrawn, noted, calls>>
  BY DEF Restart, history
<1>2. IsStored(Nothing) /\ <<>> \in Seq(Call)
  BY DEF IsStored, Nothing
<1>3. TypeOK'
  BY <1>1, <1>2 DEF Inductive, TypeOK, Stage
<1>4. /\ EachIdOnce' /\ NoEmptyScope' /\ AcceptedIsDurable' /\ WithdrawnStaysOut'
      /\ (IdsIn(file) \union withdrawn \subseteq issued)'
  BY <1>1 DEF Inductive, EachIdOnce, NoEmptyScope, AcceptedIsDurable, WithdrawnStaysOut
<1> QED  BY <1>1, <1>3, <1>4 DEF Inductive

(* A call that joins the chain disturbs nothing.                            *)
LEMMA RequestStep ==
  ASSUME Inductive, NEW call \in Call, Request(call) PROVE Inductive'
<1>1. /\ mutation' = Append(mutation, call) /\ calls' = calls + 1
      /\ UNCHANGED <<file, loaded, stored, stage, draft, issued, accepted, withdrawn, noted>>
  BY DEF Request
<1>2. /\ mutation' \in Seq(Call) /\ mutation' # <<>> /\ calls' \in Nat
      /\ mutation # <<>> => Head(mutation') = Head(mutation)
  BY <1>1 DEF Inductive, TypeOK
<1>3. TypeOK'
  BY <1>1, <1>2 DEF Inductive, TypeOK
<1>4. /\ EachIdOnce' /\ NoEmptyScope' /\ AcceptedIsDurable' /\ WithdrawnStaysOut'
      /\ (IdsIn(file) \union withdrawn \subseteq issued)'
  BY <1>1 DEF Inductive, EachIdOnce, NoEmptyScope, AcceptedIsDurable, WithdrawnStaysOut
<1>5. mutation # <<>> => Running' = Running /\ Taken(file)' = Taken(file)
  BY <1>1, <1>2 DEF Running, Taken
<1> QED  BY <1>1, <1>2, <1>3, <1>4, <1>5 DEF Inductive

(* Nothing changes when no variable does.                                   *)
LEMMA StutterStep == ASSUME Inductive, UNCHANGED vars PROVE Inductive'
<1>1. UNCHANGED <<file, loaded, stored, mutation, stage, draft,
                  issued, accepted, withdrawn, noted, calls>>
  BY DEF vars
<1>2. TypeOK'
  BY <1>1 DEF Inductive, TypeOK
<1>3. /\ EachIdOnce' /\ NoEmptyScope' /\ AcceptedIsDurable' /\ WithdrawnStaysOut'
      /\ (IdsIn(file) \union withdrawn \subseteq issued)'
  BY <1>1 DEF Inductive, EachIdOnce, NoEmptyScope, AcceptedIsDurable, WithdrawnStaysOut
<1>4. Running' = Running /\ Taken(file)' = Taken(file)
  BY <1>1 DEF Running, Taken
<1> QED  BY <1>1, <1>2, <1>3, <1>4 DEF Inductive

(* The invariant holds for an empty file.                                   *)
LEMMA InitHolds == Init => Inductive
<1> SUFFICES ASSUME Init PROVE Inductive
  OBVIOUS
<1>1. IsStored(Nothing) /\ <<>> \in Seq(Call) /\ IdsIn(Nothing) = {}
      /\ UniqueIds(Nothing) /\ NoEmptyQueue(Nothing)
  BY DEF IsStored, Nothing, IdsIn, UniqueIds, NoEmptyQueue
<1>2. TypeOK
  BY <1>1 DEF Init, TypeOK, Stage
<1> QED  BY <1>1, <1>2 DEF Init, Inductive, EachIdOnce, NoEmptyScope,
                           AcceptedIsDurable, WithdrawnStaysOut

(* Every step of the queue keeps the invariant.                             *)
LEMMA StepHolds == Inductive /\ [Next]_vars => Inductive'
<1> SUFFICES ASSUME Inductive, [Next]_vars PROVE Inductive'
  OBVIOUS
<1>1. CASE \E call \in Call : Request(call)  BY <1>1, RequestStep
<1>2. CASE ChangeEnqueue     BY <1>2, EnqueueStep
<1>3. CASE ChangeUpdate      BY <1>3, UpdateStep
<1>4. CASE ChangeMove        BY <1>4, MoveStep
<1>5. CASE ChangeRemove      BY <1>5, RemoveStep
<1>6. CASE ChangeMoveScope   BY <1>6, MoveScopeStep
<1>7. CASE ConsumeLooksUp    BY <1>7, LookUpStep
<1>8. CASE UseSucceeds       BY <1>8, UseStep
<1>9. CASE UseFails \/ WriteFails \/ ReadFails  BY <1>9, GiveUpStep
<1>10. CASE Rename           BY <1>10, RenameStep
<1>11. CASE Publish          BY <1>11, PublishStep
<1>12. CASE Restart          BY <1>12, RestartStep
<1>13. CASE UNCHANGED vars   BY <1>13, StutterStep
<1> QED  BY <1>1, <1>2, <1>3, <1>4, <1>5, <1>6, <1>7, <1>8, <1>9, <1>10, <1>11,
            <1>12, <1>13 DEF Next, Mutate

(* The inductive invariant holds in every behaviour of the queue.            *)
THEOREM InductiveAlways == Spec => []Inductive
BY InitHolds, StepHolds, PTL DEF Spec

(* Every variable keeps its type: in particular the file always holds        *)
(* well-formed queues.                                                       *)
THEOREM TypeCorrect == Spec => []TypeOK
<1>1. Inductive => TypeOK
  BY DEF Inductive
<1> QED  BY <1>1, InductiveAlways, PTL

(* A prompt whose enqueue was acknowledged stays in the durable file until a *)
(* remove or a consume takes it out, whatever fails or restarts on the way.  *)
THEOREM AcceptedPromptsSurvive == Spec => []AcceptedIsDurable
<1>1. Inductive => AcceptedIsDurable
  BY DEF Inductive
<1> QED  BY <1>1, InductiveAlways, PTL

(* No mutation works on a snapshot from before a removal: what was taken out *)
(* of the queue never returns to it.                                         *)
THEOREM WithdrawnPromptsStayOut == Spec => []WithdrawnStaysOut
<1>1. Inductive => WithdrawnStaysOut
  BY DEF Inductive
<1> QED  BY <1>1, InductiveAlways, PTL

(* However prompts are moved and handed over, none is ever at two places.    *)
THEOREM OneCopyOfEachPrompt == Spec => []EachIdOnce
<1>1. Inductive => EachIdOnce
  BY DEF Inductive
<1> QED  BY <1>1, InductiveAlways, PTL

(* Emptied scopes give up their key, so maxScopes counts waiting Agents only. *)
THEOREM EmptyScopesAreDropped == Spec => []NoEmptyScope
<1>1. Inductive => NoEmptyScope
  BY DEF Inductive
<1> QED  BY <1>1, InductiveAlways, PTL

(* Callers are never answered from a snapshot the file does not hold, except *)
(* between one mutation's rename and its publication.                        *)
THEOREM AnswersAreDurable == Spec => []SnapshotIsDurable
<1>1. Inductive => SnapshotIsDurable
  BY DEF Inductive, SnapshotIsDurable
<1> QED  BY <1>1, InductiveAlways, PTL

(* While the consumer's callback runs, the prompt is still in the file.      *)
THEOREM ConsumedPromptWaits == Spec => []UseKeepsPrompt
<1>1. ASSUME Inductive, stage = "using"
      PROVE  Running.id \in IdsIn(file) /\ Running.id \in IdsIn(stored)
  <2>1. stored = file /\ IsStored(file)
    BY <1>1 DEF Inductive, TypeOK
  <2>2. PICK i \in Positions(QueueOf(file, Running.scope), Running.id) : TRUE
    BY <1>1 DEF Inductive
  <2> QED  BY <2>1, <2>2, QueueOfLemma
<1>2. Inductive => UseKeepsPrompt
  BY <1>1 DEF UseKeepsPrompt
<1> QED  BY <1>2, InductiveAlways, PTL
-----------------------------------------------------------------------------
(* An operation of DurableQueue as a relation of the contents before and    *)
(* after it.                                                                *)
OneOperation(old, new) ==
  \/ \E s \in Scopes, p \in Prompt :
       p.id \notin IdsIn(old) /\ CanEnqueue(old, s, p) /\ new = Enqueued(old, s, p)
  \/ \E s \in DOMAIN old : \E i \in DOMAIN old[s], t \in Texts :
       TotalText(Rewritten(old, s, i, t)) <= MaxStoredText /\ new = Rewritten(old, s, i, t)
  \/ \E s \in DOMAIN old : \E i, j \in DOMAIN old[s] :
       j \in {i - 1, i + 1} /\ new = Swapped(old, s, i, j)
  \/ \E s \in DOMAIN old : \E i \in DOMAIN old[s] : new = Removed(old, s, i)
  \/ \E from \in DOMAIN old : \E to \in Scopes \ {from} :
       Len(Merged(old, from, to)) <= MaxPromptsPerScope /\ new = Moved(old, from, to)

(* What waits to be written is one operation away from the file, if it      *)
(* differs at all.                                                          *)
Planned == stage = "writing" => draft = file \/ OneOperation(file, draft)

(* The five closures that change the clone, and the callback's, plan one    *)
(* operation or none.                                                       *)
LEMMA PlanLemma ==
  ASSUME Inductive,
         \/ ChangeEnqueue \/ ChangeUpdate \/ ChangeMove \/ ChangeRemove
         \/ ChangeMoveScope \/ UseSucceeds
  PROVE  file' = file /\ (draft' = file \/ OneOperation(file, draft'))
<1>1. CASE ChangeEnqueue
  <2>1. /\ Snapshot = file /\ Running \in Call /\ Running.op = "enqueue"
        /\ IdsIn(file) \subseteq issued
    BY <1>1, IdleLemma DEF ChangeEnqueue
  <2>2. PICK id \in Ids \ issued :
          LET prompt == [id |-> id, text |-> Running.text]
          IN \/ /\ CanEnqueue(file, Running.scope, prompt)
                /\ Change(Enqueued(file, Running.scope, prompt))
             \/ Change(file)
    BY <1>1, <2>1 DEF ChangeEnqueue
  <2> DEFINE prompt == [id |-> id, text |-> Running.text]
  <2>3. Running.scope \in Scopes /\ prompt \in Prompt /\ prompt.id \notin IdsIn(file)
    BY <2>1, CallLemma DEF Prompt
  <2> HIDE DEF prompt
  <2>4. CASE Change(file)
    BY <2>4 DEF Change
  <2>5. CASE CanEnqueue(file, Running.scope, prompt)
             /\ Change(Enqueued(file, Running.scope, prompt))
    BY <2>3, <2>5 DEF Change, OneOperation
  <2> QED  BY <2>2, <2>4, <2>5 DEF prompt
<1>2. CASE ChangeUpdate
  <2>1. /\ Snapshot = file /\ IsStored(file) /\ Running \in Call /\ Running.op = "update"
    BY <1>2, IdleLemma DEF ChangeUpdate
  <2>2. CASE Change(file)
    BY <2>2 DEF Change
  <2>3. ASSUME NEW i \in Positions(QueueOf(file, Running.scope), Running.id),
               TotalText(Rewritten(file, Running.scope, i, Running.text)) <= MaxStoredText,
               Change(Rewritten(file, Running.scope, i, Running.text))
        PROVE  file' = file /\ OneOperation(file, draft')
    <3>1. Running.scope \in DOMAIN file /\ i \in DOMAIN file[Running.scope] /\ Running.text \in Texts
      BY <2>1, <2>3, QueueOfLemma, CallLemma
    <3> QED  BY <3>1, <2>3 DEF Change, OneOperation
  <2>4. \/ Change(file)
        \/ \E i \in Positions(QueueOf(file, Running.scope), Running.id) :
             /\ TotalText(Rewritten(file, Running.scope, i, Running.text)) <= MaxStoredText
             /\ Change(Rewritten(file, Running.scope, i, Running.text))
    BY <1>2, <2>1 DEF ChangeUpdate
  <2> QED  BY <2>2, <2>3, <2>4
<1>3. CASE ChangeMove
  <2>1. /\ Snapshot = file /\ IsStored(file) /\ Running \in Call /\ Running.op = "move"
    BY <1>3, IdleLemma DEF ChangeMove
  <2>2. CASE Change(file)
    BY <2>2 DEF Change
  <2>3. ASSUME NEW i \in Positions(QueueOf(file, Running.scope), Running.id),
               Neighbour(i, Running.direction) \in DOMAIN file[Running.scope],
               Change(Swapped(file, Running.scope, i, Neighbour(i, Running.direction)))
        PROVE  file' = file /\ OneOperation(file, draft')
    <3>1. Running.scope \in DOMAIN file /\ i \in DOMAIN file[Running.scope]
      BY <2>1, <2>3, QueueOfLemma
    <3>2. Neighbour(i, Running.direction) \in {i - 1, i + 1}
      BY DEF Neighbour
    <3> QED  BY <3>1, <3>2, <2>3 DEF Change, OneOperation
  <2>4. \/ Change(file)
        \/ \E i \in Positions(QueueOf(file, Running.scope), Running.id) :
             /\ Neighbour(i, Running.direction) \in DOMAIN file[Running.scope]
             /\ Change(Swapped(file, Running.scope, i, Neighbour(i, Running.direction)))
    BY <1>3, <2>1 DEF ChangeMove
  <2> QED  BY <2>2, <2>3, <2>4
<1>4. CASE ChangeRemove
  <2>1. /\ Snapshot = file /\ IsStored(file)
    BY <1>4, IdleLemma DEF ChangeRemove
  <2>2. CASE Change(file)
    BY <2>2 DEF Change
  <2>3. ASSUME NEW i \in Positions(QueueOf(file, Running.scope), Running.id),
               Change(Removed(file, Running.scope, i))
        PROVE  file' = file /\ OneOperation(file, draft')
    <3>1. Running.scope \in DOMAIN file /\ i \in DOMAIN file[Running.scope]
      BY <2>1, <2>3, QueueOfLemma
    <3> QED  BY <3>1, <2>3 DEF Change, OneOperation
  <2> QED  BY <1>4, <2>1, <2>2, <2>3 DEF ChangeRemove
<1>5. CASE ChangeMoveScope
  <2>1. /\ Snapshot = file /\ Running \in Call /\ Running.op = "moveScope"
    BY <1>5, IdleLemma DEF ChangeMoveScope
  <2>2. Running.to \in Scopes \ {Running.scope}
    BY <2>1, CallLemma
  <2>3. CASE Change(file)
    BY <2>3 DEF Change
  <2>4. CASE /\ Running.scope \in DOMAIN file
             /\ Len(Merged(file, Running.scope, Running.to)) <= MaxPromptsPerScope
             /\ Change(Moved(file, Running.scope, Running.to))
    BY <2>2, <2>4 DEF Change, OneOperation
  <2> QED  BY <1>5, <2>1, <2>3, <2>4 DEF ChangeMoveScope
<1>6. CASE UseSucceeds
  <2>1. /\ stored = file /\ IsStored(file) /\ file' = file
        /\ Positions(QueueOf(file, Running.scope), Running.id) # {}
    BY <1>6 DEF Inductive, UseSucceeds, TypeOK
  <2>2. QueueOf(file, Running.scope) = file[Running.scope] /\ Running.scope \in DOMAIN file
    BY <2>1, QueueOfLemma
  <2>3. PICK i \in Positions(QueueOf(file, Running.scope), Running.id) :
          draft' = Removed(file, Running.scope, i)
    BY <1>6, <2>1, <2>2 DEF UseSucceeds
  <2>4. i \in DOMAIN file[Running.scope]
    BY <2>1, <2>3, QueueOfLemma
  <2> QED  BY <2>1, <2>2, <2>3, <2>4 DEF OneOperation
<1> QED  BY <1>1, <1>2, <1>3, <1>4, <1>5, <1>6

(* Every step keeps what was planned.                                        *)
LEMMA PlanHolds == Inductive /\ Planned /\ [Next]_vars => Planned'
<1> SUFFICES ASSUME Inductive, Planned, [Next]_vars, stage' = "writing"
             PROVE  draft' = file' \/ OneOperation(file', draft')
  BY DEF Planned
<1>1. CASE \/ ChangeEnqueue \/ ChangeUpdate \/ ChangeMove \/ ChangeRemove
           \/ ChangeMoveScope \/ UseSucceeds
  <2>1. file' = file /\ (draft' = file \/ OneOperation(file, draft'))
    BY <1>1, PlanLemma
  <2> QED  BY <2>1
<1>2. CASE (\E call \in Call : Request(call)) \/ UNCHANGED vars
  <2>1. UNCHANGED <<file, draft, stage>>
    BY <1>2 DEF Request, vars
  <2> QED  BY <2>1 DEF Planned
<1>3. CASE ConsumeLooksUp \/ UseFails \/ Rename \/ Publish \/ WriteFails \/ ReadFails \/ Restart
  <2>1. stage' # "writing"
    BY <1>3 DEF ConsumeLooksUp, UseFails, Rename, Publish, WriteFails, ReadFails, Restart
  <2> QED  BY <2>1
<1> QED  BY <1>1, <1>2, <1>3 DEF Next, Mutate

(* A step changes the file by one operation or not at all.                   *)
LEMMA FileMoves == Planned /\ [Next]_vars => OneOperation(file, file') \/ file' = file
<1> SUFFICES ASSUME Planned, [Next]_vars PROVE OneOperation(file, file') \/ file' = file
  OBVIOUS
<1>1. CASE Rename
  BY <1>1 DEF Rename, Planned
<1>2. CASE ~Rename
  BY <1>2 DEF Next, Mutate, Request, ChangeEnqueue, ChangeUpdate, ChangeMove, ChangeRemove,
              ChangeMoveScope, Change, ConsumeLooksUp, UseSucceeds, UseFails, Publish,
              WriteFails, ReadFails, Restart, vars
<1> QED  BY <1>1, <1>2
-----------------------------------------------------------------------------
(* One more scope at most.                                                  *)
LEMMA GrownLemma ==
  ASSUME NEW S, IsFiniteSet(S), NEW x
  PROVE  /\ IsFiniteSet(S \union {x})
         /\ Cardinality(S \union {x}) = IF x \in S THEN Cardinality(S) ELSE Cardinality(S) + 1
         /\ Cardinality(S \union {x}) <= Cardinality(S) + 1
         /\ Cardinality(S \union {x}) \in Nat
<1>1. Cardinality(S) \in Nat
  BY FS_CardinalityType
<1>2. /\ IsFiniteSet(S \union {x})
      /\ Cardinality(S \union {x}) = IF x \in S THEN Cardinality(S) ELSE Cardinality(S) + 1
  BY FS_AddElement, Zenon
<1> QED  BY <1>1, <1>2

(* A sequence is as long as its domain says.                                 *)
LEMMA LengthLemma ==
  ASSUME NEW m \in Nat, NEW n \in Nat, 1 .. m = 1 .. n
  PROVE  m = n
<1>1. CASE m < n
  <2>1. n \in 1 .. n /\ n \notin 1 .. m
    BY <1>1
  <2> QED  BY <2>1
<1>2. CASE n < m
  <2>1. m \in 1 .. m /\ m \notin 1 .. n
    BY <1>2
  <2> QED  BY <2>1
<1> QED  BY <1>1, <1>2

(* The numbers up to n are finitely many.                                    *)
LEMMA IntervalLemma ==
  ASSUME NEW n \in Int
  PROVE  IsFiniteSet(1 .. n)
<1>1. 1 \in Int
  OBVIOUS
<1> QED  BY <1>1, FS_Interval

(* What a file costs is counted over a finite set, whatever it holds.        *)
LEMMA UnitsLemma ==
  ASSUME NEW st, IsStored(st)
  PROVE  /\ \A slot \in Slots(st) :
              /\ slot[1] \in DOMAIN st /\ slot[2] \in DOMAIN st[slot[1]]
              /\ Cost(st, slot) \in Nat
         /\ IsFiniteSet(DOMAIN st)
         /\ IsFiniteSet(Units(st))
         /\ Cardinality(DOMAIN st) \in Nat
         /\ TotalText(st) \in Nat
<1>1. IsFiniteSet(DOMAIN st)
  BY QueueOpsAssumption, FS_Subset DEF IsStored
<1>2. ASSUME NEW slot \in Slots(st)
      PROVE  /\ slot[1] \in DOMAIN st /\ slot[2] \in DOMAIN st[slot[1]]
             /\ Cost(st, slot) \in Nat
  <2>1. slot[1] \in DOMAIN st /\ slot[2] \in DOMAIN st[slot[1]]
    BY DEF Slots
  <2>2. st[slot[1]][slot[2]] \in Prompt
    BY <2>1, EntryLemma
  <2> QED  BY <2>1, <2>2, QueueOpsAssumption DEF Prompt, Cost
<1>3. IsFiniteSet(Slots(st))
  <2> DEFINE Row(s) == {s} \X DOMAIN st[s]
             rows == {Row(s) : s \in DOMAIN st}
             g == [s \in DOMAIN st |-> Row(s)]
  <2>1. g \in Surjection(DOMAIN st, rows)
    BY DEF Surjection
  <2>2. IsFiniteSet(rows)
    <3> HIDE DEF g, rows
    <3> QED  BY <2>1, <1>1, FS_Surjection
  <2>3. ASSUME NEW r \in rows PROVE IsFiniteSet(r)
    <3>1. PICK s \in DOMAIN st : r = Row(s)
      OBVIOUS
    <3>2. Len(st[s]) \in Int /\ DOMAIN st[s] = 1 .. Len(st[s])
      BY EntryLemma
    <3>3. IsFiniteSet(DOMAIN st[s])
      <4>1. IsFiniteSet(1 .. Len(st[s]))
        BY <3>2, IntervalLemma
      <4> QED  BY <4>1, <3>2
    <3>4. IsFiniteSet({s})
      BY FS_Singleton
    <3> QED  BY <3>1, <3>3, <3>4, FS_Product
  <2>4. IsFiniteSet(UNION rows)
    <3> HIDE DEF rows
    <3> QED  BY <2>2, <2>3, FS_UNION
  <2> QED  BY <2>4 DEF Slots
<1>4. IsFiniteSet(Units(st))
  <2> DEFINE Row(a) == {a} \X (1 .. Cost(st, a))
             rows == {Row(a) : a \in Slots(st)}
             g == [a \in Slots(st) |-> Row(a)]
  <2>1. g \in Surjection(Slots(st), rows)
    BY DEF Surjection
  <2>2. IsFiniteSet(rows)
    <3> HIDE DEF g, rows
    <3> QED  BY <2>1, <1>3, FS_Surjection
  <2>3. ASSUME NEW r \in rows PROVE IsFiniteSet(r)
    <3>1. PICK a \in Slots(st) : r = Row(a)
      OBVIOUS
    <3>2. Cost(st, a) \in Int
      BY <1>2
    <3>3. IsFiniteSet(1 .. Cost(st, a))
      BY <3>2, IntervalLemma
    <3>4. IsFiniteSet({a})
      BY FS_Singleton
    <3> QED  BY <3>1, <3>3, <3>4, FS_Product
  <2>4. IsFiniteSet(UNION rows)
    <3> HIDE DEF rows
    <3> QED  BY <2>2, <2>3, FS_UNION
  <2> QED  BY <2>4 DEF Units
<1>5. Cardinality(DOMAIN st) \in Nat /\ TotalText(st) \in Nat
  BY <1>1, <1>4, FS_CardinalityType DEF TotalText
<1> QED  BY <1>1, <1>2, <1>4, <1>5

(* A file whose entries all come from another one costs no more.             *)
LEMMA CostLemma ==
  ASSUME NEW st, IsStored(st), NEW new, IsStored(new), EntriesOf(new, st)
  PROVE  TotalText(new) <= TotalText(st)
<1>1. PICK f \in [Slots(new) -> Slots(st)] :
        /\ \A a, b \in Slots(new) : f[a] = f[b] => a = b
        /\ \A a \in Slots(new) : new[a[1]][a[2]] = st[f[a][1]][f[a][2]]
  BY DEF EntriesOf
<1>2. \A v : \A a, k : <<a, k>> \in Units(v) <=> a \in Slots(v) /\ k \in 1 .. Cost(v, a)
  BY DEF Units
<1>3. \A u \in Units(new) : u = <<u[1], u[2]>>
  BY DEF Units
<1>4. \A a \in Slots(new) : Cost(st, f[a]) = Cost(new, a)
  BY <1>1 DEF Cost
<1> DEFINE g == [u \in Units(new) |-> <<f[u[1]], u[2]>>]
<1>5. ASSUME NEW u \in Units(new)
      PROVE  g[u] = <<f[u[1]], u[2]>> /\ g[u] \in Units(st) /\ u[1] \in Slots(new)
  <2>1. u[1] \in Slots(new) /\ u[2] \in 1 .. Cost(new, u[1])
    BY <1>2, <1>3
  <2>2. <<f[u[1]], u[2]>> \in Units(st)
    BY <2>1, <1>2, <1>4
  <2> QED  BY <2>1, <2>2
<1>6. g \in [Units(new) -> Units(st)]
  BY <1>5
<1>7. ASSUME NEW u \in Units(new), NEW v \in Units(new), g[u] = g[v] PROVE u = v
  <2>1. f[u[1]] = f[v[1]] /\ u[2] = v[2]
    <3> HIDE DEF g
    <3> QED  BY <1>5, <1>7
  <2>2. u[1] = v[1]
    BY <2>1, <1>1, <1>5
  <2> QED  BY <2>1, <2>2, <1>3
<1>8. g \in Injection(Units(new), Units(st))
  <2> HIDE DEF g
  <2> QED  BY <1>6, <1>7 DEF Injection, IsInjective
<1> HIDE DEF g
<1> QED  BY <1>8, UnitsLemma, FS_Injection DEF TotalText

(* move keeps every entry, at its own place or at its neighbour's.           *)
LEMMA SwappedEntries ==
  ASSUME NEW st, IsStored(st), NEW s \in DOMAIN st,
         NEW i \in DOMAIN st[s], NEW j \in DOMAIN st[s]
  PROVE  EntriesOf(Swapped(st, s, i, j), st)
<1> DEFINE new == Swapped(st, s, i, j)
           To(k) == IF k = i THEN j ELSE IF k = j THEN i ELSE k
           f == [a \in Slots(new) |-> <<a[1], IF a[1] = s THEN To(a[2]) ELSE a[2]>>]
<1>1. DOMAIN new = DOMAIN st /\ \A t \in DOMAIN st \ {s} : new[t] = st[t]
  BY DEF Swapped
<1>2. DOMAIN new[s] = DOMAIN st[s] /\ \A k \in DOMAIN st[s] : new[s][k] = st[s][To(k)]
  BY DEF Swapped
<1>3. \A a \in Slots(new) :
        a = <<a[1], a[2]>> /\ a[1] \in DOMAIN new /\ a[2] \in DOMAIN new[a[1]]
  BY DEF Slots
<1>4. ASSUME NEW a \in Slots(new)
      PROVE  f[a] \in Slots(st) /\ new[a[1]][a[2]] = st[f[a][1]][f[a][2]]
  <2>1. f[a] = <<a[1], IF a[1] = s THEN To(a[2]) ELSE a[2]>>
    OBVIOUS
  <2> HIDE DEF f, new
  <2>2. CASE a[1] = s
    <3>1. a[2] \in DOMAIN st[s] /\ To(a[2]) \in DOMAIN st[s]
      BY <2>2, <1>2, <1>3
    <3> QED  BY <3>1, <2>1, <2>2, <1>2 DEF Slots
  <2>3. CASE a[1] # s
    BY <2>1, <2>3, <1>1, <1>3 DEF Slots
  <2> QED  BY <2>2, <2>3
<1>5. f \in [Slots(new) -> Slots(st)]
  <2>1. f = [a \in Slots(new) |-> f[a]]
    OBVIOUS
  <2> HIDE DEF f, new
  <2> QED  BY <1>4, <2>1
<1>6. ASSUME NEW a \in Slots(new), NEW b \in Slots(new), f[a] = f[b] PROVE a = b
  <2>1. /\ a[1] = b[1]
        /\ (IF a[1] = s THEN To(a[2]) ELSE a[2]) = (IF b[1] = s THEN To(b[2]) ELSE b[2])
    BY <1>6
  <2>2. a[2] = b[2]
    BY <2>1
  <2> QED  BY <2>1, <2>2, <1>3
<1> HIDE DEF f, new
<1> QED  BY <1>4, <1>5, <1>6 DEF EntriesOf, new

(* read() accepts what one operation makes of a file it accepts.             *)
LEMMA OperationReloads ==
  ASSUME NEW old, IsStored(old), ValidFile(old), NEW new, OneOperation(old, new)
  PROVE  ValidFile(new)
<1> USE QueueOpsAssumption
<1>1. ASSUME NEW s \in Scopes, NEW p \in Prompt,
             p.id \notin IdsIn(old), CanEnqueue(old, s, p), new = Enqueued(old, s, p)
      PROVE  ValidFile(new)
  <2>1. /\ DOMAIN new = DOMAIN old \union {s}
        /\ new[s] = Append(QueueOf(old, s), p)
        /\ \A t \in DOMAIN old \ {s} : new[t] = old[t]
    BY <1>1 DEF Enqueued, Put
  <2>2. Cardinality(DOMAIN new) <= MaxScopes
    <3>1. Cardinality(DOMAIN new) =
            IF s \in DOMAIN old THEN Cardinality(DOMAIN old) ELSE Cardinality(DOMAIN old) + 1
      BY <2>1, GrownLemma, UnitsLemma
    <3>2. Cardinality(DOMAIN old) \in Nat
      BY UnitsLemma
    <3> QED  BY <3>1, <3>2, <1>1 DEF CanEnqueue, ValidFile
  <2>3. QueueOf(old, s) \in Seq(Prompt)
    BY EntryLemma DEF QueueOf, Queue
  <2>4. Len(QueueOf(old, s)) \in Nat /\ Len(new[s]) = Len(QueueOf(old, s)) + 1
    BY <2>1, <2>3
  <2>5. Len(QueueOf(old, s)) < MaxPromptsPerScope /\ TotalText(new) <= MaxStoredText
    BY <1>1 DEF CanEnqueue
  <2>6. \A t \in DOMAIN new : Len(new[t]) <= MaxPromptsPerScope
    BY <2>1, <2>4, <2>5 DEF ValidFile
  <2> QED  BY <2>2, <2>5, <2>6 DEF ValidFile
<1>2. ASSUME NEW s \in DOMAIN old, NEW i \in DOMAIN old[s], NEW t \in Texts,
             TotalText(Rewritten(old, s, i, t)) <= MaxStoredText,
             new = Rewritten(old, s, i, t)
      PROVE  ValidFile(new)
  <2>1. DOMAIN new = DOMAIN old /\ \A u \in DOMAIN old \ {s} : new[u] = old[u]
    BY <1>2 DEF Rewritten
  <2>2. Len(new[s]) = Len(old[s])
    <3>1. IsStored(new)
      BY <1>2, RewrittenLemma
    <3>2. DOMAIN new[s] = DOMAIN old[s]
      BY <1>2 DEF Rewritten
    <3> QED  BY <3>1, <3>2, <2>1, EntryLemma, LengthLemma
  <2> QED  BY <2>1, <2>2, <1>2 DEF ValidFile
<1>3. ASSUME NEW s \in DOMAIN old, NEW i \in DOMAIN old[s], NEW j \in DOMAIN old[s],
             new = Swapped(old, s, i, j)
      PROVE  ValidFile(new)
  <2>1. DOMAIN new = DOMAIN old /\ \A u \in DOMAIN old \ {s} : new[u] = old[u]
    BY <1>3 DEF Swapped
  <2>2. IsStored(new) /\ EntriesOf(new, old)
    BY <1>3, SwappedLemma, SwappedEntries
  <2>3. Len(new[s]) = Len(old[s])
    <3>1. DOMAIN new[s] = DOMAIN old[s]
      BY <1>3 DEF Swapped
    <3> QED  BY <3>1, <2>1, <2>2, EntryLemma, LengthLemma
  <2>4. TotalText(new) <= MaxStoredText
    BY <2>2, CostLemma, UnitsLemma DEF ValidFile
  <2> QED  BY <2>1, <2>3, <2>4 DEF ValidFile
<1>4. ASSUME NEW s \in DOMAIN old, NEW i \in DOMAIN old[s], new = Removed(old, s, i)
      PROVE  ValidFile(new)
  <2>1. IsStored(new) /\ EntriesOf(new, old)
    BY <1>4, RemovedLemma
  <2>2. TotalText(new) <= MaxStoredText
    BY <2>1, CostLemma, UnitsLemma DEF ValidFile
  <2>3. /\ DOMAIN new \subseteq DOMAIN old
        /\ s \in DOMAIN new => new[s] = Without(old[s], i)
        /\ \A t \in DOMAIN new \ {s} : new[t] = old[t]
    BY <1>4 DEF Removed, PutOrDelete, Put, Delete
  <2>4. Cardinality(DOMAIN new) <= MaxScopes
    <3>1. Cardinality(DOMAIN new) <= Cardinality(DOMAIN old)
      BY <2>3, UnitsLemma, FS_Subset
    <3> QED  BY <3>1, <2>1, UnitsLemma DEF ValidFile
  <2>5. ASSUME s \in DOMAIN new PROVE Len(new[s]) <= MaxPromptsPerScope
    <3>1. DOMAIN Without(old[s], i) = 1 .. Len(old[s]) - 1
      BY DEF Without
    <3>2. DOMAIN new[s] = 1 .. Len(old[s]) - 1
      BY <3>1, <2>3, <2>5
    <3>3. Len(old[s]) \in Nat \ {0} /\ Len(old[s]) <= MaxPromptsPerScope
      BY EntryLemma DEF ValidFile
    <3>4. Len(new[s]) \in Nat /\ DOMAIN new[s] = 1 .. Len(new[s])
      BY <2>1, <2>5, EntryLemma
    <3>5. Len(new[s]) = Len(old[s]) - 1
      BY <3>2, <3>3, <3>4, LengthLemma
    <3> QED  BY <3>3, <3>5
  <2> QED  BY <2>2, <2>3, <2>4, <2>5 DEF ValidFile
<1>5. ASSUME NEW from \in DOMAIN old, NEW to \in Scopes \ {from},
             Len(Merged(old, from, to)) <= MaxPromptsPerScope, new = Moved(old, from, to)
      PROVE  ValidFile(new)
  <2>1. IsStored(new) /\ EntriesOf(new, old)
    BY <1>5, MovedLemma
  <2>2. TotalText(new) <= MaxStoredText
    BY <2>1, CostLemma, UnitsLemma DEF ValidFile
  <2>3. /\ DOMAIN new = (DOMAIN old \union {to}) \ {from}
        /\ new[to] = Merged(old, from, to)
        /\ \A t \in DOMAIN new \ {to} : t \in DOMAIN old /\ new[t] = old[t]
    BY <1>5 DEF Moved, Put, Delete
  <2>4. Cardinality(DOMAIN new) <= MaxScopes
    <3> DEFINE both == DOMAIN old \union {to}
    <3>1. /\ IsFiniteSet(both)
          /\ Cardinality(both) <= Cardinality(DOMAIN old) + 1
          /\ Cardinality(both) \in Nat
      BY UnitsLemma, GrownLemma
    <3>2. Cardinality(DOMAIN new) = Cardinality(both) - 1
      <4>1. from \in both
        OBVIOUS
      <4> HIDE DEF both
      <4>2. DOMAIN new = both \ {from}
        BY <2>3 DEF both
      <4> QED  BY <4>1, <4>2, <3>1, FS_RemoveElement, ZenonT(60)
    <3> HIDE DEF both
    <3> QED  BY <3>1, <3>2, UnitsLemma DEF ValidFile
  <2> QED  BY <2>2, <2>3, <2>4, <1>5 DEF ValidFile
<1> QED  BY <1>1, <1>2, <1>3, <1>4, <1>5 DEF OneOperation

(* What any mutation has written, the next process reads back: no sequence   *)
(* of calls, failed writes and restarts leaves a file over a storage limit,  *)
(* on which read() would throw for ever.                                     *)
THEOREM FileAlwaysReloads == Spec => []FileReloads
<1>1. Init => FileReloads /\ Planned
  <2> SUFFICES ASSUME Init PROVE FileReloads /\ Planned
    OBVIOUS
  <2>1. file = Nothing /\ DOMAIN file = {}
    BY DEF Init, Nothing
  <2>2. Units(file) = {}
    BY <2>1 DEF Units, Slots
  <2> QED  BY <2>1, <2>2, FS_EmptySet, QueueOpsAssumption
           DEF Init, Planned, FileReloads, ValidFile, TotalText
<1>2. ASSUME Inductive, Planned, FileReloads, [Next]_vars PROVE FileReloads'
  <2>1. IsStored(file)
    BY <1>2 DEF Inductive, TypeOK
  <2>2. CASE file' = file
    BY <2>2, <1>2 DEF FileReloads
  <2>3. CASE OneOperation(file, file')
    BY <2>1, <2>3, <1>2, OperationReloads DEF FileReloads
  <2> QED  BY <2>2, <2>3, <1>2, FileMoves
<1>3. Inductive /\ Planned /\ FileReloads /\ [Next]_vars => Planned' /\ FileReloads'
  BY <1>2, PlanHolds
<1> QED  BY <1>1, <1>3, InductiveAlways, PTL DEF Spec
-----------------------------------------------------------------------------
(* The instance of DurableQueue carries its own copies of QueueOps; they are *)
(* the same operators.                                                       *)
LEMMA SameCost == ASSUME NEW f PROVE Atomic!TotalText(f) = TotalText(f)
BY Zenon DEF Atomic!TotalText, TotalText, Atomic!Units, Units, Atomic!Slots, Slots,
             Atomic!Cost, Cost, Atomic!Cardinality, Cardinality

LEMMA SameQueueOf ==
  ASSUME NEW f, NEW s PROVE Atomic!QueueOf(f, s) = QueueOf(f, s)
BY DEF Atomic!QueueOf, QueueOf

LEMMA SamePut ==
  ASSUME NEW f, NEW s, NEW q
  PROVE  /\ Atomic!Put(f, s, q) = Put(f, s, q)
         /\ Atomic!Delete(f, s) = Delete(f, s)
         /\ Atomic!PutOrDelete(f, s, q) = PutOrDelete(f, s, q)
BY DEF Atomic!Put, Put, Atomic!Delete, Delete, Atomic!PutOrDelete, PutOrDelete

LEMMA SameEnqueue ==
  ASSUME NEW f, NEW s, NEW p
  PROVE  /\ Atomic!Enqueued(f, s, p) = Enqueued(f, s, p)
         /\ Atomic!CanEnqueue(f, s, p) <=> CanEnqueue(f, s, p)
<1>1. Atomic!Enqueued(f, s, p) = Enqueued(f, s, p)
  BY SamePut, SameQueueOf DEF Atomic!Enqueued, Enqueued
<1>2. Atomic!Cardinality(DOMAIN f) = Cardinality(DOMAIN f)
  BY Zenon DEF Atomic!Cardinality, Cardinality
<1> QED  BY <1>1, <1>2, SameQueueOf, SameCost DEF Atomic!CanEnqueue, CanEnqueue

LEMMA SameRewritten ==
  ASSUME NEW f, NEW s, NEW i, NEW t
  PROVE  Atomic!Rewritten(f, s, i, t) = Rewritten(f, s, i, t)
BY DEF Atomic!Rewritten, Rewritten

LEMMA SameSwapped ==
  ASSUME NEW f, NEW s, NEW i, NEW j
  PROVE  Atomic!Swapped(f, s, i, j) = Swapped(f, s, i, j)
BY DEF Atomic!Swapped, Swapped

LEMMA SameRemoved ==
  ASSUME NEW f, NEW s, NEW i PROVE Atomic!Removed(f, s, i) = Removed(f, s, i)
<1>1. ASSUME NEW q PROVE Atomic!Without(q, i) = Without(q, i)
  BY DEF Atomic!Without, Without
<1> QED  BY <1>1, SamePut DEF Atomic!Removed, Removed

LEMMA SameMoved ==
  ASSUME NEW f, NEW from, NEW to
  PROVE  /\ Atomic!Merged(f, from, to) = Merged(f, from, to)
         /\ Atomic!Moved(f, from, to) = Moved(f, from, to)
<1>1. Atomic!Merged(f, from, to) = Merged(f, from, to)
  BY SameQueueOf DEF Atomic!Merged, Merged
<1> QED  BY <1>1, SamePut DEF Atomic!Moved, Moved

LEMMA SameIds ==
  /\ Atomic!Prompt = Prompt
  /\ \A f : Atomic!IdsIn(f) = IdsIn(f)
BY DEF Atomic!Prompt, Prompt, Atomic!IdsIn, IdsIn, Atomic!IdsOf, IdsOf

LEMMA OneAbstractStep == OneOperation(file, file') => Atomic!Next
<1> SUFFICES ASSUME OneOperation(file, file') PROVE Atomic!Next
  OBVIOUS
<1>1. CASE \E s \in Scopes, p \in Prompt : /\ p.id \notin IdsIn(file)
                                         /\ CanEnqueue(file, s, p)
                                         /\ file' = Enqueued(file, s, p)
  BY <1>1, SameEnqueue, SameIds DEF Atomic!Next, Atomic!Enqueue
<1>2. CASE \E s \in DOMAIN file : \E i \in DOMAIN file[s], t \in Texts :
             /\ TotalText(Rewritten(file, s, i, t)) <= MaxStoredText
             /\ file' = Rewritten(file, s, i, t)
  BY <1>2, SameRewritten, SameCost DEF Atomic!Next, Atomic!Edit
<1>3. CASE \E s \in DOMAIN file : \E i, j \in DOMAIN file[s] :
             j \in {i - 1, i + 1} /\ file' = Swapped(file, s, i, j)
  BY <1>3, SameSwapped DEF Atomic!Next, Atomic!Reorder
<1>4. CASE \E s \in DOMAIN file : \E i \in DOMAIN file[s] : file' = Removed(file, s, i)
  BY <1>4, SameRemoved DEF Atomic!Next, Atomic!Take
<1>5. CASE \E from \in DOMAIN file : \E to \in Scopes \ {from} :
             /\ Len(Merged(file, from, to)) <= MaxPromptsPerScope
             /\ file' = Moved(file, from, to)
  BY <1>5, SameMoved DEF Atomic!Next, Atomic!HandOver
<1> QED  BY <1>1, <1>2, <1>3, <1>4, <1>5 DEF OneOperation

(* The promise chain with its clone, write and rename is an atomic queue:    *)
(* whatever fails or restarts, and however calls overlap, the file moves by  *)
(* whole operations, each on the contents left by the one before.            *)
THEOREM QueueIsAtomic == Spec => AtomicQueue
<1>1. Init => Atomic!Init /\ Planned
  BY DEF Init, Atomic!Init, Planned, Nothing, Atomic!Nothing
<1>2. Inductive /\ Planned /\ [Next]_vars => Planned' /\ [Atomic!Next]_file
  BY OneAbstractStep, PlanHolds, FileMoves
<1> QED  BY <1>1, <1>2, InductiveAlways, PTL DEF Spec, AtomicQueue, Atomic!Spec
=============================================================================
