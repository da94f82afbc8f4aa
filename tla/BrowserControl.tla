--------------------------- MODULE BrowserControl ---------------------------
(***************************************************************************)
(* Which browser controls the console (auth/control.ts) and whether its    *)
(* voice session lets remote tools change anything                         *)
(* (integrations/control/service.ts).                                      *)
(*                                                                         *)
(* Leases are timestamps that every method compares with the clock, so an  *)
(* expired lease and none are the same to all callers: here a lease lapses *)
(* in a step of its own, and renewing a live one changes nothing.          *)
(***************************************************************************)
EXTENDS Naturals, Sequences, SequencesExt

CONSTANTS
  Sessions,        \* browser sessions
  Voices,          \* voice session ids
  MaxStopped,      \* cancellation tombstones that are kept
  None

ASSUME BrowserControlAssumption ==
  /\ MaxStopped \in Nat \ {0}
  /\ None \notin Sessions \union Voices

VARIABLES
  owner,           \* the browser the console is reserved for
  live,            \* its lease has not expired
  voice,           \* the active voice session
  stopped          \* tombstones of stopped voice sessions, oldest first, each
                   \* with the browsers that stopped it (which the code forgets)

control == <<owner, live, voice, stopped>>

NoVoice == [session |-> None, id |-> None]

ControlTypeOK ==
  /\ owner \in Sessions \union {None}
  /\ live \in BOOLEAN
  /\ voice \in [session : Sessions, id : Voices] \union {NoVoice}
  /\ stopped \in Seq([id : Voices, by : SUBSET Sessions])
  /\ Len(stopped) <= MaxStopped

ControlInit ==
  /\ owner = None /\ live = FALSE
  /\ voice = NoVoice
  /\ stopped = <<>>

\* ownerSessionId: an expired reservation has no authority.
LiveOwner == IF live THEN owner ELSE None

\* connect: only the reserved browser, or the first where that is allowed
Connect(s) ==
  /\ owner \in {None, s}
  /\ owner' = s /\ live' = TRUE
  /\ UNCHANGED <<voice, stopped>>

\* take: an explicit takeover
Take(s) ==
  /\ owner' = s /\ live' = TRUE
  /\ UNCHANGED <<voice, stopped>>

\* No socket renewed the lease in time; the reservation stays.
LeaseLapses ==
  /\ live
  /\ live' = FALSE
  /\ UNCHANGED <<owner, voice, stopped>>

\* release: a logout of the owner, whose lease may have expired
Release(s) ==
  /\ owner = s
  /\ owner' = None /\ live' = FALSE
  /\ UNCHANGED <<voice, stopped>>

Stopped == {stopped[i].id : i \in DOMAIN stopped}

\* Mutant: a start that comes after its stop is let in.
StartVoice_IgnoresStop(s, v) ==
  /\ LiveOwner = s
  /\ voice' = [session |-> s, id |-> v]
  /\ UNCHANGED <<owner, live, stopped>>

\* startVoice: by the live owner, with an id that was not stopped before
StartVoice(s, v) ==
  /\ LiveOwner = s
  /\ v \notin Stopped
  /\ voice' = [session |-> s, id |-> v]
  /\ UNCHANGED <<owner, live, stopped>>

(* stopVoice leaves a tombstone against a start that comes late, and ends    *)
(* the voice session if it is this browser's.                               *)
StopVoice(s, v) ==
  LET all == IF v \in Stopped
             THEN [i \in DOMAIN stopped |-> IF stopped[i].id = v
                     THEN [stopped[i] EXCEPT !.by = @ \union {s}] ELSE stopped[i]]
             ELSE Append(stopped, [id |-> v, by |-> {s}])
  IN
  /\ stopped' = IF Len(all) > MaxStopped THEN Tail(all) ELSE all
  /\ voice' = IF voice = [session |-> s, id |-> v] THEN NoVoice ELSE voice
  /\ UNCHANGED <<owner, live>>

\* prune: no heartbeat came in time
VoiceLapses ==
  /\ voice # NoVoice
  /\ voice' = NoVoice
  /\ UNCHANGED <<owner, live, stopped>>

\* prune: a tombstone expires; a repeated stop had renewed it in its place.
TombstoneLapses ==
  /\ \E i \in DOMAIN stopped : stopped' = RemoveAt(stopped, i)
  /\ UNCHANGED <<owner, live, voice>>

(* authorizeMutation: a live voice session of the live owner; one whose     *)
(* browser lost the console is revoked when it is found.                    *)
Authorizes == voice # NoVoice /\ LiveOwner = voice.session
RevokeVoice ==
  /\ voice' = IF voice # NoVoice /\ LiveOwner # voice.session THEN NoVoice ELSE voice
  /\ UNCHANGED <<owner, live, stopped>>

ControlNext ==
  \/ \E s \in Sessions :
       \/ Connect(s) \/ Take(s) \/ Release(s)
       \/ \E v \in Voices : StartVoice(s, v) \/ StopVoice(s, v)
  \/ LeaseLapses \/ VoiceLapses \/ TombstoneLapses
=============================================================================
