------------------------ MODULE SettingsApplierProofs -----------------------
(***************************************************************************)
(* Proofs about SettingsApplier for any sources, requests and edits and    *)
(* any number of crashes and failures of the helper.  `SettingsInv`,       *)
(* stated first with the reasons for its parts, is inductive:              *)
(* one lemma per action, most of which rest on `QuietStep` (nothing but    *)
(* files, journal and the helper's memory changes), `RestartingStep` (the  *)
(* progress of a restart is noted) or `FreshStep` (the helper starts or    *)
(* ends a request).  The second half adds `SavedInv`: where the bytes an   *)
(* owner saved are while a file holds others.                              *)
(***************************************************************************)
EXTENDS SettingsApplier, TLAPS
USE DEF server, outside
-----------------------------------------------------------------------------
(* Why BaselineIsProved and UnprovedIsReported hold, in terms of what the    *)
(* helper is doing for the request it serves: `Doing` covers the replacement *)
(* of a file on the way.                                                     *)
Doing(stages) == helper.at \in stages \/ (helper.at = "replace" /\ helper.write.back \in stages)
Committing == {"resume", "prepare", "write", "undo"}
Restarting == {"boundary", "restart", "prove", "capture", "receipt"}
RecoveringStages == {"swap", "rerun", "reprove", "unswap"}

Progresses == {"none", "restarting", "restarted", "recovering", "recovered", "recovery-failed"}
Writes == [source : Sources \union {Absent}, bytes : Contents \union {Absent},
           was : Contents \union {Absent}, back : {"idle", "write", "undo", "swap", "unswap"}]
Helpers == [at : Stages, request : Requests \union {Absent}, todo : SUBSET Sources,
            held : [Sources -> Contents \union {Absent}], write : Writes,
            result : {"complete", "failed"}, crossed : BOOLEAN, recovered : BOOLEAN,
            told : Progresses]
Asked == [kind : {"commit", "restart", "recover"}, touched : SUBSET Sources, expected : Graphs]
States == [state : {"new", "running", "complete", "failed"}, restart : Progresses]
Journals == [phase : {"none", "prepared", "committing", "complete", "rolled-back"},
             written : SUBSET Sources]

SettingsTypes ==
  /\ file \in Graphs /\ saved \in Graphs
  /\ rac \in Graphs \union {Absent} /\ baseline \in Graphs \union {Absent}
  /\ asked \in [Requests -> Asked \union {Absent}]
  /\ place \in [Requests -> {"none", "queued", "claimed", "done"}]
  /\ status \in [Requests -> States]
  /\ journal \in [Requests -> Journals]
  /\ helper \in Helpers /\ lost \subseteq Sources
  /\ silent \subseteq Requests /\ starter \in {"helper", "system"}
  /\ helper.at = "replace" =>
       /\ helper.write.source \in Sources /\ helper.write.bytes \in Contents
       /\ helper.write.was \in Contents /\ helper.write.back # "idle"

\* One request is claimed at most, and the helper serves that.
OneClaim ==
  /\ \A r, q \in claimed : r = q
  /\ \A r \in Requests : place[r] = "none" => status[r] = [state |-> "new", restart |-> "none"]
  /\ \A r \in Requests : place[r] # "none" =>
       /\ asked[r] \in Asked
       /\ asked[r].kind # "commit" => asked[r].touched = Sources
       /\ asked[r].kind = "commit" => status[r].restart = "none"
  /\ helper.at # "idle" => serving \in claimed
  /\ helper.at \notin {"idle", "claim", "report", "remove"} => status[serving].state = "running"
  /\ helper.at # "idle" /\ asked[serving].kind = "commit" => helper.told = "none"
  /\ helper.at = "claim" => ~helper.crossed

UnderWay == {"restarting", "recovering"}
KindOfWork ==
  /\ Doing(Committing) => asked[serving].kind = "commit"
  /\ Doing({"check", "baseline"}) => asked[serving].kind # "recover"
  /\ Doing(Restarting) => asked[serving].kind = "restart"
  /\ Doing(RecoveringStages) =>
       \/ /\ helper.crossed /\ asked[serving].kind = "restart"
          /\ status[serving].restart \in UnderWay /\ helper.told \in UnderWay
       \/ ~helper.crossed /\ asked[serving].kind = "recover"
  /\ helper.at \in Restarting \ {"boundary"} =>
       /\ status[serving].restart = "restarting" /\ helper.told = "restarting"
       /\ helper.crossed

\* Where the server runs what a boot has proved, or the system has started it.
Good == starter = "system" \/ rac \in proved
KnownGood ==
  /\ helper.at \in {"capture", "receipt"} => Good /\ want \in proved
  /\ helper.at \in {"rerun", "reprove"} => baseline \in proved
  /\ Doing({"unswap"}) /\ helper.recovered => Good
  /\ helper.at = "report" /\ asked[serving].kind # "commit"
       /\ (helper.result = "complete" \/ status[serving].state = "complete") => Good

(* A request says that it did not get as far as a proof, and the helper that *)
(* serves it will not say otherwise.                                         *)
Doubts == {"restarting", "recovering", "recovery-failed"}
Serves(r) == r = serving /\ helper.at \notin {"idle", "claim", "remove"}
Flagged(r) ==
  \/ asked[r].kind = "recover"
  \/ status[r].restart \in Doubts /\ (Serves(r) => helper.told \in Doubts)
DoubtIsOnRecord ==
  Good \/ \E r \in Requests : Flagged(r) /\ status[r].state \in {"running", "failed"}

SettingsInv ==
  SettingsTypes /\ OneClaim /\ KindOfWork /\ KnownGood /\ BaselineIsProved /\ DoubtIsOnRecord

(* Why SavedSettingsKept holds.  The bytes an owner saved are in the file,   *)
(* or, while the file holds others: in the manifest of the commit that wrote *)
(* them, or in the memory of the helper that recovers.  `Kept` is what the   *)
(* property asks of some bytes; an edit in between is told by its bytes,     *)
(* which nobody else writes.                                                 *)
Kept(s, v) == v = saved[s] \/ s \in lost \/ Partial(s)
Rewritten(r, s) ==
  r \in claimed /\ journal[r].phase = "committing" /\ s \in journal[r].written
Aside(s) ==
  /\ helper.held[s] # Absent
  /\ \/ Doing({"swap", "rerun", "reprove"})
     \/ helper.at = "unswap" /\ s \in helper.todo
     \/ /\ helper.at = "replace" /\ helper.write.back = "unswap"
        /\ s \in helper.todo \union {helper.write.source}

SavedStands(s) ==
  /\ ~Aside(s) /\ (\A r \in Requests : ~Rewritten(r, s)) => Kept(s, file[s])
  /\ \A r \in Requests : Rewritten(r, s) =>
       Kept(s, IF file[s] = r THEN asked[r].expected[s] ELSE file[s])
  /\ Aside(s) => /\ baseline # Absent
                 /\ Kept(s, IF file[s] = baseline[s] THEN helper.held[s] ELSE file[s])

\* A journal names the files of its commit.
JournalsTell ==
  \A r \in Requests :
    /\ journal[r].written \subseteq IF place[r] = "none" THEN {} ELSE asked[r].touched
    /\ journal[r].phase # "none" => place[r] \in {"claimed", "done"} /\ asked[r].kind = "commit"

\* What the commit at work has written is in its journal until it is undone.
CommitIsOpen ==
  /\ helper.at \in {"check", "baseline", "prepare"} => journal[serving].phase # "committing"
  /\ Doing({"write", "undo"}) =>
       \/ journal[serving].phase = "committing"
       \/ journal[serving].phase = "prepared" /\ journal[serving].written = {}
  /\ Doing({"write"}) => helper.todo \subseteq asked[serving].touched
  /\ Doing({"undo"}) =>
       /\ helper.todo \subseteq journal[serving].written
       /\ \A s \in journal[serving].written \ helper.todo :
            Kept(s, file[s]) \/ (helper.at = "replace" /\ helper.write.source = s)

\* No edit brings bytes that were there before.
Seen(v) == v \notin Edits \ edited

\* What the helper is about to put into a file, and what it has taken out.
WriteIsDue ==
  LET w == helper.write IN
  helper.at = "replace" =>
    \/ /\ w.back = "write" /\ w.was = want[w.source] /\ w.bytes = serving
       /\ w.source \in journal[serving].written /\ journal[serving].phase = "committing"
    \/ /\ w.back = "undo" /\ w.was = serving /\ w.bytes = want[w.source]
       /\ w.source \in journal[serving].written /\ journal[serving].phase = "committing"
    \/ /\ w.back = "swap" /\ baseline # Absent /\ w.bytes = baseline[w.source]
       /\ helper.held[w.source] = Absent /\ w.source \notin helper.todo /\ Seen(w.was)
    \/ /\ w.back = "unswap" /\ baseline # Absent /\ w.was = baseline[w.source]
       /\ w.bytes = helper.held[w.source]
HeldIsNew == \A s \in Sources : helper.held[s] # Absent =>
  /\ Doing(RecoveringStages) \/ helper.at \in {"report", "remove"}
  /\ Doing({"swap"}) => s \notin helper.todo

EditsAreNew == \A s \in Sources :
  /\ Seen(file[s]) /\ Seen(helper.held[s])
  /\ baseline # Absent => Seen(baseline[s])
  /\ \A r \in Requests : place[r] # "none" => Seen(asked[r].expected[s])

SavedInv ==
  /\ \A s \in Sources : SavedStands(s)
  /\ JournalsTell /\ CommitIsOpen /\ WriteIsDue /\ HeldIsNew /\ EditsAreNew
-----------------------------------------------------------------------------
Results == {"complete", "failed"}

(* ------------------------ the helper's memory ---------------------------- *)

LEMMA StageNames ==
  /\ "idle" \in Stages /\ "claim" \in Stages /\ "resume" \in Stages /\ "check" \in Stages
  /\ "baseline" \in Stages /\ "prepare" \in Stages /\ "write" \in Stages /\ "undo" \in Stages
  /\ "replace" \in Stages /\ "boundary" \in Stages /\ "restart" \in Stages /\ "prove" \in Stages
  /\ "capture" \in Stages /\ "receipt" \in Stages /\ "swap" \in Stages /\ "rerun" \in Stages /\ "reprove" \in Stages
  /\ "unswap" \in Stages /\ "report" \in Stages /\ "remove" \in Stages
  /\ "complete" \in Results /\ "failed" \in Results
  /\ Sources \in SUBSET Sources /\ {} \in SUBSET Sources
  /\ "none" \in Progresses /\ "restarting" \in Progresses /\ "restarted" \in Progresses
  /\ "recovering" \in Progresses /\ "recovered" \in Progresses
  /\ "recovery-failed" \in Progresses
BY DEF Stages, Results, Progresses

LEMMA HelperTypes ==
  ASSUME NEW h \in Helpers, NEW x \in Stages
  PROVE  /\ [h EXCEPT !.at = x] \in Helpers
         /\ \A t \in SUBSET Sources :
              /\ [h EXCEPT !.todo = t] \in Helpers
              /\ [h EXCEPT !.at = x, !.todo = t] \in Helpers
              /\ \A z \in Results : [h EXCEPT !.at = x, !.todo = t, !.result = z] \in Helpers
              /\ \A b \in BOOLEAN : [h EXCEPT !.at = x, !.todo = t, !.recovered = b] \in Helpers
         /\ \A z \in Results : [h EXCEPT !.at = x, !.result = z] \in Helpers
         /\ \A p \in Progresses :
              /\ [h EXCEPT !.told = p] \in Helpers
              /\ \A b \in BOOLEAN : [h EXCEPT !.at = x, !.crossed = b, !.told = p] \in Helpers
BY ZenonT(60) DEF Helpers, Results

LEMMA WriteTypes ==
  ASSUME NEW h \in Helpers, NEW x \in Stages, NEW w \in Writes
  PROVE  /\ \A t \in SUBSET Sources :
              /\ [[h EXCEPT !.at = x, !.write = w] EXCEPT !.todo = t] \in Helpers
              /\ \A z \in Results :
                   [h EXCEPT !.at = x, !.write = w, !.todo = t, !.result = z] \in Helpers
              /\ \A b \in BOOLEAN :
                   [h EXCEPT !.at = x, !.write = w, !.todo = t, !.recovered = b] \in Helpers
         /\ \A z \in Results : [h EXCEPT !.at = x, !.write = w, !.result = z] \in Helpers
         /\ \A b \in BOOLEAN : [h EXCEPT !.at = x, !.write = w, !.recovered = b] \in Helpers
         /\ \A s \in Sources, v \in Contents \union {Absent} :
              [h EXCEPT !.at = x, !.write = w, !.held[s] = v] \in Helpers
BY ZenonT(60) DEF Helpers, Results

LEMMA HeldTypes ==
  ASSUME NEW h \in Helpers, NEW t \in SUBSET Sources, NEW b \in BOOLEAN, NEW s \in Sources,
         NEW v \in Contents \union {Absent}
  PROVE  [h EXCEPT !.todo = t, !.held[s] = v, !.recovered = b] \in Helpers
BY ZenonT(60) DEF Helpers

\* A replacement that `ReplaceFile` or its failure can take from here.
Replaceable(w) ==
  /\ w \in Writes /\ w.source \in Sources /\ w.bytes \in Contents /\ w.was \in Contents
  /\ w.back # "idle"

(* A step that changes no request, no progress and no proof keeps all that  *)
(* does not speak of the helper's stage.                                    *)
Quiet == UNCHANGED <<asked, place, status, rac, starter, silent, baseline, proved>>

LEMMA QuietStep ==
  ASSUME SettingsInv, Quiet,
         file' \in Graphs, saved' \in Graphs, lost' \subseteq Sources,
         journal' \in [Requests -> Journals],
         helper' \in Helpers, helper'.request = serving, helper'.told = helper.told,
         helper.at \notin {"idle", "claim", "report", "remove"},
         helper'.at \notin {"idle", "claim", "remove"},
         helper'.at = "replace" => Replaceable(helper'.write)
  PROVE  (SettingsTypes /\ OneClaim /\ BaselineIsProved /\ DoubtIsOnRecord)'
<1>1. SettingsTypes'
  BY DEF SettingsInv, SettingsTypes, Quiet, Replaceable
<1>2. OneClaim'
  BY DEF SettingsInv, OneClaim, Quiet, claimed, serving
<1>3. (BaselineIsProved /\ DoubtIsOnRecord)'
  BY DEF SettingsInv, BaselineIsProved, DoubtIsOnRecord, Good, Flagged, Serves, serving, Quiet
<1> QED  BY <1>1, <1>2, <1>3

LEMMA ServingLemma ==
  ASSUME SettingsInv, helper.at # "idle"
  PROVE  /\ helper \in Helpers /\ file \in Graphs /\ saved \in Graphs /\ lost \subseteq Sources
         /\ serving \in Requests /\ asked[serving] \in Asked /\ journal \in [Requests -> Journals]
         /\ journal[serving].written \in SUBSET Sources /\ asked[serving].touched \in SUBSET Sources
         /\ want \in Graphs /\ status[serving] \in States /\ serving \in claimed
<1>1. helper \in Helpers /\ file \in Graphs /\ saved \in Graphs /\ lost \subseteq Sources
      /\ journal \in [Requests -> Journals] /\ status \in [Requests -> States]
  BY DEF SettingsInv, SettingsTypes
<1>2. serving \in claimed /\ serving \in Requests /\ asked[serving] \in Asked
  BY DEF SettingsInv, OneClaim, claimed
<1>3. journal[serving] \in Journals
  BY <1>1, <1>2
<1> QED  BY <1>1, <1>2, <1>3 DEF Journals, Asked, want

LEMMA ResumeStep == SettingsInv /\ Resume => SettingsInv'
<1> SUFFICES ASSUME SettingsInv, Resume PROVE SettingsInv'
  OBVIOUS
<1> USE DEF OnlyHelper
<1>1. /\ helper \in Helpers /\ file \in Graphs /\ saved \in Graphs /\ lost \subseteq Sources
      /\ serving \in Requests /\ asked[serving] \in Asked /\ journal \in [Requests -> Journals]
      /\ journal[serving].written \in SUBSET Sources /\ asked[serving].touched \in SUBSET Sources
  BY ServingLemma DEF Resume
<1>2. Quiet /\ saved' \in Graphs /\ lost' \subseteq Sources /\ file' \in Graphs
      /\ journal' \in [Requests -> Journals]
  BY <1>1 DEF Resume, GoTo, SetJournal, OnlyJournal, Quiet, Graphs, Contents, Journals
<1>3. CASE helper' = [helper EXCEPT !.at = "report"]
  <2>1. helper' \in Helpers
    BY <1>1, <1>3, StageNames, HelperTypes, Zenon
  <2>2. /\ (KindOfWork /\ KnownGood)' /\ helper'.request = serving /\ helper'.told = helper.told
        /\ helper'.at = "report"
    BY <1>1, <1>2, <1>3 DEF SettingsInv, Resume, GoTo, SetJournal, OnlyJournal, OneClaim, KindOfWork, KnownGood, Good, UnderWay, Quiet, Helpers, Doing, Committing,
       Restarting, RecoveringStages, want, serving, Graphs
  <2> QED  BY <1>1, <1>2, <2>1, <2>2, QuietStep DEF SettingsInv, Resume
<1>4. CASE helper' = [helper EXCEPT !.at = "undo", !.todo = journal[serving].written]
  <2>1. helper' \in Helpers
    BY <1>1, <1>4, StageNames, HelperTypes, Zenon
  <2>2. /\ (KindOfWork /\ KnownGood)' /\ helper'.request = serving /\ helper'.told = helper.told
        /\ helper'.at = "undo"
    BY <1>1, <1>2, <1>4 DEF SettingsInv, Resume, GoTo, SetJournal, OnlyJournal, OneClaim, KindOfWork, KnownGood, Good, UnderWay, Quiet, Helpers, Doing, Committing,
       Restarting, RecoveringStages, want, serving, Graphs
  <2> QED  BY <1>1, <1>2, <2>1, <2>2, QuietStep DEF SettingsInv, Resume
<1>5. CASE helper' = [helper EXCEPT !.at = "check"]
  <2>1. helper' \in Helpers
    BY <1>1, <1>5, StageNames, HelperTypes, Zenon
  <2>2. /\ (KindOfWork /\ KnownGood)' /\ helper'.request = serving /\ helper'.told = helper.told
        /\ helper'.at = "check"
    BY <1>1, <1>2, <1>5 DEF SettingsInv, Resume, GoTo, SetJournal, OnlyJournal, OneClaim, KindOfWork, KnownGood, Good, UnderWay, Quiet, Helpers, Doing, Committing,
       Restarting, RecoveringStages, want, serving, Graphs
  <2> QED  BY <1>1, <1>2, <2>1, <2>2, QuietStep DEF SettingsInv, Resume
<1> QED  BY <1>3, <1>4, <1>5 DEF Resume, GoTo, SetJournal, OnlyJournal

LEMMA CheckManifestStep == SettingsInv /\ CheckManifest => SettingsInv'
<1> SUFFICES ASSUME SettingsInv, CheckManifest PROVE SettingsInv'
  OBVIOUS
<1> USE DEF OnlyHelper
<1>1. /\ helper \in Helpers /\ file \in Graphs /\ saved \in Graphs /\ lost \subseteq Sources
      /\ serving \in Requests /\ asked[serving] \in Asked /\ journal \in [Requests -> Journals]
      /\ journal[serving].written \in SUBSET Sources /\ asked[serving].touched \in SUBSET Sources
  BY ServingLemma DEF CheckManifest
<1>2. Quiet /\ saved' \in Graphs /\ lost' \subseteq Sources /\ file' \in Graphs
      /\ journal' \in [Requests -> Journals]
  BY <1>1 DEF CheckManifest, GoTo, Fails, Quiet, Graphs, Contents, Journals
<1>3. CASE helper' = [helper EXCEPT !.at = "baseline"]
  <2>1. helper' \in Helpers
    BY <1>1, <1>3, StageNames, HelperTypes, Zenon
  <2>2. /\ (KindOfWork /\ KnownGood)' /\ helper'.request = serving /\ helper'.told = helper.told
        /\ helper'.at = "baseline"
    BY <1>1, <1>2, <1>3 DEF SettingsInv, CheckManifest, GoTo, Fails, OneClaim, KindOfWork, KnownGood, Good, UnderWay, Quiet, Helpers, Doing, Committing,
       Restarting, RecoveringStages, want, serving, Graphs
  <2> QED  BY <1>1, <1>2, <2>1, <2>2, QuietStep DEF SettingsInv, CheckManifest
<1>4. CASE helper' = [helper EXCEPT !.at = "report", !.result = "failed"]
  <2>1. helper' \in Helpers
    BY <1>1, <1>4, StageNames, HelperTypes, Zenon
  <2>2. /\ (KindOfWork /\ KnownGood)' /\ helper'.request = serving /\ helper'.told = helper.told
        /\ helper'.at = "report"
    BY <1>1, <1>2, <1>4 DEF SettingsInv, CheckManifest, GoTo, Fails, OneClaim, KindOfWork, KnownGood, Good, UnderWay, Quiet, Helpers, Doing, Committing,
       Restarting, RecoveringStages, want, serving, Graphs
  <2> QED  BY <1>1, <1>2, <2>1, <2>2, QuietStep DEF SettingsInv, CheckManifest
<1> QED  BY <1>3, <1>4 DEF CheckManifest, GoTo, Fails

LEMMA PrepareStep == SettingsInv /\ Prepare => SettingsInv'
<1> SUFFICES ASSUME SettingsInv, Prepare PROVE SettingsInv'
  OBVIOUS
<1> USE DEF OnlyHelper
<1>1. /\ helper \in Helpers /\ file \in Graphs /\ saved \in Graphs /\ lost \subseteq Sources
      /\ serving \in Requests /\ asked[serving] \in Asked /\ journal \in [Requests -> Journals]
      /\ journal[serving].written \in SUBSET Sources /\ asked[serving].touched \in SUBSET Sources
  BY ServingLemma DEF Prepare
<1>2. Quiet /\ saved' \in Graphs /\ lost' \subseteq Sources /\ file' \in Graphs
      /\ journal' \in [Requests -> Journals]
  BY <1>1 DEF Prepare, SetJournal, OnlyJournal, Quiet, Graphs, Contents, Journals
<1>3. CASE helper' = [helper EXCEPT !.at = "write", !.todo = asked[serving].touched]
  <2>1. helper' \in Helpers
    BY <1>1, <1>3, StageNames, HelperTypes, Zenon
  <2>2. /\ (KindOfWork /\ KnownGood)' /\ helper'.request = serving /\ helper'.told = helper.told
        /\ helper'.at = "write"
    BY <1>1, <1>2, <1>3 DEF SettingsInv, Prepare, SetJournal, OnlyJournal, OneClaim, KindOfWork, KnownGood, Good, UnderWay, Quiet, Helpers, Doing, Committing,
       Restarting, RecoveringStages, want, serving, Graphs
  <2> QED  BY <1>1, <1>2, <2>1, <2>2, QuietStep DEF SettingsInv, Prepare
<1> QED  BY <1>3 DEF Prepare, SetJournal, OnlyJournal

LEMMA CommitFailsStep == SettingsInv /\ CommitFails => SettingsInv'
<1> SUFFICES ASSUME SettingsInv, CommitFails PROVE SettingsInv'
  OBVIOUS
<1> USE DEF OnlyHelper
<1>1. /\ helper \in Helpers /\ file \in Graphs /\ saved \in Graphs /\ lost \subseteq Sources
      /\ serving \in Requests /\ asked[serving] \in Asked /\ journal \in [Requests -> Journals]
      /\ journal[serving].written \in SUBSET Sources /\ asked[serving].touched \in SUBSET Sources
  BY ServingLemma DEF CommitFails
<1>2. Quiet /\ saved' \in Graphs /\ lost' \subseteq Sources /\ file' \in Graphs
      /\ journal' \in [Requests -> Journals]
  BY <1>1 DEF CommitFails, Abort, Quiet, Graphs, Contents, Journals
<1>3. CASE helper' = [helper EXCEPT !.at = "undo", !.todo = journal[serving].written,
                                          !.result = "failed"]
  <2>1. helper' \in Helpers
    BY <1>1, <1>3, StageNames, HelperTypes, Zenon
  <2>2. /\ (KindOfWork /\ KnownGood)' /\ helper'.request = serving /\ helper'.told = helper.told
        /\ helper'.at = "undo"
    BY <1>1, <1>2, <1>3 DEF SettingsInv, CommitFails, Abort, OneClaim, KindOfWork, KnownGood, Good, UnderWay, Quiet, Helpers, Doing, Committing,
       Restarting, RecoveringStages, want, serving, Graphs
  <2> QED  BY <1>1, <1>2, <2>1, <2>2, QuietStep DEF SettingsInv, CommitFails
<1> QED  BY <1>3 DEF CommitFails, Abort

LEMMA CompleteStep == SettingsInv /\ Complete => SettingsInv'
<1> SUFFICES ASSUME SettingsInv, Complete PROVE SettingsInv'
  OBVIOUS
<1> USE DEF OnlyHelper
<1>1. /\ helper \in Helpers /\ file \in Graphs /\ saved \in Graphs /\ lost \subseteq Sources
      /\ serving \in Requests /\ asked[serving] \in Asked /\ journal \in [Requests -> Journals]
      /\ journal[serving].written \in SUBSET Sources /\ asked[serving].touched \in SUBSET Sources
  BY ServingLemma DEF Complete
<1>2. Quiet /\ saved' \in Graphs /\ lost' \subseteq Sources /\ file' \in Graphs
      /\ journal' \in [Requests -> Journals]
  BY <1>1 DEF Complete, SetJournal, Quiet, Graphs, Contents, Journals
<1>3. CASE helper' = [helper EXCEPT !.at = "report"]
  <2>1. helper' \in Helpers
    BY <1>1, <1>3, StageNames, HelperTypes, Zenon
  <2>2. /\ (KindOfWork /\ KnownGood)' /\ helper'.request = serving /\ helper'.told = helper.told
        /\ helper'.at = "report"
    BY <1>1, <1>2, <1>3 DEF SettingsInv, Complete, SetJournal, OneClaim, KindOfWork, KnownGood, Good, UnderWay, Quiet, Helpers, Doing, Committing,
       Restarting, RecoveringStages, want, serving, Graphs
  <2> QED  BY <1>1, <1>2, <2>1, <2>2, QuietStep DEF SettingsInv, Complete
<1> QED  BY <1>3 DEF Complete, SetJournal

LEMMA UndoneStep == SettingsInv /\ Undone => SettingsInv'
<1> SUFFICES ASSUME SettingsInv, Undone PROVE SettingsInv'
  OBVIOUS
<1> USE DEF OnlyHelper
<1>1. /\ helper \in Helpers /\ file \in Graphs /\ saved \in Graphs /\ lost \subseteq Sources
      /\ serving \in Requests /\ asked[serving] \in Asked /\ journal \in [Requests -> Journals]
      /\ journal[serving].written \in SUBSET Sources /\ asked[serving].touched \in SUBSET Sources
  BY ServingLemma DEF Undone
<1>2. Quiet /\ saved' \in Graphs /\ lost' \subseteq Sources /\ file' \in Graphs
      /\ journal' \in [Requests -> Journals]
  BY <1>1 DEF Undone, SetJournal, OnlyJournal, Quiet, Graphs, Contents, Journals
<1>3. CASE helper' = [helper EXCEPT !.at = "report"]
  <2>1. helper' \in Helpers
    BY <1>1, <1>3, StageNames, HelperTypes, Zenon
  <2>2. /\ (KindOfWork /\ KnownGood)' /\ helper'.request = serving /\ helper'.told = helper.told
        /\ helper'.at = "report"
    BY <1>1, <1>2, <1>3 DEF SettingsInv, Undone, SetJournal, OnlyJournal, OneClaim, KindOfWork, KnownGood, Good, UnderWay, Quiet, Helpers, Doing, Committing,
       Restarting, RecoveringStages, want, serving, Graphs
  <2> QED  BY <1>1, <1>2, <2>1, <2>2, QuietStep DEF SettingsInv, Undone
<1>4. CASE helper' = [helper EXCEPT !.at = "check"]
  <2>1. helper' \in Helpers
    BY <1>1, <1>4, StageNames, HelperTypes, Zenon
  <2>2. /\ (KindOfWork /\ KnownGood)' /\ helper'.request = serving /\ helper'.told = helper.told
        /\ helper'.at = "check"
    BY <1>1, <1>2, <1>4 DEF SettingsInv, Undone, SetJournal, OnlyJournal, OneClaim, KindOfWork, KnownGood, Good, UnderWay, Quiet, Helpers, Doing, Committing,
       Restarting, RecoveringStages, want, serving, Graphs
  <2> QED  BY <1>1, <1>2, <2>1, <2>2, QuietStep DEF SettingsInv, Undone
<1> QED  BY <1>3, <1>4 DEF Undone, SetJournal, OnlyJournal

LEMMA NothingToRecoverStep == SettingsInv /\ NothingToRecover => SettingsInv'
<1> SUFFICES ASSUME SettingsInv, NothingToRecover PROVE SettingsInv'
  OBVIOUS
<1> USE DEF OnlyHelper
<1>1. /\ helper \in Helpers /\ file \in Graphs /\ saved \in Graphs /\ lost \subseteq Sources
      /\ serving \in Requests /\ asked[serving] \in Asked /\ journal \in [Requests -> Journals]
      /\ journal[serving].written \in SUBSET Sources /\ asked[serving].touched \in SUBSET Sources
  BY ServingLemma DEF NothingToRecover
<1>2. Quiet /\ saved' \in Graphs /\ lost' \subseteq Sources /\ file' \in Graphs
      /\ journal' \in [Requests -> Journals]
  BY <1>1 DEF NothingToRecover, Fails, Quiet, Graphs, Contents, Journals
<1>3. CASE helper' = [helper EXCEPT !.at = "report", !.result = "failed"]
  <2>1. helper' \in Helpers
    BY <1>1, <1>3, StageNames, HelperTypes, Zenon
  <2>2. /\ (KindOfWork /\ KnownGood)' /\ helper'.request = serving /\ helper'.told = helper.told
        /\ helper'.at = "report"
    BY <1>1, <1>2, <1>3 DEF SettingsInv, NothingToRecover, Fails, OneClaim, KindOfWork, KnownGood, Good, UnderWay, Quiet, Helpers, Doing, Committing,
       Restarting, RecoveringStages, want, serving, Graphs
  <2> QED  BY <1>1, <1>2, <2>1, <2>2, QuietStep DEF SettingsInv, NothingToRecover
<1> QED  BY <1>3 DEF NothingToRecover, Fails

LEMMA SwappedStep == SettingsInv /\ Swapped => SettingsInv'
<1> SUFFICES ASSUME SettingsInv, Swapped PROVE SettingsInv'
  OBVIOUS
<1> USE DEF OnlyHelper
<1>1. /\ helper \in Helpers /\ file \in Graphs /\ saved \in Graphs /\ lost \subseteq Sources
      /\ serving \in Requests /\ asked[serving] \in Asked /\ journal \in [Requests -> Journals]
      /\ journal[serving].written \in SUBSET Sources /\ asked[serving].touched \in SUBSET Sources
  BY ServingLemma DEF Swapped
<1>2. Quiet /\ saved' \in Graphs /\ lost' \subseteq Sources /\ file' \in Graphs
      /\ journal' \in [Requests -> Journals]
  BY <1>1 DEF Swapped, Leave, Quiet, Graphs, Contents, Journals
<1>3. CASE helper' = [helper EXCEPT !.at = "unswap", !.todo = Sources, !.recovered = FALSE]
  <2>1. helper' \in Helpers
    BY <1>1, <1>3, StageNames, HelperTypes, Zenon
  <2>2. /\ (KindOfWork /\ KnownGood)' /\ helper'.request = serving /\ helper'.told = helper.told
        /\ helper'.at = "unswap"
    BY <1>1, <1>2, <1>3 DEF SettingsInv, Swapped, Leave, OneClaim, KindOfWork, KnownGood, Good, UnderWay, Quiet, Helpers, Doing, Committing,
       Restarting, RecoveringStages, want, serving, Graphs
  <2> QED  BY <1>1, <1>2, <2>1, <2>2, QuietStep DEF SettingsInv, Swapped
<1>4. CASE helper' = [helper EXCEPT !.at = "rerun"]
  <2>1. helper' \in Helpers
    BY <1>1, <1>4, StageNames, HelperTypes, Zenon
  <2>2. /\ (KindOfWork /\ KnownGood)' /\ helper'.request = serving /\ helper'.told = helper.told
        /\ helper'.at = "rerun"
    BY <1>1, <1>2, <1>4 DEF SettingsInv, BaselineIsProved, Swapped, Leave, OneClaim, KindOfWork, KnownGood, Good, UnderWay, Quiet, Helpers, Doing, Committing,
       Restarting, RecoveringStages, want, serving, Graphs
  <2> QED  BY <1>1, <1>2, <2>1, <2>2, QuietStep DEF SettingsInv, Swapped
<1> QED  BY <1>3, <1>4 DEF Swapped, Leave

LEMMA ReproveStep == SettingsInv /\ Reprove => SettingsInv'
<1> SUFFICES ASSUME SettingsInv, Reprove PROVE SettingsInv'
  OBVIOUS
<1> USE DEF OnlyHelper
<1>1. /\ helper \in Helpers /\ file \in Graphs /\ saved \in Graphs /\ lost \subseteq Sources
      /\ serving \in Requests /\ asked[serving] \in Asked /\ journal \in [Requests -> Journals]
      /\ journal[serving].written \in SUBSET Sources /\ asked[serving].touched \in SUBSET Sources
  BY ServingLemma DEF Reprove
<1>2. Quiet /\ saved' \in Graphs /\ lost' \subseteq Sources /\ file' \in Graphs
      /\ journal' \in [Requests -> Journals]
  BY <1>1 DEF Reprove, Leave, Quiet, Graphs, Contents, Journals
<1>3. CASE helper' = [helper EXCEPT !.at = "unswap", !.todo = Sources, !.recovered = FALSE]
  <2>1. helper' \in Helpers
    BY <1>1, <1>3, StageNames, HelperTypes, Zenon
  <2>2. /\ (KindOfWork /\ KnownGood)' /\ helper'.request = serving /\ helper'.told = helper.told
        /\ helper'.at = "unswap"
    BY <1>1, <1>2, <1>3 DEF SettingsInv, Reprove, Leave, OneClaim, KindOfWork, KnownGood, Good, UnderWay, Quiet, Helpers, Doing, Committing,
       Restarting, RecoveringStages, want, serving, Graphs
  <2> QED  BY <1>1, <1>2, <2>1, <2>2, QuietStep DEF SettingsInv, Reprove
<1>4. CASE rac = baseline /\ helper' = [helper EXCEPT !.at = "unswap", !.todo = Sources, !.recovered = TRUE]
  <2>1. helper' \in Helpers
    BY <1>1, <1>4, StageNames, HelperTypes, Zenon
  <2>2. /\ (KindOfWork /\ KnownGood)' /\ helper'.request = serving /\ helper'.told = helper.told
        /\ helper'.at = "unswap"
    BY <1>1, <1>2, <1>4 DEF SettingsInv, Reprove, Leave, OneClaim, KindOfWork, KnownGood, Good, UnderWay, Quiet, Helpers, Doing, Committing,
       Restarting, RecoveringStages, want, serving, Graphs
  <2> QED  BY <1>1, <1>2, <2>1, <2>2, QuietStep DEF SettingsInv, Reprove
<1> QED  BY <1>3, <1>4 DEF Reprove, Leave

LEMMA WriteSourceStep ==
  ASSUME NEW s \in Sources, SettingsInv, WriteSource(s) PROVE SettingsInv'
<1> USE DEF OnlyHelper
<1>1. /\ helper \in Helpers /\ file \in Graphs /\ saved \in Graphs /\ lost \subseteq Sources
      /\ serving \in Requests /\ asked[serving] \in Asked /\ journal \in [Requests -> Journals]
      /\ journal[serving].written \in SUBSET Sources /\ asked[serving].touched \in SUBSET Sources
      /\ want \in Graphs
  BY ServingLemma DEF WriteSource
<1>2. Quiet /\ saved' \in Graphs /\ lost' \subseteq Sources /\ file' \in Graphs
      /\ journal' \in [Requests -> Journals]
  BY <1>1 DEF WriteSource, Abort, OnlyJournal, SetJournal, Quiet, Graphs, Contents, Journals
<1>3. helper.todo \in SUBSET Sources /\ helper.todo \ {s} \in SUBSET Sources
      /\ helper.held \in [Sources -> Contents \union {Absent}]
  BY <1>1 DEF Helpers
<1>4. CASE helper' = [helper EXCEPT !.at = "undo", !.todo = journal[serving].written,
                                          !.result = "failed"]
  <2>1. helper' \in Helpers
    BY <1>1, <1>3, <1>4, StageNames, HelperTypes, Zenon
  <2>2. /\ (KindOfWork /\ KnownGood)' /\ helper'.request = serving /\ helper'.told = helper.told
        /\ helper'.at = "undo"
    BY <1>1, <1>2, <1>4 DEF SettingsInv, WriteSource, OneClaim, KindOfWork, KnownGood, Good, UnderWay, Quiet, Helpers, Doing, Committing,
       Restarting, RecoveringStages, want, serving, Graphs
  <2> QED  BY <1>1, <1>2, <2>1, <2>2, QuietStep DEF SettingsInv, WriteSource
<1>5. CASE helper' = [Replacing(s, serving, "write") EXCEPT !.todo = @ \ {s}]
  <2> DEFINE w == [source |-> s, bytes |-> serving, was |-> file[s], back |-> "write"]
  <2>1. Replaceable(w)
    BY <1>1, <1>3, <1>5 DEF Replaceable, Writes, Graphs, Contents
  <2>2. helper' = [[helper EXCEPT !.at = "replace", !.write = w] EXCEPT !.todo = helper.todo \ {s}]
    BY <1>1, <1>5 DEF Replacing, Helpers
  <2>3. helper' \in Helpers
    <3> HIDE DEF w
    <3> QED  BY <1>1, <1>3, <2>1, <2>2, StageNames, WriteTypes, Zenon DEF Replaceable
  <2>4. /\ helper'.write = w /\ helper'.request = serving /\ helper'.told = helper.told
        /\ helper'.at = "replace"
        /\ helper'.crossed = helper.crossed /\ helper'.recovered = helper.recovered
        /\ helper'.told = helper.told
    <3> HIDE DEF w
    <3> QED  BY <1>1, <2>2, Zenon DEF Helpers, serving
  <2>5. w.back = "write"
    OBVIOUS
  <2>6. (KindOfWork /\ KnownGood)'
    <3> HIDE DEF w
    <3> QED  BY <1>1, <1>2, <2>4, <2>5 DEF SettingsInv, WriteSource, OneClaim, KindOfWork, KnownGood, Good, UnderWay, Quiet, Helpers, Doing, Committing,
       Restarting, RecoveringStages, want, serving, Graphs
  <2> QED  BY <1>1, <1>2, <2>1, <2>3, <2>4, <2>6, QuietStep DEF SettingsInv, WriteSource
<1> QED  BY <1>4, <1>5 DEF WriteSource, Abort, OnlyJournal, SetJournal

LEMMA UndoSourceStep ==
  ASSUME NEW s \in Sources, SettingsInv, Undo(s) PROVE SettingsInv'
<1> USE DEF OnlyHelper
<1>1. /\ helper \in Helpers /\ file \in Graphs /\ saved \in Graphs /\ lost \subseteq Sources
      /\ serving \in Requests /\ asked[serving] \in Asked /\ journal \in [Requests -> Journals]
      /\ journal[serving].written \in SUBSET Sources /\ asked[serving].touched \in SUBSET Sources
      /\ want \in Graphs
  BY ServingLemma DEF Undo
<1>2. Quiet /\ saved' \in Graphs /\ lost' \subseteq Sources /\ file' \in Graphs
      /\ journal' \in [Requests -> Journals]
  BY <1>1 DEF Undo, GoTo, Quiet, Graphs, Contents, Journals
<1>3. helper.todo \in SUBSET Sources /\ helper.todo \ {s} \in SUBSET Sources
      /\ helper.held \in [Sources -> Contents \union {Absent}]
  BY <1>1 DEF Helpers
<1>4. CASE helper' = [helper EXCEPT !.todo = helper.todo \ {s}]
  <2>1. helper' \in Helpers
    BY <1>1, <1>3, <1>4, StageNames, HelperTypes, Zenon
  <2>2. /\ (KindOfWork /\ KnownGood)' /\ helper'.request = serving /\ helper'.told = helper.told
        /\ helper'.at = helper.at
    BY <1>1, <1>2, <1>4 DEF SettingsInv, Undo, OneClaim, KindOfWork, KnownGood, Good, UnderWay, Quiet, Helpers, Doing, Committing,
       Restarting, RecoveringStages, want, serving, Graphs
  <2> QED  BY <1>1, <1>2, <2>1, <2>2, QuietStep DEF SettingsInv, Undo
<1>5. CASE helper' = [Replacing(s, want[s], "undo") EXCEPT !.todo = @ \ {s}]
  <2> DEFINE w == [source |-> s, bytes |-> want[s], was |-> file[s], back |-> "undo"]
  <2>1. Replaceable(w)
    BY <1>1, <1>3, <1>5 DEF Replaceable, Writes, Graphs, Contents
  <2>2. helper' = [[helper EXCEPT !.at = "replace", !.write = w] EXCEPT !.todo = helper.todo \ {s}]
    BY <1>1, <1>5 DEF Replacing, Helpers
  <2>3. helper' \in Helpers
    <3> HIDE DEF w
    <3> QED  BY <1>1, <1>3, <2>1, <2>2, StageNames, WriteTypes, Zenon DEF Replaceable
  <2>4. /\ helper'.write = w /\ helper'.request = serving /\ helper'.told = helper.told
        /\ helper'.at = "replace"
        /\ helper'.crossed = helper.crossed /\ helper'.recovered = helper.recovered
        /\ helper'.told = helper.told
    <3> HIDE DEF w
    <3> QED  BY <1>1, <2>2, Zenon DEF Helpers, serving
  <2>5. w.back = "undo"
    OBVIOUS
  <2>6. (KindOfWork /\ KnownGood)'
    <3> HIDE DEF w
    <3> QED  BY <1>1, <1>2, <2>4, <2>5 DEF SettingsInv, Undo, OneClaim, KindOfWork, KnownGood, Good, UnderWay, Quiet, Helpers, Doing, Committing,
       Restarting, RecoveringStages, want, serving, Graphs
  <2> QED  BY <1>1, <1>2, <2>1, <2>3, <2>4, <2>6, QuietStep DEF SettingsInv, Undo
<1>6. CASE helper' = [helper EXCEPT !.at = "report", !.result = "failed"]
  <2>1. helper' \in Helpers
    BY <1>1, <1>3, <1>6, StageNames, HelperTypes, Zenon
  <2>2. /\ (KindOfWork /\ KnownGood)' /\ helper'.request = serving /\ helper'.told = helper.told
        /\ helper'.at = "report"
    BY <1>1, <1>2, <1>6 DEF SettingsInv, Undo, OneClaim, KindOfWork, KnownGood, Good, UnderWay, Quiet, Helpers, Doing, Committing,
       Restarting, RecoveringStages, want, serving, Graphs
  <2> QED  BY <1>1, <1>2, <2>1, <2>2, QuietStep DEF SettingsInv, Undo
<1> QED  BY <1>4, <1>5, <1>6 DEF Undo, GoTo

LEMMA SwapStep ==
  ASSUME NEW s \in Sources, SettingsInv, Swap(s) PROVE SettingsInv'
<1> USE DEF OnlyHelper
<1>1. /\ helper \in Helpers /\ file \in Graphs /\ saved \in Graphs /\ lost \subseteq Sources
      /\ serving \in Requests /\ asked[serving] \in Asked /\ journal \in [Requests -> Journals]
      /\ journal[serving].written \in SUBSET Sources /\ asked[serving].touched \in SUBSET Sources
      /\ want \in Graphs
  BY ServingLemma DEF Swap
<1>2. Quiet /\ saved' \in Graphs /\ lost' \subseteq Sources /\ file' \in Graphs
      /\ journal' \in [Requests -> Journals]
  BY <1>1 DEF Swap, Leave, Expected, Quiet, Graphs, Contents, Journals
<1>3. helper.todo \in SUBSET Sources /\ helper.todo \ {s} \in SUBSET Sources
      /\ helper.held \in [Sources -> Contents \union {Absent}]
  BY <1>1 DEF Helpers
<1>4. baseline \in Graphs
  BY DEF Swap, SettingsInv, SettingsTypes
<1>5. CASE helper' = [Replacing(s, baseline[s], "swap") EXCEPT !.todo = @ \ {s}]
  <2> DEFINE w == [source |-> s, bytes |-> baseline[s], was |-> file[s], back |-> "swap"]
  <2>1. Replaceable(w)
    BY <1>1, <1>3, <1>5, <1>4 DEF Replaceable, Writes, Graphs, Contents
  <2>2. helper' = [[helper EXCEPT !.at = "replace", !.write = w] EXCEPT !.todo = helper.todo \ {s}]
    BY <1>1, <1>5 DEF Replacing, Helpers
  <2>3. helper' \in Helpers
    <3> HIDE DEF w
    <3> QED  BY <1>1, <1>3, <2>1, <2>2, StageNames, WriteTypes, Zenon DEF Replaceable
  <2>4. /\ helper'.write = w /\ helper'.request = serving /\ helper'.told = helper.told
        /\ helper'.at = "replace"
        /\ helper'.crossed = helper.crossed /\ helper'.recovered = helper.recovered
        /\ helper'.told = helper.told
    <3> HIDE DEF w
    <3> QED  BY <1>1, <2>2, Zenon DEF Helpers, serving
  <2>5. w.back = "swap"
    OBVIOUS
  <2>6. (KindOfWork /\ KnownGood)'
    <3> HIDE DEF w
    <3> QED  BY <1>1, <1>2, <2>4, <2>5 DEF SettingsInv, Swap, OneClaim, KindOfWork, KnownGood, Good, UnderWay, Quiet, Helpers, Doing, Committing,
       Restarting, RecoveringStages, want, serving, Graphs
  <2> QED  BY <1>1, <1>2, <2>1, <2>3, <2>4, <2>6, QuietStep DEF SettingsInv, Swap
<1>6. CASE helper' = [helper EXCEPT !.at = "unswap", !.todo = Sources, !.recovered = FALSE]
  <2>1. helper' \in Helpers
    BY <1>1, <1>3, <1>6, StageNames, HelperTypes, Zenon
  <2>2. /\ (KindOfWork /\ KnownGood)' /\ helper'.request = serving /\ helper'.told = helper.told
        /\ helper'.at = "unswap"
    BY <1>1, <1>2, <1>6 DEF SettingsInv, Swap, OneClaim, KindOfWork, KnownGood, Good, UnderWay, Quiet, Helpers, Doing, Committing,
       Restarting, RecoveringStages, want, serving, Graphs
  <2> QED  BY <1>1, <1>2, <2>1, <2>2, QuietStep DEF SettingsInv, Swap
<1> QED  BY <1>5, <1>6 DEF Swap, Leave, Expected

LEMMA UnswapStep ==
  ASSUME NEW s \in Sources, SettingsInv, Unswap(s) PROVE SettingsInv'
<1> USE DEF OnlyHelper
<1>1. /\ helper \in Helpers /\ file \in Graphs /\ saved \in Graphs /\ lost \subseteq Sources
      /\ serving \in Requests /\ asked[serving] \in Asked /\ journal \in [Requests -> Journals]
      /\ journal[serving].written \in SUBSET Sources /\ asked[serving].touched \in SUBSET Sources
      /\ want \in Graphs
  BY ServingLemma DEF Unswap
<1>2. Quiet /\ saved' \in Graphs /\ lost' \subseteq Sources /\ file' \in Graphs
      /\ journal' \in [Requests -> Journals]
  BY <1>1 DEF Unswap, GoTo, Quiet, Graphs, Contents, Journals
<1>3. helper.todo \in SUBSET Sources /\ helper.todo \ {s} \in SUBSET Sources
      /\ helper.held \in [Sources -> Contents \union {Absent}]
  BY <1>1 DEF Helpers
<1>4. CASE helper' = [helper EXCEPT !.todo = helper.todo \ {s}]
  <2>1. helper' \in Helpers
    BY <1>1, <1>3, <1>4, StageNames, HelperTypes, Zenon
  <2>2. /\ (KindOfWork /\ KnownGood)' /\ helper'.request = serving /\ helper'.told = helper.told
        /\ helper'.at = helper.at
    BY <1>1, <1>2, <1>4, ZenonT(60) DEF SettingsInv, Unswap, OneClaim, KindOfWork, KnownGood, Good, UnderWay, Quiet, Helpers, Doing, Committing,
       Restarting, RecoveringStages, want, serving, Graphs
  <2> QED  BY <1>1, <1>2, <2>1, <2>2, QuietStep DEF SettingsInv, Unswap
<1>5. CASE helper.held[s] # Absent
           /\ helper' = [Replacing(s, helper.held[s], "unswap") EXCEPT !.todo = @ \ {s}]
  <2> DEFINE w == [source |-> s, bytes |-> helper.held[s], was |-> file[s], back |-> "unswap"]
  <2>1. Replaceable(w)
    BY <1>1, <1>3, <1>5 DEF Replaceable, Writes, Graphs, Contents
  <2>2. helper' = [[helper EXCEPT !.at = "replace", !.write = w] EXCEPT !.todo = helper.todo \ {s}]
    BY <1>1, <1>5 DEF Replacing, Helpers
  <2>3. helper' \in Helpers
    <3> HIDE DEF w
    <3> QED  BY <1>1, <1>3, <2>1, <2>2, StageNames, WriteTypes, Zenon DEF Replaceable
  <2>4. /\ helper'.write = w /\ helper'.request = serving /\ helper'.told = helper.told
        /\ helper'.at = "replace"
        /\ helper'.crossed = helper.crossed /\ helper'.recovered = helper.recovered
        /\ helper'.told = helper.told
    <3> HIDE DEF w
    <3> QED  BY <1>1, <2>2, Zenon DEF Helpers, serving
  <2>5. w.back = "unswap"
    OBVIOUS
  <2>6. (KindOfWork /\ KnownGood)'
    <3> HIDE DEF w
    <3> QED  BY <1>1, <1>2, <2>4, <2>5 DEF SettingsInv, Unswap, OneClaim, KindOfWork, KnownGood, Good, UnderWay, Quiet, Helpers, Doing, Committing,
       Restarting, RecoveringStages, want, serving, Graphs
  <2> QED  BY <1>1, <1>2, <2>1, <2>3, <2>4, <2>6, QuietStep DEF SettingsInv, Unswap
<1>6. CASE helper' = [helper EXCEPT !.todo = helper.todo \ {s}, !.held[s] = Absent, !.recovered = FALSE]
  <2>1. helper' \in Helpers
    BY <1>1, <1>3, <1>6, StageNames, HelperTypes, HeldTypes, Zenon
  <2>2. /\ (KindOfWork /\ KnownGood)' /\ helper'.request = serving /\ helper'.told = helper.told
        /\ helper'.at = helper.at
    BY <1>1, <1>2, <1>6 DEF SettingsInv, Unswap, OneClaim, KindOfWork, KnownGood, Good, UnderWay, Quiet, Helpers, Doing, Committing,
       Restarting, RecoveringStages, want, serving, Graphs
  <2> QED  BY <1>1, <1>2, <2>1, <2>2, QuietStep DEF SettingsInv, Unswap
<1> QED  BY <1>4, <1>5, <1>6 DEF Unswap, GoTo

LEMMA ReplacingLemma ==
  ASSUME SettingsInv, helper.at = "replace"
  PROVE  /\ helper \in Helpers /\ file \in Graphs /\ saved \in Graphs /\ lost \subseteq Sources
         /\ serving \in Requests /\ journal \in [Requests -> Journals]
         /\ journal[serving].written \in SUBSET Sources
         /\ helper.write.source \in Sources /\ helper.write.bytes \in Contents
         /\ helper.write.was \in Contents /\ helper.write.back \in {"write", "undo", "swap", "unswap"}
         /\ NoWrite \in Writes
<1>1. helper.write \in Writes
  BY DEF SettingsInv, SettingsTypes, Helpers
<1> QED  BY <1>1, ServingLemma DEF SettingsInv, SettingsTypes, Writes, NoWrite

LEMMA ReplaceStep == SettingsInv /\ Replace => SettingsInv'
<1> SUFFICES ASSUME SettingsInv, Replace PROVE SettingsInv'
  OBVIOUS
<1> DEFINE w == helper.write
           v == IF w.back = "swap" THEN w.was ELSE Absent
<1>1. /\ helper.at = "replace" /\ file' = [file EXCEPT ![w.source] = w.bytes]
      /\ helper' = [helper EXCEPT !.at = w.back, !.write = NoWrite, !.held[w.source] = v]
      /\ UNCHANGED <<asked, place, status, journal, rac, starter, silent, baseline, saved, proved>>
      /\ lost' \in {lost, lost \union {w.source}}
  BY DEF Replace
<1>2. /\ helper \in Helpers /\ file \in Graphs /\ saved \in Graphs /\ lost \subseteq Sources
      /\ journal \in [Requests -> Journals] /\ NoWrite \in Writes
      /\ w.source \in Sources /\ w.bytes \in Contents /\ v \in Contents \union {Absent}
      /\ w.back \in {"write", "undo", "swap", "unswap"} /\ w.back \in Stages
  BY <1>1, ReplacingLemma DEF Stages
<1>3. Quiet /\ saved' \in Graphs /\ lost' \subseteq Sources /\ file' \in Graphs
      /\ journal' \in [Requests -> Journals]
  BY <1>1, <1>2 DEF Quiet, Graphs
<1>4. /\ helper'.at = w.back /\ helper'.request = serving
      /\ helper'.crossed = helper.crossed /\ helper'.recovered = helper.recovered
      /\ helper'.told = helper.told
  <2> HIDE DEF w, v
  <2> QED  BY <1>1, <1>2 DEF Helpers, serving
<1>5. helper' \in Helpers
  <2> HIDE DEF w, v
  <2> QED  BY <1>1, <1>2, WriteTypes, Zenon
<1>6. (KindOfWork /\ KnownGood)'
  BY <1>1, <1>2, <1>3, <1>4 DEF SettingsInv, OneClaim, KindOfWork, KnownGood, Good, UnderWay, Quiet, Doing, Committing,
     Restarting, RecoveringStages, serving
<1> QED  BY <1>1, <1>2, <1>3, <1>4, <1>5, <1>6, QuietStep DEF SettingsInv

LEMMA ReplaceFailsStep == SettingsInv /\ ReplaceFails => SettingsInv'
<1> SUFFICES ASSUME SettingsInv, ReplaceFails PROVE SettingsInv'
  OBVIOUS
<1>1. /\ helper.at = "replace" /\ helper \in Helpers /\ file \in Graphs /\ saved \in Graphs
      /\ lost \subseteq Sources /\ journal \in [Requests -> Journals] /\ NoWrite \in Writes
      /\ journal[serving].written \in SUBSET Sources /\ helper.write.source \in Sources
      /\ helper.write.back \in {"write", "undo", "swap", "unswap"}
  BY ReplacingLemma DEF ReplaceFails
<1>2. Quiet /\ saved' \in Graphs /\ lost' \subseteq Sources /\ file' \in Graphs
      /\ journal' \in [Requests -> Journals]
  BY <1>1 DEF ReplaceFails, Quiet
<1>3. CASE helper.write.back = "write"
  <2>1. helper' = [helper EXCEPT !.at = "undo", !.write = NoWrite,
                                                !.todo = journal[serving].written, !.result = "failed"]
    BY <1>3 DEF ReplaceFails
  <2>2. helper' \in Helpers
    BY <1>1, <2>1, StageNames, WriteTypes, Zenon
  <2>3. /\ (KindOfWork /\ KnownGood)' /\ helper'.request = serving /\ helper'.told = helper.told
        /\ helper'.at = "undo"
    BY <1>1, <1>2, <1>3, <2>1 DEF SettingsInv, ReplaceFails, OneClaim, KindOfWork, KnownGood, Good, UnderWay, Quiet, Helpers, Doing, Committing,
       Restarting, RecoveringStages, want, serving, Graphs
  <2> QED  BY <1>1, <1>2, <2>2, <2>3, QuietStep DEF SettingsInv
<1>4. CASE helper.write.back = "undo"
  <2>1. helper' = [helper EXCEPT !.at = "report", !.write = NoWrite, !.result = "failed"]
    BY <1>4 DEF ReplaceFails
  <2>2. helper' \in Helpers
    BY <1>1, <2>1, StageNames, WriteTypes, Zenon
  <2>3. /\ (KindOfWork /\ KnownGood)' /\ helper'.request = serving /\ helper'.told = helper.told
        /\ helper'.at = "report"
    BY <1>1, <1>2, <1>4, <2>1, ZenonT(60) DEF SettingsInv, ReplaceFails, OneClaim, KindOfWork, KnownGood, Good, UnderWay, Quiet, Helpers, Doing, Committing,
       Restarting, RecoveringStages, want, serving, Graphs
  <2> QED  BY <1>1, <1>2, <2>2, <2>3, QuietStep DEF SettingsInv
<1>5. CASE helper.write.back = "swap"
  <2>1. helper' = [helper EXCEPT !.at = "unswap", !.write = NoWrite,
                                                !.todo = Sources, !.recovered = FALSE]
    BY <1>5 DEF ReplaceFails
  <2>2. helper' \in Helpers
    BY <1>1, <2>1, StageNames, WriteTypes, Zenon
  <2>3. /\ (KindOfWork /\ KnownGood)' /\ helper'.request = serving /\ helper'.told = helper.told
        /\ helper'.at = "unswap"
    BY <1>1, <1>2, <1>5, <2>1, ZenonT(60) DEF SettingsInv, ReplaceFails, OneClaim, KindOfWork, KnownGood, Good, UnderWay, Quiet, Helpers, Doing, Committing,
       Restarting, RecoveringStages, want, serving, Graphs
  <2> QED  BY <1>1, <1>2, <2>2, <2>3, QuietStep DEF SettingsInv
<1>6. CASE helper.write.back = "unswap"
  <2>1. helper' = [helper EXCEPT !.at = "unswap", !.write = NoWrite, !.recovered = FALSE]
    BY <1>6 DEF ReplaceFails
  <2>2. helper' \in Helpers
    BY <1>1, <2>1, StageNames, WriteTypes, Zenon
  <2>3. /\ (KindOfWork /\ KnownGood)' /\ helper'.request = serving /\ helper'.told = helper.told
        /\ helper'.at = "unswap"
    BY <1>1, <1>2, <1>6, <2>1 DEF SettingsInv, ReplaceFails, OneClaim, KindOfWork, KnownGood, Good, UnderWay, Quiet, Helpers, Doing, Committing,
       Restarting, RecoveringStages, want, serving, Graphs
  <2> QED  BY <1>1, <1>2, <2>2, <2>3, QuietStep DEF SettingsInv
<1> QED  BY <1>1, <1>3, <1>4, <1>5, <1>6

\* The status of the request is written, or that fails.
LEMMA PutLemma ==
  ASSUME SettingsInv, helper.at # "idle", NEW new \in States,
         PutWorks(serving, new) \/ PutFails(serving, new)
  PROVE  /\ status' \in [Requests -> States]
         /\ status'[serving] \in {status[serving], new}
         /\ PutWorks(serving, new) => status'[serving] = new
         /\ \A r \in Requests \ {serving} : status'[r] = status[r]
<1>1. serving \in Requests /\ status \in [Requests -> States]
  BY ServingLemma DEF SettingsInv, SettingsTypes
<1>2. status' = [status EXCEPT ![serving] = new] \/ status' = status
  BY DEF PutWorks, PutFails, Put
<1>3. PutWorks(serving, new) => status' = [status EXCEPT ![serving] = new]
  BY DEF PutWorks, Put
<1> QED  BY <1>1, <1>2, <1>3

LEMMA WithLemma ==
  ASSUME SettingsInv, helper.at # "idle", NEW p \in Progresses
  PROVE  /\ With(p) \in States
         /\ With(p).restart = p /\ With(p).state = status[serving].state
BY ServingLemma DEF With, States, Progresses

\* The progress of a restart is told.
LEMMA ProgressLemma ==
  ASSUME SettingsInv, helper.at # "idle", NEW p \in Progresses, NEW next \in Helpers,
         Progress(p, next)
  PROVE  /\ status' \in [Requests -> States]
         /\ status'[serving].restart \in {status[serving].restart, p}
         /\ status'[serving].state = status[serving].state
         /\ \A r \in Requests \ {serving} : status'[r] = status[r]
         /\ helper' \in Helpers /\ helper'.told \in {next.told, p}
         /\ helper'.at = next.at /\ helper'.request = next.request /\ helper'.todo = next.todo
         /\ helper'.held = next.held /\ helper'.result = next.result
         /\ helper'.crossed = next.crossed /\ helper'.recovered = next.recovered
<1>1. /\ status' \in [Requests -> States]
      /\ status'[serving].restart \in {status[serving].restart, p}
      /\ status'[serving].state = status[serving].state
      /\ \A r \in Requests \ {serving} : status'[r] = status[r]
  BY WithLemma, PutLemma DEF Progress
<1>2. helper' = [next EXCEPT !.told = p] \/ helper' = next
  BY DEF Progress
<1>3. [next EXCEPT !.told = p] \in Helpers
  BY HelperTypes, StageNames, Zenon
<1> QED  BY <1>1, <1>2, <1>3 DEF Helpers

(* A step that records how far a restart has come, changes the server or     *)
(* seals a proof: what runs is proved, or the request says that it is not,   *)
(* or neither changes.                                                       *)
LEMMA RestartingStep ==
  ASSUME SettingsInv, UNCHANGED <<file, asked, place, journal, saved, lost, silent>>,
         status' \in [Requests -> States], status'[serving].state = status[serving].state,
         \A r \in Requests \ {serving} : status'[r] = status[r],
         asked[serving].kind # "commit" \/ (status' = status /\ helper'.told = helper.told),
         rac' \in Graphs \union {Absent}, starter' \in {"helper", "system"},
         proved \subseteq proved',
         baseline' = baseline \/ (baseline' \in Graphs /\ baseline' \in proved'),
         helper' \in Helpers, helper'.request = serving,
         helper.at \notin {"idle", "claim", "report", "remove"},
         helper'.at \notin {"idle", "claim", "remove", "replace"},
         Good' \/ Flagged(serving)' \/ (~Good /\ ~Flagged(serving))
  PROVE  (SettingsTypes /\ OneClaim /\ BaselineIsProved /\ DoubtIsOnRecord)'
<1>1. /\ status'[serving].state = "running" /\ serving \in claimed /\ serving \in Requests
      /\ asked[serving].kind = "commit" => status' = status /\ helper'.told = helper.told
  BY ServingLemma DEF SettingsInv, SettingsTypes, OneClaim
<1>2. SettingsTypes'
  BY <1>1 DEF SettingsInv, SettingsTypes
<1>3. OneClaim'
  BY <1>1 DEF SettingsInv, OneClaim, claimed, serving
<1>4. BaselineIsProved'
  BY DEF SettingsInv, BaselineIsProved
<1>5. DoubtIsOnRecord'
  <2>1. CASE Good' \/ Flagged(serving)'
    BY <1>1, <2>1 DEF DoubtIsOnRecord, serving
  <2>2. CASE ~Good /\ ~Flagged(serving)
    <3>1. PICK r \in Requests : Flagged(r) /\ status[r].state \in {"running", "failed"}
      BY <2>2 DEF SettingsInv, DoubtIsOnRecord
    <3>2. r # serving
      BY <2>2, <3>1
    <3> QED  BY <1>1, <3>1, <3>2 DEF DoubtIsOnRecord, Flagged, Serves, serving
  <2> QED  BY <2>1, <2>2
<1> QED  BY <1>2, <1>3, <1>4, <1>5

LEMMA RestartLemma ==
  ASSUME SettingsInv, helper.at # "idle"
  PROVE  /\ helper \in Helpers /\ file \in Graphs /\ rac \in Graphs \union {Absent}
         /\ baseline \in Graphs \union {Absent} /\ serving \in Requests /\ asked[serving] \in Asked
         /\ want \in Graphs /\ status \in [Requests -> States]
         /\ status[serving].restart \in Progresses /\ starter \in {"helper", "system"}
BY ServingLemma DEF SettingsInv, SettingsTypes, States

LEMMA BoundaryFailsStep == SettingsInv /\ BoundaryFails => SettingsInv'
<1> SUFFICES ASSUME SettingsInv, BoundaryFails PROVE SettingsInv'
  OBVIOUS
<1>1. /\ helper.at = "boundary" /\ helper \in Helpers /\ asked[serving].kind = "restart"
      /\ rac \in Graphs \union {Absent} /\ starter \in {"helper", "system"}
      /\ status \in [Requests -> States] /\ status[serving].state = "running"
      /\ UNCHANGED <<file, asked, place, journal, rac, starter, silent, baseline, saved, proved, lost>>
  BY RestartLemma DEF BoundaryFails, OnlyStatus, SettingsInv, KindOfWork, OneClaim, Doing, Restarting
<1>2. /\ status' \in [Requests -> States] /\ status'[serving].state = status[serving].state
      /\ status'[serving].restart \in {status[serving].restart, "restarting"}
      /\ \A r \in Requests \ {serving} : status'[r] = status[r]
  BY <1>1, StageNames, WithLemma, PutLemma DEF BoundaryFails
<1>3. helper' = [helper EXCEPT !.at = "report", !.result = "failed"]
  BY DEF BoundaryFails
<1>4. helper' \in Helpers
  BY <1>1, <1>3, StageNames, HelperTypes, Zenon
<1>5. /\ helper'.at = "report" /\ helper'.request = serving /\ helper'.told = helper.told
      /\ helper'.result = "failed"
  BY <1>1, <1>3 DEF Helpers, serving
<1>6. (KindOfWork /\ KnownGood)'
  BY <1>1, <1>2, <1>5 DEF KindOfWork, KnownGood, Doing, Committing, Restarting, RecoveringStages, serving
<1>7. Good' \/ Flagged(serving)' \/ (~Good /\ ~Flagged(serving))
  BY <1>1, <1>2, <1>5 DEF Good, Flagged, Serves, Doubts, serving
<1> QED  BY <1>1, <1>2, <1>4, <1>5, <1>6, <1>7, RestartingStep DEF SettingsInv

LEMMA CrossBoundaryStep == SettingsInv /\ CrossBoundary => SettingsInv'
<1> SUFFICES ASSUME SettingsInv, CrossBoundary PROVE SettingsInv'
  OBVIOUS
<1>1. /\ helper.at = "boundary" /\ helper \in Helpers /\ asked[serving].kind = "restart"
      /\ rac \in Graphs \union {Absent} /\ starter \in {"helper", "system"}
      /\ UNCHANGED <<file, asked, place, journal, rac, starter, silent, baseline, saved, proved, lost>>
  BY RestartLemma DEF CrossBoundary, OnlyStatus, SettingsInv, KindOfWork, Doing, Restarting
<1>2. /\ status' \in [Requests -> States] /\ status'[serving].state = status[serving].state
      /\ status'[serving].restart = "restarting"
      /\ \A r \in Requests \ {serving} : status'[r] = status[r]
  BY <1>1, StageNames, WithLemma, PutLemma DEF CrossBoundary
<1>3. helper' = [helper EXCEPT !.at = "restart", !.crossed = TRUE, !.told = "restarting"]
  BY DEF CrossBoundary
<1>4. helper' \in Helpers
  BY <1>1, <1>3, StageNames, HelperTypes, Zenon
<1>5. /\ helper'.at = "restart" /\ helper'.request = serving /\ helper'.told = "restarting"
      /\ helper'.crossed
  BY <1>1, <1>3 DEF Helpers, serving
<1>6. (KindOfWork /\ KnownGood)'
  BY <1>1, <1>2, <1>5 DEF KindOfWork, KnownGood, Doing, Committing, Restarting, RecoveringStages, serving
<1>7. Flagged(serving)'
  BY <1>2, <1>5 DEF Flagged, Doubts, serving
<1> QED  BY <1>1, <1>2, <1>4, <1>5, <1>6, <1>7, RestartingStep DEF SettingsInv

LEMMA RestartStep == SettingsInv /\ Restart => SettingsInv'
<1> SUFFICES ASSUME SettingsInv, Restart PROVE SettingsInv'
  OBVIOUS
<1>1. /\ helper.at = "restart" /\ helper \in Helpers /\ asked[serving].kind = "restart"
      /\ file \in Graphs /\ status \in [Requests -> States]
      /\ status[serving].restart = "restarting" /\ helper.told = "restarting" /\ helper.crossed
      /\ UNCHANGED <<file, asked, place, status, journal, silent, baseline, saved, proved, lost>>
      /\ rac' = file /\ starter' = "helper"
  BY RestartLemma DEF Restart, SettingsInv, KindOfWork, Doing, Restarting
<1>2. helper' = [helper EXCEPT !.at = "prove"]
  BY DEF Restart
<1>3. helper' \in Helpers
  BY <1>1, <1>2, StageNames, HelperTypes, Zenon
<1>4. /\ helper'.at = "prove" /\ helper'.request = serving /\ helper'.told = "restarting"
      /\ helper'.crossed
  BY <1>1, <1>2 DEF Helpers, serving
<1>5. (KindOfWork /\ KnownGood)'
  BY <1>1, <1>4 DEF KindOfWork, KnownGood, Doing, Committing, Restarting, RecoveringStages, serving
<1>6. Flagged(serving)'
  BY <1>1, <1>4 DEF Flagged, Doubts, serving
<1> QED  BY <1>1, <1>3, <1>4, <1>5, <1>6, RestartingStep DEF SettingsInv

\* From the boundary on every failure leads to the recovery, and is told.
LEMMA StartRecoveryStep ==
  ASSUME SettingsInv, helper.at \in Restarting \ {"boundary"}, StartRecovery, MaybeDown,
         UNCHANGED <<file, asked, place, journal, baseline, saved, proved, lost, silent>>
  PROVE  SettingsInv'
<1> DEFINE next == [helper EXCEPT !.at = "swap", !.todo = Sources, !.result = "failed"]
<1>1. /\ helper \in Helpers /\ asked[serving].kind = "restart" /\ helper.crossed
      /\ status[serving].restart = "restarting" /\ helper.told = "restarting"
      /\ helper.at \notin {"idle", "claim", "report", "remove"}
      /\ rac' \in Graphs \union {Absent} /\ starter' \in {"helper", "system"}
  BY RestartLemma DEF MaybeDown, SettingsInv, KindOfWork, Doing, Restarting
<1>2. next \in Helpers
  BY <1>1, StageNames, HelperTypes, Zenon
<1>3. next.at = "swap" /\ next.request = serving /\ next.told = "restarting" /\ next.crossed
  BY <1>1 DEF Helpers, serving
<1>4. /\ status' \in [Requests -> States] /\ status'[serving].state = status[serving].state
      /\ status'[serving].restart \in UnderWay
      /\ \A r \in Requests \ {serving} : status'[r] = status[r]
      /\ helper' \in Helpers /\ helper'.told \in UnderWay
      /\ helper'.at = "swap" /\ helper'.request = serving /\ helper'.crossed
  <2>1. Progress("recovering", next)
    BY DEF StartRecovery
  <2> HIDE DEF next
  <2> QED  BY <1>1, <1>2, <1>3, <2>1, StageNames, ProgressLemma DEF UnderWay
<1>5. (KindOfWork /\ KnownGood)'
  BY <1>1, <1>4 DEF KindOfWork, KnownGood, Doing, Committing, Restarting, RecoveringStages, serving
<1>6. Flagged(serving)'
  BY <1>4 DEF Flagged, Doubts, UnderWay, serving
<1> QED  BY <1>1, <1>4, <1>5, <1>6, RestartingStep DEF SettingsInv

LEMMA RestartFailsStep == SettingsInv /\ RestartFails => SettingsInv'
BY StartRecoveryStep DEF RestartFails, Restarting

LEMMA ProveFailsStep == SettingsInv /\ ProveFails => SettingsInv'
BY StartRecoveryStep DEF ProveFails, OnlyStatus, MaybeDown, Restarting

LEMMA ProveStep == SettingsInv /\ Prove => SettingsInv'
<1> SUFFICES ASSUME SettingsInv, Prove PROVE SettingsInv'
  OBVIOUS
<1>1. /\ helper.at = "prove" /\ helper \in Helpers /\ asked[serving].kind = "restart"
      /\ rac \in Graphs \union {Absent} /\ starter \in {"helper", "system"}
      /\ status \in [Requests -> States]
      /\ status[serving].restart = "restarting" /\ helper.told = "restarting" /\ helper.crossed
      /\ UNCHANGED <<file, asked, place, status, journal, rac, starter, silent, baseline, saved, lost>>
      /\ rac = want /\ proved' = proved \union {rac}
  BY RestartLemma DEF Prove, SettingsInv, KindOfWork, Doing, Restarting
<1>2. helper' = [helper EXCEPT !.at = "capture"]
  BY DEF Prove
<1>3. helper' \in Helpers
  BY <1>1, <1>2, StageNames, HelperTypes, Zenon
<1>4. /\ helper'.at = "capture" /\ helper'.request = serving /\ helper'.told = "restarting"
      /\ helper'.crossed
  BY <1>1, <1>2 DEF Helpers, serving
<1>5. (KindOfWork /\ KnownGood)'
  BY <1>1, <1>4 DEF KindOfWork, KnownGood, Good, Doing, Committing, Restarting, RecoveringStages,
     serving, want
<1>6. Good'
  BY <1>1 DEF Good
<1> QED  BY <1>1, <1>3, <1>4, <1>5, <1>6, RestartingStep DEF SettingsInv

LEMMA UnchangedLemma ==
  ASSUME SettingsInv, helper.at = "capture", Unchanged
  PROVE  file \in Graphs /\ file = want
<1>1. /\ serving \in Requests /\ asked[serving].touched = Sources /\ file \in Graphs /\ want \in Graphs
  BY ServingLemma DEF SettingsInv, OneClaim, KindOfWork, Doing, Restarting, claimed
<1>2. \A s \in Sources : file[s] = want[s]
  BY <1>1 DEF Unchanged
<1> QED  BY <1>1, <1>2 DEF Graphs

LEMMA CaptureStep == SettingsInv /\ Capture => SettingsInv'
<1> SUFFICES ASSUME SettingsInv, Capture PROVE SettingsInv'
  OBVIOUS
<1>1. CASE StartRecovery /\ OnlyStatus
  BY <1>1, StartRecoveryStep DEF Capture, OnlyStatus, MaybeDown, Restarting
<1>2. CASE ~(StartRecovery /\ OnlyStatus)
  <2>1. /\ helper.at = "capture" /\ helper \in Helpers /\ asked[serving].kind = "restart"
        /\ rac \in Graphs \union {Absent} /\ starter \in {"helper", "system"}
        /\ status \in [Requests -> States]
        /\ status[serving].restart = "restarting" /\ helper.told = "restarting" /\ helper.crossed
        /\ Good /\ want \in proved /\ Unchanged /\ baseline' = file
        /\ UNCHANGED <<file, asked, place, status, journal, rac, starter, silent, saved, proved, lost>>
    BY <1>2, RestartLemma DEF Capture, SettingsInv, KindOfWork, KnownGood, Doing, Restarting
  <2>2. helper' = [helper EXCEPT !.at = "receipt"]
    BY <1>2 DEF Capture
  <2>3. helper' \in Helpers
    BY <2>1, <2>2, StageNames, HelperTypes, Zenon
  <2>4. /\ helper'.at = "receipt" /\ helper'.request = serving /\ helper'.told = "restarting"
        /\ helper'.crossed
    BY <2>1, <2>2 DEF Helpers, serving
  <2>5. (KindOfWork /\ KnownGood)' /\ Good'
    BY <2>1, <2>4 DEF KindOfWork, KnownGood, Good, Doing, Committing, Restarting, RecoveringStages,
       serving, want
  <2> QED  BY <2>1, <2>3, <2>4, <2>5, UnchangedLemma, RestartingStep DEF SettingsInv
<1> QED  BY <1>1, <1>2

LEMMA RecordReceiptStep == SettingsInv /\ RecordReceipt => SettingsInv'
<1> SUFFICES ASSUME SettingsInv, RecordReceipt PROVE SettingsInv'
  OBVIOUS
<1> DEFINE next == [helper EXCEPT !.at = "report"]
<1>1. CASE StartRecovery
  BY <1>1, StartRecoveryStep DEF RecordReceipt, OnlyStatus, MaybeDown, Restarting
<1>2. CASE Progress("restarted", next)
  <2>1. /\ helper.at = "receipt" /\ helper \in Helpers /\ asked[serving].kind = "restart"
        /\ rac \in Graphs \union {Absent} /\ starter \in {"helper", "system"} /\ Good
        /\ UNCHANGED <<file, asked, place, journal, rac, starter, silent, baseline, saved, proved, lost>>
    BY RestartLemma DEF RecordReceipt, OnlyStatus, SettingsInv, KindOfWork, KnownGood, Doing, Restarting
  <2>2. next \in Helpers
    BY <2>1, StageNames, HelperTypes, Zenon
  <2>3. next.at = "report" /\ next.request = serving
    BY <2>1 DEF Helpers, serving
  <2>4. /\ status' \in [Requests -> States] /\ status'[serving].state = status[serving].state
        /\ \A r \in Requests \ {serving} : status'[r] = status[r]
        /\ helper' \in Helpers /\ helper'.at = "report" /\ helper'.request = serving
    <3> HIDE DEF next
    <3> QED  BY <1>2, <2>1, <2>2, <2>3, StageNames, ProgressLemma
  <2>5. (KindOfWork /\ KnownGood)' /\ Good'
    BY <2>1, <2>4 DEF KindOfWork, KnownGood, Good, Doing, Committing, Restarting, RecoveringStages, serving
  <2> QED  BY <2>1, <2>4, <2>5, RestartingStep DEF SettingsInv
<1> QED  BY <1>1, <1>2 DEF RecordReceipt

LEMMA RerunStep == SettingsInv /\ Rerun => SettingsInv'
<1> SUFFICES ASSUME SettingsInv, Rerun PROVE SettingsInv'
  OBVIOUS
<1>1. /\ helper.at = "rerun" /\ helper \in Helpers /\ status \in [Requests -> States]
      /\ rac' \in Graphs \union {Absent} /\ starter' \in {"helper", "system"}
      /\ \/ /\ helper.crossed /\ asked[serving].kind = "restart"
            /\ status[serving].restart \in UnderWay /\ helper.told \in UnderWay
         \/ ~helper.crossed /\ asked[serving].kind = "recover"
      /\ baseline \in proved
      /\ UNCHANGED <<file, asked, place, status, journal, silent, baseline, saved, proved, lost>>
  BY RestartLemma DEF Rerun, MaybeDown, SettingsInv, KindOfWork, KnownGood, Doing, RecoveringStages
<1>2. PICK x \in {"reprove", "unswap"} :
        \/ x = "reprove" /\ helper' = [helper EXCEPT !.at = x]
        \/ x = "unswap" /\ helper' = [helper EXCEPT !.at = x, !.todo = Sources, !.recovered = FALSE]
  BY DEF Rerun, Leave
<1>3. helper' \in Helpers
  <2>1. x \in Stages /\ Sources \in SUBSET Sources /\ FALSE \in BOOLEAN
    BY StageNames
  <2>2. /\ [helper EXCEPT !.at = x] \in Helpers
        /\ [helper EXCEPT !.at = x, !.todo = Sources, !.recovered = FALSE] \in Helpers
    BY <1>1, <2>1, HelperTypes, Zenon
  <2> QED  BY <1>2, <2>2
<1>4. /\ helper'.at = x /\ helper'.request = serving /\ helper'.told = helper.told
      /\ helper'.crossed = helper.crossed /\ (x = "unswap" => ~helper'.recovered)
  BY <1>1, <1>2 DEF Helpers, serving
<1>5. (KindOfWork /\ KnownGood)'
  BY <1>1, <1>4 DEF KindOfWork, KnownGood, Doing, Committing, Restarting, RecoveringStages, serving
<1>6. Flagged(serving)'
  BY <1>1, <1>4 DEF Flagged, Doubts, UnderWay, serving
<1> QED  BY <1>1, <1>3, <1>4, <1>5, <1>6, RestartingStep DEF SettingsInv

LEMMA EnsureBaselineStep == SettingsInv /\ EnsureBaseline => SettingsInv'
<1> SUFFICES ASSUME SettingsInv, EnsureBaseline PROVE SettingsInv'
  OBVIOUS
<1>1. /\ helper \in Helpers /\ file \in Graphs /\ saved \in Graphs /\ lost \subseteq Sources
      /\ rac \in Graphs \union {Absent} /\ serving \in Requests /\ asked[serving] \in Asked
      /\ journal \in [Requests -> Journals] /\ helper.at = "baseline"
  BY ServingLemma DEF EnsureBaseline, SettingsInv, SettingsTypes
<1>2. PICK x \in {"prepare", "boundary", "report"} :
        /\ helper' = [helper EXCEPT !.at = x] \/ helper' = [helper EXCEPT !.at = x, !.result = "failed"]
        /\ x = "prepare" => asked[serving].kind = "commit"
        /\ x = "boundary" => asked[serving].kind # "commit"
        /\ x = "report" => helper' = [helper EXCEPT !.at = x, !.result = "failed"]
  BY DEF EnsureBaseline, Fails
<1>3. x \in Stages /\ helper' \in Helpers
  <2>1. x \in Stages
    BY <1>2, StageNames
  <2>2. /\ [helper EXCEPT !.at = x] \in Helpers
        /\ [helper EXCEPT !.at = x, !.result = "failed"] \in Helpers
    BY <1>1, <2>1, HelperTypes, StageNames, Zenon
  <2> QED  BY <1>2, <2>1, <2>2
<1>4. /\ helper'.at = x /\ helper'.request = serving /\ helper'.recovered = helper.recovered
      /\ helper'.told = helper.told
      /\ helper'.at = "report" => helper'.result = "failed"
  BY <1>1, <1>2 DEF Helpers, serving
<1>5. UNCHANGED <<file, asked, place, status, journal, rac, starter, silent, saved, lost>>
  BY DEF EnsureBaseline, Fails, OnlyHelper, Seal
<1>6. (KindOfWork /\ KnownGood)'
  BY <1>1, <1>2, <1>4, <1>5 DEF EnsureBaseline, Asked, SettingsInv, OneClaim, KindOfWork, KnownGood,
     Doing, Committing, Restarting, RecoveringStages, want, serving
<1>7. CASE UNCHANGED <<baseline, proved>>
  BY <1>1, <1>2, <1>3, <1>4, <1>5, <1>6, <1>7, QuietStep DEF Quiet, SettingsInv
<1>8. CASE baseline' = file /\ rac = file /\ proved' = proved \union {file}
  <2>1. Good' /\ status \in [Requests -> States] /\ starter \in {"helper", "system"}
    BY <1>5, <1>8 DEF Good, SettingsInv, SettingsTypes
  <2> QED  BY <1>1, <1>2, <1>3, <1>4, <1>5, <1>6, <1>8, <2>1, RestartingStep DEF SettingsInv
<1> QED  BY <1>7, <1>8 DEF EnsureBaseline, Fails, OnlyHelper, Seal

LEMMA UnswappedStep == SettingsInv /\ Unswapped => SettingsInv'
<1> SUFFICES ASSUME SettingsInv, Unswapped PROVE SettingsInv'
  OBVIOUS
<1> DEFINE next == [helper EXCEPT !.at = "report",
                                  !.result = IF helper.recovered THEN @ ELSE "failed"]
           p == IF helper.recovered THEN "recovered" ELSE "recovery-failed"
<1>1. /\ helper.at = "unswap" /\ helper \in Helpers /\ status \in [Requests -> States]
      /\ rac \in Graphs \union {Absent} /\ starter \in {"helper", "system"}
      /\ \/ /\ helper.crossed /\ asked[serving].kind = "restart"
            /\ status[serving].restart \in UnderWay /\ helper.told \in UnderWay
         \/ ~helper.crossed /\ asked[serving].kind = "recover"
      /\ helper.recovered => Good
      /\ status[serving].state = "running"
      /\ UNCHANGED <<file, asked, place, journal, rac, starter, silent, baseline, saved, proved, lost>>
  BY RestartLemma DEF Unswapped, OnlyStatus, SettingsInv, OneClaim, KindOfWork, KnownGood, Doing,
     RecoveringStages
<1>2. next \in Helpers /\ next.at = "report" /\ next.request = serving /\ next.told = helper.told
      /\ (next.result = "complete" => helper.recovered)
  <2>1. next = [helper EXCEPT !.at = "report", !.result = IF helper.recovered THEN helper.result ELSE "failed"]
    BY <1>1, Zenon DEF Helpers
  <2>2. (IF helper.recovered THEN helper.result ELSE "failed") \in Results
    BY <1>1 DEF Helpers, Results
  <2>3. next \in Helpers
    BY <1>1, <2>1, <2>2, StageNames, HelperTypes, Zenon
  <2> QED  BY <1>1, <2>3 DEF Helpers, serving
<1>3. /\ status' \in [Requests -> States] /\ status'[serving].state = status[serving].state
      /\ \A r \in Requests \ {serving} : status'[r] = status[r]
      /\ helper' \in Helpers /\ helper'.at = "report" /\ helper'.request = serving
      /\ helper'.result = "complete" => helper.recovered
      /\ helper.crossed /\ ~helper.recovered =>
           status'[serving].restart \in Doubts /\ helper'.told \in Doubts
  <2>1. CASE ~helper.crossed
    BY <1>1, <1>2, <2>1 DEF Unswapped, RecoveryEnds
  <2>2. CASE helper.crossed
    <3>1. Progress(p, next) /\ p \in Progresses
      BY <2>2, StageNames DEF Unswapped, RecoveryEnds
    <3>2. ~helper.recovered => p = "recovery-failed"
      OBVIOUS
    <3> HIDE DEF next, p
    <3>3. /\ status' \in [Requests -> States] /\ status'[serving].state = status[serving].state
          /\ status'[serving].restart \in {status[serving].restart, p}
          /\ \A r \in Requests \ {serving} : status'[r] = status[r]
          /\ helper' \in Helpers /\ helper'.at = "report" /\ helper'.request = serving
          /\ helper'.result = next.result /\ helper'.told \in {helper.told, p}
      BY <1>1, <1>2, <3>1, ProgressLemma
    <3> QED  BY <1>1, <1>2, <2>2, <3>2, <3>3 DEF Doubts, UnderWay
  <2> QED  BY <2>1, <2>2
<1>4. (KindOfWork /\ KnownGood)'
  BY <1>1, <1>3 DEF KindOfWork, KnownGood, Good, Doing, Committing, Restarting, RecoveringStages, serving
<1>5. Good' \/ Flagged(serving)'
  BY <1>1, <1>3 DEF Good, Flagged, serving
<1> QED  BY <1>1, <1>3, <1>4, <1>5, RestartingStep DEF SettingsInv

(* ------------------------ requests come, start and end -------------------- *)

LEMMA IdleLemma == Idle \in Helpers /\ \A r \in Requests : [Idle EXCEPT !.at = "claim", !.request = r] \in Helpers
<1>1. NoWrite \in Writes /\ Nothing \in [Sources -> Contents \union {Absent}]
  BY DEF NoWrite, Writes, Nothing
<1>2. Idle \in Helpers
  BY <1>1, StageNames, Zenon DEF Idle, Helpers, Results
<1>3. \A r \in Requests : [Idle EXCEPT !.at = "claim", !.request = r] \in Helpers
  BY <1>2, StageNames, Zenon DEF Helpers
<1> QED  BY <1>2, <1>3

LEMMA AskStep ==
  ASSUME NEW r \in Requests, NEW kind \in {"commit", "restart", "recover"},
         NEW touched \in SUBSET Sources, SettingsInv, Ask(r, kind, touched)
  PROVE  SettingsInv'
<1> DEFINE a == [kind |-> kind, touched |-> touched, expected |-> file]
<1>1. /\ place[r] = "none" /\ asked' = [asked EXCEPT ![r] = a]
      /\ place' = [place EXCEPT ![r] = "queued"]
      /\ a \in Asked /\ a.kind = kind /\ (kind # "commit" => a.touched = Sources)
      /\ UNCHANGED <<file, status, journal, helper, rac, starter, silent, baseline, saved, proved, lost>>
  BY DEF Ask, SettingsInv, SettingsTypes, Asked
<1> HIDE DEF a
<1>2. /\ asked \in [Requests -> Asked \union {Absent}]
      /\ place \in [Requests -> {"none", "queued", "claimed", "done"}]
      /\ status[r] = [state |-> "new", restart |-> "none"]
  BY <1>1 DEF SettingsInv, SettingsTypes, OneClaim
<1>3. /\ claimed' = claimed /\ asked'[r] = a /\ place'[r] = "queued"
      /\ \A q \in Requests \ {r} : asked'[q] = asked[q] /\ place'[q] = place[q]
  BY <1>1, <1>2 DEF claimed
<1>4. SettingsTypes'
  BY <1>1, <1>2 DEF SettingsInv, SettingsTypes
<1>5. OneClaim'
  BY <1>1, <1>2, <1>3 DEF SettingsInv, OneClaim, claimed, serving
<1>6. helper.at # "idle" => serving \in Requests /\ serving # r
  BY <1>1 DEF SettingsInv, OneClaim, claimed
<1>7. helper.at = "idle" => ~Doing(Committing \union {"check", "baseline"} \union Restarting \union RecoveringStages)
  BY DEF Doing, Committing, Restarting, RecoveringStages
<1>8. (KindOfWork /\ KnownGood)'
  BY <1>1, <1>3, <1>6, <1>7 DEF SettingsInv, KindOfWork, KnownGood, Good, serving, want, Doing, Restarting
<1>9. (BaselineIsProved /\ DoubtIsOnRecord)'
  BY <1>1, <1>2, <1>3 DEF SettingsInv, BaselineIsProved, DoubtIsOnRecord, Good, Flagged, Serves, serving
<1> QED  BY <1>4, <1>5, <1>8, <1>9 DEF SettingsInv

LEMMA EditSourceStep ==
  ASSUME NEW s \in Sources, NEW e \in Edits, SettingsInv, EditSource(s, e) PROVE SettingsInv'
<1>1. /\ e \in Contents
      /\ file' = [file EXCEPT ![s] = e] /\ saved' = [saved EXCEPT ![s] = e] /\ lost' = lost \ {s}
      /\ UNCHANGED <<asked, place, status, journal, helper, rac, starter, silent, baseline, proved>>
  BY DEF EditSource, Contents
<1>2. SettingsTypes'
  BY <1>1 DEF SettingsInv, SettingsTypes, Graphs
<1>3. (OneClaim /\ KindOfWork /\ KnownGood)'
  BY <1>1 DEF SettingsInv, OneClaim, KindOfWork, KnownGood, Good, claimed, serving, want, Doing
<1>4. (BaselineIsProved /\ DoubtIsOnRecord)'
  BY <1>1 DEF SettingsInv, BaselineIsProved, DoubtIsOnRecord, Good, Flagged, Serves, serving
<1> QED  BY <1>2, <1>3, <1>4 DEF SettingsInv

(* The system starts the server, which nobody is told: that is what `starter` *)
(* remembers.                                                                 *)
LEMMA ServerStartsStep == SettingsInv /\ ServerStarts => SettingsInv'
<1> SUFFICES ASSUME SettingsInv, ServerStarts PROVE SettingsInv'
  OBVIOUS
<1>1. /\ rac' = file /\ starter' = "system"
      /\ UNCHANGED <<file, asked, place, status, journal, helper, baseline, saved, proved, lost, silent>>
  BY DEF ServerStarts
<1>2. SettingsTypes'
  BY <1>1 DEF SettingsInv, SettingsTypes
<1>3. (OneClaim /\ KindOfWork)'
  BY <1>1 DEF SettingsInv, OneClaim, KindOfWork, claimed, serving, Doing
<1>4. (KnownGood /\ BaselineIsProved /\ DoubtIsOnRecord)'
  BY <1>1 DEF SettingsInv, KnownGood, BaselineIsProved, DoubtIsOnRecord, Good, want, serving, Doing
<1> QED  BY <1>2, <1>3, <1>4 DEF SettingsInv

\* The helper is idle, or about to look at a claim.
LEMMA FreshStep ==
  ASSUME SettingsInv,
         UNCHANGED <<file, asked, status, journal, rac, starter, silent, baseline, saved, proved>>,
         place' \in [Requests -> {"none", "queued", "claimed", "done"}], lost' \subseteq Sources,
         \A q \in Requests : place'[q] = "none" <=> place[q] = "none",
         \A p, q \in claimed' : p = q,
         helper' \in Helpers, helper'.at \in {"idle", "claim"}, ~helper'.crossed,
         helper'.told = "none", helper'.at = "claim" => helper'.request \in claimed'
  PROVE  SettingsInv'
<1>1. SettingsTypes'
  BY DEF SettingsInv, SettingsTypes
<1>2. OneClaim'
  BY DEF SettingsInv, OneClaim, serving
<1>3. (KindOfWork /\ KnownGood)'
  BY DEF KindOfWork, KnownGood, Doing, Committing, Restarting, RecoveringStages
<1>4. (BaselineIsProved /\ DoubtIsOnRecord)'
  BY DEF SettingsInv, BaselineIsProved, DoubtIsOnRecord, Good, Flagged, Serves
<1> QED  BY <1>1, <1>2, <1>3, <1>4 DEF SettingsInv

LEMMA HelperStopsStep == SettingsInv /\ HelperStops => SettingsInv'
<1> SUFFICES ASSUME SettingsInv, HelperStops PROVE SettingsInv'
  OBVIOUS
<1>1. /\ helper' = Idle
      /\ UNCHANGED <<file, asked, place, status, journal, rac, starter, silent, baseline, saved, proved>>
      /\ lost' \subseteq Sources /\ place \in [Requests -> {"none", "queued", "claimed", "done"}]
  BY DEF HelperStops, SettingsInv, SettingsTypes
<1>2. helper'.at = "idle" /\ ~helper'.crossed /\ helper'.told = "none"
  BY <1>1 DEF Idle
<1>3. claimed' = claimed /\ \A p, q \in claimed : p = q
  BY <1>1 DEF claimed, SettingsInv, OneClaim
<1> QED  BY <1>1, <1>2, <1>3, IdleLemma, FreshStep

LEMMA ClaimStep == ASSUME NEW r \in Requests, SettingsInv, Claim(r) PROVE SettingsInv'
<1>1. /\ helper' = [Idle EXCEPT !.at = "claim", !.request = r]
      /\ place' = [place EXCEPT ![r] = "claimed"] /\ Eligible(r)
      /\ UNCHANGED <<file, asked, status, journal, rac, starter, silent, baseline, saved, proved, lost>>
      /\ place \in [Requests -> {"none", "queued", "claimed", "done"}] /\ lost \subseteq Sources
  BY DEF Claim, SettingsInv, SettingsTypes
<1>2. helper'.at = "claim" /\ ~helper'.crossed /\ helper'.request = r /\ helper' \in Helpers
      /\ helper'.told = "none"
  BY <1>1, IdleLemma DEF Idle
<1>3. place[r] # "none" /\ claimed' = claimed \union {r} /\ (claimed = {} \/ r \in claimed)
  BY <1>1 DEF Eligible, claimed
<1>4. \A p, q \in claimed' : p = q
  BY <1>3 DEF SettingsInv, OneClaim
<1> QED  BY <1>1, <1>2, <1>3, <1>4, FreshStep

LEMMA RemoveClaimStep == SettingsInv /\ RemoveClaim => SettingsInv'
<1> SUFFICES ASSUME SettingsInv, RemoveClaim PROVE SettingsInv'
  OBVIOUS
<1>1. /\ helper' = Idle /\ place' = [place EXCEPT ![serving] = "done"]
      /\ UNCHANGED <<file, asked, status, journal, rac, starter, silent, baseline, saved, proved, lost>>
      /\ place \in [Requests -> {"none", "queued", "claimed", "done"}] /\ lost \subseteq Sources
      /\ serving \in claimed
  BY DEF RemoveClaim, SettingsInv, SettingsTypes, OneClaim
<1>2. helper'.at = "idle" /\ ~helper'.crossed /\ helper'.told = "none"
  BY <1>1 DEF Idle
<1>3. claimed' = claimed \ {serving} /\ serving \in Requests /\ place[serving] = "claimed"
  BY <1>1 DEF claimed
<1>4. \A p, q \in claimed' : p = q
  BY <1>1, <1>3 DEF SettingsInv, OneClaim
<1> QED  BY <1>1, <1>2, <1>3, <1>4, IdleLemma, FreshStep

LEMMA ProcessStep == SettingsInv /\ Process => SettingsInv'
<1> SUFFICES ASSUME SettingsInv, Process PROVE SettingsInv'
  OBVIOUS
<1> DEFINE running == [state |-> "running", restart |-> status[serving].restart]
           taken == [helper EXCEPT !.told = status[serving].restart]
<1>1. /\ helper \in Helpers /\ helper.at = "claim" /\ ~helper.crossed
      /\ serving \in Requests /\ serving \in claimed /\ asked[serving] \in Asked
      /\ status[serving].restart \in Progresses /\ status[serving] \in States
      /\ asked[serving].kind = "commit" => status[serving].restart = "none"
  BY ServingLemma DEF Process, SettingsInv, OneClaim, States, claimed
<1>2. CASE Terminal(serving)
  <2>1. helper' = [helper EXCEPT !.at = "remove"] /\ OnlyHelper
    BY <1>2 DEF Process, GoTo
  <2>2. helper' \in Helpers
    BY <1>1, <2>1, StageNames, HelperTypes, Zenon
  <2>3. helper'.at = "remove" /\ helper'.request = serving /\ helper'.told = helper.told
    BY <1>1, <2>1 DEF Helpers, serving
  <2>4. SettingsTypes'
    BY <2>1, <2>2, <2>3 DEF SettingsInv, SettingsTypes, OnlyHelper
  <2>5. OneClaim'
    BY <1>1, <1>2, <2>1, <2>3 DEF SettingsInv, OneClaim, OnlyHelper, claimed, serving
  <2>6. (KindOfWork /\ KnownGood)'
    BY <2>3 DEF KindOfWork, KnownGood, Doing, Committing, Restarting, RecoveringStages
  <2>7. (BaselineIsProved /\ DoubtIsOnRecord)'
    BY <2>1, <2>3 DEF SettingsInv, BaselineIsProved, DoubtIsOnRecord, Good, Flagged, Serves, OnlyHelper
  <2> QED  BY <2>4, <2>5, <2>6, <2>7 DEF SettingsInv
<1>3. CASE ~Terminal(serving)
  <2>1. running \in States /\ taken \in Helpers
    BY <1>1, HelperTypes, StageNames, Zenon DEF States
  <2>2. taken.told = status[serving].restart /\ taken.at = "claim" /\ taken.request = serving
        /\ ~taken.crossed /\ taken.result = helper.result
    BY <1>1 DEF Helpers, serving
  <2>3. /\ PutWorks(serving, running) \/ PutFails(serving, running)
        /\ UNCHANGED <<file, asked, place, journal, rac, starter, silent, baseline, saved, proved, lost>>
        /\ \/ /\ PutWorks(serving, running)
              /\ \E x \in {"resume", "check", "swap"}, t \in {Sources, {}} :
                   /\ helper' = [taken EXCEPT !.at = x, !.todo = t]
                   /\ x = "resume" <=> asked[serving].kind = "commit"
                   /\ x = "check" <=> asked[serving].kind = "restart"
           \/ helper' = [taken EXCEPT !.at = "report", !.result = "failed"]
    <3> HIDE DEF taken, running
    <3> QED  BY <1>1, <1>3 DEF Process, OnlyStatus, Asked, running, taken
  <2>4. /\ running.state = "running" /\ running.restart = status[serving].restart
    OBVIOUS
  <2> HIDE DEF running, taken
  <2>5. /\ status' \in [Requests -> States] /\ status'[serving].restart = status[serving].restart
        /\ status'[serving].state \in {status[serving].state, "running"}
        /\ PutWorks(serving, running) => status'[serving].state = "running"
        /\ \A r \in Requests \ {serving} : status'[r] = status[r]
    BY <1>1, <2>1, <2>3, <2>4, PutLemma
  <2> DEFINE Begins(x) ==
               /\ helper' \in Helpers /\ helper'.request = serving /\ ~helper'.crossed
               /\ helper'.told = status[serving].restart /\ helper'.at = x
  <2>6. \/ Begins("report") /\ helper'.result = "failed"
        \/ \E x \in {"resume", "check", "swap"} :
             /\ Begins(x) /\ status'[serving].state = "running"
             /\ x = "resume" <=> asked[serving].kind = "commit"
             /\ x = "check" <=> asked[serving].kind = "restart"
    <3>1. CASE helper' = [taken EXCEPT !.at = "report", !.result = "failed"]
      <4>1. helper' \in Helpers
        BY <2>1, <3>1, StageNames, HelperTypes, Zenon
      <4> QED  BY <2>1, <2>2, <3>1, <4>1 DEF Helpers, serving
    <3>2. ASSUME NEW x \in {"resume", "check", "swap"}, NEW t \in {Sources, {}},
                 helper' = [taken EXCEPT !.at = x, !.todo = t]
          PROVE  Begins(x)
      <4>1. x \in Stages /\ t \in SUBSET Sources
        BY StageNames
      <4>2. helper' \in Helpers
        BY <2>1, <3>2, <4>1, HelperTypes, Zenon
      <4> QED  BY <2>1, <2>2, <3>2, <4>2 DEF Helpers, serving
    <3> HIDE DEF Begins
    <3> QED  BY <2>3, <2>5, <3>1, <3>2
  <2>7. SettingsTypes'
    BY <2>3, <2>5, <2>6 DEF SettingsInv, SettingsTypes
  <2>8. OneClaim'
    BY <1>1, <2>3, <2>5, <2>6 DEF SettingsInv, OneClaim, claimed, serving
  <2>9. (KindOfWork /\ KnownGood)'
    BY <1>1, <1>3, <2>3, <2>5, <2>6 DEF KindOfWork, KnownGood, Doing, Committing, Restarting,
       RecoveringStages, serving, Asked, Terminal
  <2>10. (BaselineIsProved /\ DoubtIsOnRecord)'
    BY <1>1, <2>3, <2>5, <2>6 DEF SettingsInv, BaselineIsProved, DoubtIsOnRecord, Good, Flagged,
       Serves, serving
  <2> QED  BY <2>7, <2>8, <2>9, <2>10 DEF SettingsInv
<1> QED  BY <1>2, <1>3

(* An outcome is written, or that fails: what a request said of a server that *)
(* no boot has proved stays, as only a success would take it back.            *)
LEMMA OutcomeStep ==
  ASSUME SettingsInv, helper.at = "report",
         \/ PutWorks(serving, Outcome(helper.result))
         \/ PutFails(serving, Outcome(helper.result)),
         UNCHANGED <<file, asked, place, journal, rac, starter, baseline, saved, proved, lost>>,
         silent' \subseteq Requests,
         \/ helper' = [helper EXCEPT !.at = "remove"]
         \/ helper' = [helper EXCEPT !.result = "failed"]
  PROVE  SettingsInv'
<1>1. /\ helper \in Helpers /\ helper.result \in Results /\ helper.told \in Progresses
      /\ serving \in Requests /\ serving \in claimed /\ asked[serving] \in Asked
      /\ place[serving] # "none"
  BY ServingLemma DEF Helpers, Results, claimed
<1>2. /\ Outcome(helper.result) \in States
      /\ Outcome(helper.result).state = helper.result /\ Outcome(helper.result).restart = helper.told
  BY <1>1 DEF Outcome, States, Results
<1>3. /\ status' \in [Requests -> States]
      /\ \/ status'[serving] = status[serving]
         \/ status'[serving].state = helper.result /\ status'[serving].restart = helper.told
      /\ \A r \in Requests \ {serving} : status'[r] = status[r]
  BY <1>2, PutLemma
<1>4. helper' \in Helpers
  <2>1. [helper EXCEPT !.at = "remove"] \in Helpers
    BY <1>1, StageNames, HelperTypes, Zenon
  <2>2. [helper EXCEPT !.result = "failed"] \in Helpers
    BY <1>1, Zenon DEF Helpers
  <2> QED  BY <2>1, <2>2
<1>5. /\ helper'.request = serving /\ helper'.told = helper.told
      /\ helper'.at = "remove" \/ (helper'.at = "report" /\ helper'.result = "failed")
  BY <1>1 DEF Helpers, serving
<1>6. SettingsTypes'
  BY <1>3, <1>4, <1>5 DEF SettingsInv, SettingsTypes
<1>7. OneClaim'
  BY <1>1, <1>3, <1>5 DEF SettingsInv, OneClaim, claimed, serving
<1>8. asked[serving].kind # "commit" /\ (helper.result = "complete" \/ status[serving].state = "complete")
        => Good
  BY DEF SettingsInv, KnownGood
<1>9. (KindOfWork /\ KnownGood)'
  BY <1>1, <1>3, <1>5, <1>8 DEF KindOfWork, KnownGood, Good, Doing, Committing, Restarting,
     RecoveringStages, serving, Results
<1>10. BaselineIsProved'
  BY DEF SettingsInv, BaselineIsProved
<1>11. DoubtIsOnRecord'
  <2> SUFFICES ASSUME ~Good PROVE DoubtIsOnRecord'
    BY DEF DoubtIsOnRecord, Good
  <2>1. PICK r \in Requests : Flagged(r) /\ status[r].state \in {"running", "failed"}
    BY DEF SettingsInv, DoubtIsOnRecord
  <2>2. CASE r = serving
    <3>1. asked[serving].kind # "commit"
      BY <1>1, <2>1, <2>2 DEF SettingsInv, OneClaim, Flagged, Doubts
    <3>2. helper.result = "failed"
      BY <1>1, <1>8, <3>1 DEF Results
    <3> QED  BY <1>1, <1>3, <1>5, <2>1, <2>2, <3>2 DEF DoubtIsOnRecord, Flagged, Serves, serving
  <2>3. CASE r # serving
    BY <1>3, <1>5, <2>1, <2>3 DEF DoubtIsOnRecord, Flagged, Serves, serving
  <2> QED  BY <2>2, <2>3
<1> QED  BY <1>6, <1>7, <1>9, <1>10, <1>11 DEF SettingsInv

LEMMA ReportSteps == SettingsInv /\ (Report \/ SuccessUnwritten \/ FailureUnwritten) => SettingsInv'
<1>1. SettingsInv => silent \subseteq Requests
  BY DEF SettingsInv, SettingsTypes
<1>2. SettingsInv /\ helper.at = "report" => serving \in Requests
  BY ServingLemma
<1>3. SettingsInv /\ Report => SettingsInv'
  BY <1>1, OutcomeStep DEF Report, OnlyStatus
<1>4. SettingsInv /\ SuccessUnwritten => SettingsInv'
  BY <1>1, OutcomeStep DEF SuccessUnwritten, OnlyStatus
<1>5. SettingsInv /\ FailureUnwritten => SettingsInv'
  BY <1>1, <1>2, OutcomeStep DEF FailureUnwritten
<1> QED  BY <1>3, <1>4, <1>5

(* ------------------------------- theorems -------------------------------- *)

LEMMA StartsGood == SettingsInit => SettingsInv
<1> SUFFICES ASSUME SettingsInit PROVE SettingsInv
  OBVIOUS
<1>1. file \in Graphs
  BY DEF SettingsInit, Graphs, Contents
<1>2. \A r \in Requests : status[r] \in States /\ journal[r] \in Journals /\ place[r] = "none"
                        /\ status[r] = [state |-> "new", restart |-> "none"]
  BY DEF SettingsInit, States, Journals, Progresses
<1>3. helper \in Helpers /\ helper.at = "idle"
  BY IdleLemma DEF SettingsInit, Idle
<1>4. SettingsTypes
  BY <1>1, <1>2, <1>3 DEF SettingsInit, SettingsTypes
<1>5. OneClaim
  BY <1>2, <1>3 DEF OneClaim, claimed
<1>6. KindOfWork /\ KnownGood
  BY <1>3 DEF KindOfWork, KnownGood, Doing, Committing, Restarting, RecoveringStages
<1>7. BaselineIsProved /\ DoubtIsOnRecord
  BY DEF SettingsInit, BaselineIsProved, DoubtIsOnRecord, Good
<1> QED  BY <1>4, <1>5, <1>6, <1>7 DEF SettingsInv

LEMMA StaysGood == SettingsInv /\ [SettingsNext]_settings => SettingsInv'
<1> SUFFICES ASSUME SettingsInv, [SettingsNext]_settings PROVE SettingsInv'
  OBVIOUS
<1>1. CASE UNCHANGED settings
  BY <1>1 DEF settings, SettingsInv, SettingsTypes, OneClaim, KindOfWork, KnownGood, BaselineIsProved,
     DoubtIsOnRecord, Good, Flagged, Serves, claimed, serving, want, Doing
<1>2. CASE HelperWorks
  BY <1>2, ClaimStep, ProcessStep, ReportSteps, RemoveClaimStep, ReplaceStep, ReplaceFailsStep,
     ResumeStep, CheckManifestStep, EnsureBaselineStep, PrepareStep, CommitFailsStep, CompleteStep,
     UndoneStep, BoundaryFailsStep, CrossBoundaryStep, RestartStep, RestartFailsStep, ProveStep,
     ProveFailsStep, CaptureStep, RecordReceiptStep, NothingToRecoverStep, SwappedStep, RerunStep, ReproveStep,
     UnswappedStep, WriteSourceStep, UndoSourceStep, SwapStep, UnswapStep DEF HelperWorks
<1> QED  BY <1>1, <1>2, AskStep, EditSourceStep, HelperStopsStep, ServerStartsStep
     DEF SettingsNext

(* The inductive invariant of the helper: one claim is processed at a time, in *)
(* an order of stages that fits what it asks, and whoever runs settings that   *)
(* no boot has proved has said so in the status of a request.                  *)
THEOREM SettingsInvariant == SettingsAlone => []SettingsInv
BY StartsGood, StaysGood, PTL DEF SettingsAlone

(* What recovery would fall back to has been proved by a boot, for any       *)
(* sources, requests and edits and any number of helper crashes.            *)
THEOREM BaselineIsAlwaysProved == SettingsAlone => []BaselineIsProved
<1>1. SettingsInv => BaselineIsProved
  BY DEF SettingsInv
<1> QED  BY <1>1, SettingsInvariant, PTL

(* When no request is at work, the server that the helper has left running   *)
(* runs what a boot has proved, or a request says that it may not: for any   *)
(* sources and requests, wherever the helper stops and whatever fails.       *)
THEOREM UnprovedIsAlwaysReported == SettingsAlone => []UnprovedIsReported
<1>1. SettingsInv => UnprovedIsReported
  BY DEF SettingsInv, DoubtIsOnRecord, UnprovedIsReported, Good, Flagged, Doubts, Admits
<1> QED  BY <1>1, SettingsInvariant, PTL

(* Types of the files, requests, journals and of the helper's memory.        *)
THEOREM SettingsTypeCorrect == SettingsAlone => []SettingsTypeOK
<1>1. SettingsInv => SettingsTypeOK
  <2> SUFFICES ASSUME SettingsInv PROVE SettingsTypeOK
    OBVIOUS
  <2>1. SettingsTypes /\ OneClaim
    BY DEF SettingsInv
  <2>2. /\ helper.at \in Stages /\ helper.todo \subseteq Sources
        /\ helper.held \in [Sources -> Contents \union {Absent}]
    BY <2>1 DEF SettingsTypes, Helpers
  <2>3. helper.at # "idle" => place[helper.request] = "claimed"
    BY <2>1 DEF OneClaim, claimed, serving
  <2>4. \A r \in Requests :
          /\ place[r] \in {"none", "queued", "claimed", "done"}
          /\ status[r] \in States /\ journal[r] \in Journals
          /\ place[r] # "none" => asked[r] \in Asked
    BY <2>1 DEF SettingsTypes, OneClaim
  <2> QED  BY <2>1, <2>2, <2>3, <2>4 DEF SettingsTypeOK, SettingsTypes, States, Journals, Asked, Progresses
<1> QED  BY <1>1, SettingsInvariant, PTL

(* ------------------- where the saved bytes are ---------------------------- *)

\* The journal of a request that is over stays as it is.
Lasting ==
  \A r \in Requests : place[r] = "done" => place'[r] = "done" /\ journal'[r] = journal[r]

LEMMA PartialStays == ASSUME NEW s \in Sources, Lasting PROVE Partial(s) => Partial(s)'
BY DEF Lasting, Partial

(* A source stays where it is while its file does, unless the helper gives   *)
(* back what it holds when the file has it already.                          *)
AsideSteps(s) ==
  \/ ~Aside(s) /\ ~Aside(s)'
  \/ Aside(s) /\ ~Aside(s)' /\ Kept(s, file[s])
  \/ Aside(s) /\ Aside(s)' /\ baseline' = baseline /\ helper'.held[s] = helper.held[s]

LEMMA StandsStep ==
  ASSUME NEW s \in Sources, SavedStands(s), file'[s] = file[s], saved'[s] = saved[s],
         s \in lost => s \in lost', Partial(s) => Partial(s)',
         \A r \in Requests : Rewritten(r, s) => asked'[r] = asked[r],
         \A r \in Requests : Rewritten(r, s)' <=> Rewritten(r, s),
         AsideSteps(s)
  PROVE  SavedStands(s)'
BY DEF SavedStands, Kept, AsideSteps

LEMMA ServedAlone ==
  ASSUME SettingsInv, helper.at # "idle" PROVE \A r \in claimed : r = serving
BY DEF SettingsInv, OneClaim

\* The helper goes on, and nobody's bytes or journals change.
Moves ==
  /\ UNCHANGED <<file, saved, lost, asked, place, journal, edited>>
  /\ \A s \in Sources : helper'.held[s] \in {helper.held[s], Absent}
  /\ baseline' \in {baseline, file}

LEMMA AbsentIsSeen == Seen(Absent) /\ \A r \in Requests : Seen(r)
BY SettingsAssumption DEF Contents, Seen

LEMMA MoveStep ==
  ASSUME SettingsInv, SavedInv, Moves, \A s \in Sources : AsideSteps(s)
  PROVE  (\A s \in Sources : SavedStands(s))' /\ JournalsTell' /\ EditsAreNew'
<1>1. Lasting
  BY DEF Moves, Lasting
<1>2. ASSUME NEW s \in Sources PROVE SavedStands(s)'
  <2>1. Partial(s) => Partial(s)'
    BY <1>1, PartialStays
  <2>2. \A r \in Requests : Rewritten(r, s)' <=> Rewritten(r, s)
    BY DEF Moves, Rewritten, claimed
  <2> QED  BY <2>1, <2>2, StandsStep DEF Moves, SavedInv
<1>3. JournalsTell'
  BY DEF Moves, SavedInv, JournalsTell
<1>4. EditsAreNew'
  <2>1. (baseline = Absent \/ \A s \in Sources : Seen(baseline[s])) /\ \A s \in Sources : Seen(file[s]) /\ Seen(helper.held[s])
    BY DEF SavedInv, EditsAreNew
  <2> QED  BY <2>1, AbsentIsSeen DEF Moves, SavedInv, EditsAreNew, Seen
<1> QED  BY <1>2, <1>3, <1>4

\* While the helper holds nothing, nothing is aside.
Empty(h) == \A s \in Sources : h.held[s] = Absent
LEMMA CalmMove ==
  ASSUME SettingsInv, SavedInv, Moves, Empty(helper)
  PROVE  (\A s \in Sources : SavedStands(s))' /\ JournalsTell' /\ EditsAreNew' /\ Empty(helper')
<1>1. Empty(helper')
  BY DEF Moves, Empty
<1>2. \A s \in Sources : AsideSteps(s)
  BY <1>1 DEF Empty, AsideSteps, Aside
<1> QED  BY <1>1, <1>2, MoveStep

LEMMA EmptyIsNew == Empty(helper)' => HeldIsNew'
BY DEF Empty, HeldIsNew

LEMMA CalmLemma ==
  ASSUME SettingsInv, SavedInv, helper.at # "idle", helper.at \notin {"report", "remove"},
         ~Doing(RecoveringStages)
  PROVE  helper \in Helpers /\ Empty(helper) /\ serving \in Requests
         /\ (asked[serving].kind # "commit" => journal[serving].phase # "committing")
BY ServingLemma DEF SavedInv, HeldIsNew, Empty, JournalsTell

LEMMA CheckManifestSaved == SettingsInv /\ SavedInv /\ CheckManifest => SavedInv'
<1> SUFFICES ASSUME SettingsInv, SavedInv, CheckManifest PROVE SavedInv'
  OBVIOUS
<1>1. helper.at = "check" /\ helper \in Helpers /\ Empty(helper) /\ serving \in Requests
      /\ (asked[serving].kind # "commit" => journal[serving].phase # "committing")
  BY CalmLemma DEF CheckManifest, Doing, RecoveringStages
<1>2. /\ helper'.request = serving /\ helper'.held = helper.held
      /\ helper'.at = "baseline" \/ (helper'.at = "report" /\ helper'.result = "failed")
  BY <1>1 DEF CheckManifest, GoTo, Fails, OnlyHelper, Helpers, serving
<1>3. Moves
  BY <1>1, <1>2 DEF CheckManifest, GoTo, Fails, OnlyHelper, Moves
<1>4. (CommitIsOpen /\ WriteIsDue)'
  BY <1>1, <1>2, <1>3, CalmMove DEF Moves, SavedInv, CommitIsOpen, WriteIsDue, Doing, serving,
     SettingsInv, KindOfWork, Restarting
<1> QED  BY <1>1, <1>3, <1>4, CalmMove, EmptyIsNew DEF SavedInv

LEMMA EnsureBaselineSaved == SettingsInv /\ SavedInv /\ EnsureBaseline => SavedInv'
<1> SUFFICES ASSUME SettingsInv, SavedInv, EnsureBaseline PROVE SavedInv'
  OBVIOUS
<1>1. helper.at = "baseline" /\ helper \in Helpers /\ Empty(helper) /\ serving \in Requests
      /\ (asked[serving].kind # "commit" => journal[serving].phase # "committing")
  BY CalmLemma DEF EnsureBaseline, Doing, RecoveringStages
<1>2. /\ helper'.request = serving /\ helper'.held = helper.held
      /\ helper'.at \in {"prepare", "boundary"} \/ (helper'.at = "report" /\ helper'.result = "failed")
  BY <1>1 DEF EnsureBaseline, Fails, Seal, OnlyHelper, Helpers, serving
<1>3. Moves
  BY <1>1, <1>2 DEF EnsureBaseline, Fails, Seal, OnlyHelper, Moves
<1>4. (CommitIsOpen /\ WriteIsDue)'
  BY <1>1, <1>2, <1>3, CalmMove DEF Moves, SavedInv, CommitIsOpen, WriteIsDue, Doing, serving,
     SettingsInv, KindOfWork, Restarting
<1> QED  BY <1>1, <1>3, <1>4, CalmMove, EmptyIsNew DEF SavedInv

LEMMA CommitFailsSaved == SettingsInv /\ SavedInv /\ CommitFails => SavedInv'
<1> SUFFICES ASSUME SettingsInv, SavedInv, CommitFails PROVE SavedInv'
  OBVIOUS
<1>1. helper.at = "write" /\ helper \in Helpers /\ Empty(helper) /\ serving \in Requests
      /\ (asked[serving].kind # "commit" => journal[serving].phase # "committing")
  BY CalmLemma DEF CommitFails, Doing, RecoveringStages
<1>2. /\ helper'.request = serving /\ helper'.held = helper.held
      /\ helper'.at = "undo" /\ helper'.todo = journal[serving].written
  BY <1>1 DEF CommitFails, Abort, OnlyHelper, Helpers, serving
<1>3. Moves
  BY <1>1, <1>2 DEF CommitFails, Abort, OnlyHelper, Moves
<1>4. (CommitIsOpen /\ WriteIsDue)'
  BY <1>1, <1>2, <1>3, CalmMove DEF Moves, SavedInv, CommitIsOpen, WriteIsDue, Doing, serving,
     SettingsInv, KindOfWork, Restarting
<1> QED  BY <1>1, <1>3, <1>4, CalmMove, EmptyIsNew DEF SavedInv

LEMMA BoundaryFailsSaved == SettingsInv /\ SavedInv /\ BoundaryFails => SavedInv'
<1> SUFFICES ASSUME SettingsInv, SavedInv, BoundaryFails PROVE SavedInv'
  OBVIOUS
<1>1. helper.at = "boundary" /\ helper \in Helpers /\ Empty(helper)
  BY CalmLemma DEF BoundaryFails, Doing, RecoveringStages
<1>2. helper'.held = helper.held /\ helper'.at = "report"
  BY <1>1 DEF BoundaryFails, Helpers
<1>3. Moves
  BY <1>1, <1>2 DEF BoundaryFails, OnlyStatus, Moves
<1>4. (CommitIsOpen /\ WriteIsDue)'
  BY <1>2 DEF CommitIsOpen, WriteIsDue, Doing
<1> QED  BY <1>1, <1>3, <1>4, CalmMove, EmptyIsNew DEF SavedInv

LEMMA CrossBoundarySaved == SettingsInv /\ SavedInv /\ CrossBoundary => SavedInv'
<1> SUFFICES ASSUME SettingsInv, SavedInv, CrossBoundary PROVE SavedInv'
  OBVIOUS
<1>1. helper.at = "boundary" /\ helper \in Helpers /\ Empty(helper)
  BY CalmLemma DEF CrossBoundary, Doing, RecoveringStages
<1>2. helper'.held = helper.held /\ helper'.at = "restart"
  BY <1>1 DEF CrossBoundary, Helpers
<1>3. Moves
  BY <1>1, <1>2 DEF CrossBoundary, OnlyStatus, Moves
<1>4. (CommitIsOpen /\ WriteIsDue)'
  BY <1>2 DEF CommitIsOpen, WriteIsDue, Doing
<1> QED  BY <1>1, <1>3, <1>4, CalmMove, EmptyIsNew DEF SavedInv

LEMMA RestartSaved == SettingsInv /\ SavedInv /\ Restart => SavedInv'
<1> SUFFICES ASSUME SettingsInv, SavedInv, Restart PROVE SavedInv'
  OBVIOUS
<1>1. helper.at = "restart" /\ helper \in Helpers /\ Empty(helper)
  BY CalmLemma DEF Restart, Doing, RecoveringStages
<1>2. helper'.held = helper.held /\ helper'.at = "prove"
  BY <1>1 DEF Restart, Helpers
<1>3. Moves
  BY <1>1, <1>2 DEF Restart, Moves
<1>4. (CommitIsOpen /\ WriteIsDue)'
  BY <1>2 DEF CommitIsOpen, WriteIsDue, Doing
<1> QED  BY <1>1, <1>3, <1>4, CalmMove, EmptyIsNew DEF SavedInv

LEMMA ProveSaved == SettingsInv /\ SavedInv /\ Prove => SavedInv'
<1> SUFFICES ASSUME SettingsInv, SavedInv, Prove PROVE SavedInv'
  OBVIOUS
<1>1. helper.at = "prove" /\ helper \in Helpers /\ Empty(helper)
  BY CalmLemma DEF Prove, Doing, RecoveringStages
<1>2. helper'.held = helper.held /\ helper'.at = "capture"
  BY <1>1 DEF Prove, Helpers
<1>3. Moves
  BY <1>1, <1>2 DEF Prove, Moves
<1>4. (CommitIsOpen /\ WriteIsDue)'
  BY <1>2 DEF CommitIsOpen, WriteIsDue, Doing
<1> QED  BY <1>1, <1>3, <1>4, CalmMove, EmptyIsNew DEF SavedInv

LEMMA StartRecoverySaved ==
  ASSUME SettingsInv, SavedInv, helper.at \in Restarting \ {"boundary"}, StartRecovery,
         UNCHANGED <<file, asked, place, journal, baseline, saved, lost, edited>>
  PROVE  SavedInv'
<1> DEFINE next == [helper EXCEPT !.at = "swap", !.todo = Sources, !.result = "failed"]
<1>1. helper.at \notin {"idle", "replace"} /\ helper \in Helpers /\ Empty(helper)
  BY CalmLemma DEF Doing, RecoveringStages, Restarting
<1>2. next \in Helpers /\ next.at = "swap" /\ next.held = helper.held
  <2>1. next \in Helpers
    BY <1>1, StageNames, HelperTypes, Zenon
  <2> QED  BY <1>1, <2>1 DEF Helpers
<1>3. helper'.held = helper.held /\ helper'.at = "swap"
  <2>1. Progress("recovering", next)
    BY DEF StartRecovery
  <2> HIDE DEF next
  <2> QED  BY <1>1, <1>2, <2>1, StageNames, ProgressLemma
<1>4. Moves
  BY <1>3 DEF Moves
<1>5. (CommitIsOpen /\ WriteIsDue)'
  BY <1>3 DEF CommitIsOpen, WriteIsDue, Doing
<1> QED  BY <1>1, <1>4, <1>5, CalmMove, EmptyIsNew DEF SavedInv

LEMMA RestartFailsSaved == SettingsInv /\ SavedInv /\ RestartFails => SavedInv'
BY StartRecoverySaved DEF RestartFails, Restarting

LEMMA ProveFailsSaved == SettingsInv /\ SavedInv /\ ProveFails => SavedInv'
BY StartRecoverySaved DEF ProveFails, OnlyStatus, Restarting

LEMMA CaptureSaved == SettingsInv /\ SavedInv /\ Capture => SavedInv'
<1> SUFFICES ASSUME SettingsInv, SavedInv, Capture PROVE SavedInv'
  OBVIOUS
<1>1. CASE StartRecovery /\ OnlyStatus
  BY <1>1, StartRecoverySaved DEF Capture, OnlyStatus, Restarting
<1>2. CASE ~(StartRecovery /\ OnlyStatus)
  <2>1. helper.at = "capture" /\ helper \in Helpers /\ Empty(helper)
    BY CalmLemma DEF Capture, Doing, RecoveringStages
  <2>2. helper'.held = helper.held /\ helper'.at = "receipt"
    BY <1>2, <2>1 DEF Capture, Helpers
  <2>3. Moves
    BY <1>2, <2>2 DEF Capture, Moves
  <2>4. (CommitIsOpen /\ WriteIsDue)'
    BY <2>2 DEF CommitIsOpen, WriteIsDue, Doing
  <2> QED  BY <2>1, <2>3, <2>4, CalmMove, EmptyIsNew DEF SavedInv
<1> QED  BY <1>1, <1>2

LEMMA RecordReceiptSaved == SettingsInv /\ SavedInv /\ RecordReceipt => SavedInv'
<1> SUFFICES ASSUME SettingsInv, SavedInv, RecordReceipt PROVE SavedInv'
  OBVIOUS
<1> DEFINE next == [helper EXCEPT !.at = "report"]
<1>1. CASE StartRecovery
  BY <1>1, StartRecoverySaved DEF RecordReceipt, OnlyStatus, Restarting
<1>2. CASE Progress("restarted", next)
  <2>1. helper.at = "receipt" /\ helper \in Helpers /\ Empty(helper)
    BY CalmLemma DEF RecordReceipt, Doing, RecoveringStages
  <2>2. next \in Helpers /\ next.at = "report" /\ next.held = helper.held
    <3>1. next \in Helpers
      BY <2>1, StageNames, HelperTypes, Zenon
    <3> QED  BY <2>1, <3>1 DEF Helpers
  <2>3. helper'.held = helper.held /\ helper'.at = "report"
    <3> HIDE DEF next
    <3> QED  BY <1>2, <2>1, <2>2, StageNames, ProgressLemma
  <2>4. Moves
    BY <2>3 DEF RecordReceipt, OnlyStatus, Moves
  <2>5. (CommitIsOpen /\ WriteIsDue)'
    BY <2>3 DEF CommitIsOpen, WriteIsDue, Doing
  <2> QED  BY <2>1, <2>4, <2>5, CalmMove, EmptyIsNew DEF SavedInv
<1> QED  BY <1>1, <1>2 DEF RecordReceipt

LEMMA ProcessSaved == SettingsInv /\ SavedInv /\ Process => SavedInv'
<1> SUFFICES ASSUME SettingsInv, SavedInv, Process PROVE SavedInv'
  OBVIOUS
<1>1. helper.at = "claim" /\ helper \in Helpers /\ Empty(helper) /\ serving \in Requests
      /\ (asked[serving].kind # "commit" => journal[serving].phase # "committing")
      /\ asked[serving].kind \in {"commit", "restart", "recover"}
  BY CalmLemma, ServingLemma DEF Process, Doing, RecoveringStages, Asked
<1>2. /\ helper'.request = serving /\ helper'.held = helper.held
      /\ helper'.at \in {"remove", "resume", "check", "swap", "report"}
      /\ helper'.at = "check" => asked[serving].kind = "restart"
  BY <1>1 DEF Process, GoTo, Helpers, serving
<1>3. Moves
  BY <1>2 DEF Process, GoTo, OnlyHelper, OnlyStatus, Moves
<1>4. (CommitIsOpen /\ WriteIsDue)'
  BY <1>1, <1>2, <1>3 DEF Moves, CommitIsOpen, WriteIsDue, Doing, serving
<1> QED  BY <1>1, <1>3, <1>4, CalmMove, EmptyIsNew DEF SavedInv

(* A recovery moves on with what it holds; nothing is aside any more when it *)
(* reports.                                                                  *)
LEMMA RecoveryMove ==
  ASSUME SettingsInv, SavedInv, Moves, baseline' = baseline, helper'.held = helper.held,
         helper.at \in {"swap", "rerun", "reprove"},
         \/ helper'.at \in {"rerun", "reprove"}
         \/ helper'.at = "unswap" /\ helper'.todo = Sources
         \/ helper'.at = "report" /\ baseline = Absent
  PROVE  (\A s \in Sources : SavedStands(s))' /\ JournalsTell' /\ EditsAreNew' /\ HeldIsNew'
<1>1. \A s \in Sources : AsideSteps(s)
  BY DEF AsideSteps, Aside, Doing, SavedInv, SavedStands
<1>2. HeldIsNew'
  BY DEF HeldIsNew, Doing, RecoveringStages
<1> QED  BY <1>1, <1>2, MoveStep

LEMMA RecoveryIsNoCommit ==
  ASSUME SettingsInv, SavedInv, helper.at # "idle", Doing(RecoveringStages)
  PROVE  helper \in Helpers /\ serving \in Requests /\ journal[serving].phase # "committing"
BY ServingLemma DEF SettingsInv, KindOfWork, SavedInv, JournalsTell

LEMMA NothingToRecoverSaved == SettingsInv /\ SavedInv /\ NothingToRecover => SavedInv'
<1> SUFFICES ASSUME SettingsInv, SavedInv, NothingToRecover PROVE SavedInv'
  OBVIOUS
<1>1. helper.at = "swap" /\ helper \in Helpers /\ baseline = Absent
  BY RecoveryIsNoCommit DEF NothingToRecover, Doing, RecoveringStages
<1>2. /\ helper'.held = helper.held /\ helper'.at = "report" /\ helper'.result = "failed"
      /\ Moves /\ baseline' = baseline
  BY <1>1 DEF NothingToRecover, Fails, OnlyHelper, Helpers, Moves
<1>3. (CommitIsOpen /\ WriteIsDue)'
  BY <1>2 DEF CommitIsOpen, WriteIsDue, Doing
<1> QED  BY <1>1, <1>2, <1>3, RecoveryMove DEF SavedInv

LEMMA SwappedSaved == SettingsInv /\ SavedInv /\ Swapped => SavedInv'
<1> SUFFICES ASSUME SettingsInv, SavedInv, Swapped PROVE SavedInv'
  OBVIOUS
<1>1. helper.at = "swap" /\ helper \in Helpers
  BY RecoveryIsNoCommit DEF Swapped, Doing, RecoveringStages
<1>2. /\ helper'.held = helper.held /\ Moves /\ baseline' = baseline
      /\ helper'.at = "rerun" \/ (helper'.at = "unswap" /\ helper'.todo = Sources)
  BY <1>1, ZenonT(60) DEF Swapped, Leave, OnlyHelper, Helpers, Moves
<1>3. (CommitIsOpen /\ WriteIsDue)'
  BY <1>2 DEF CommitIsOpen, WriteIsDue, Doing
<1> QED  BY <1>1, <1>2, <1>3, RecoveryMove DEF SavedInv

LEMMA RerunSaved == SettingsInv /\ SavedInv /\ Rerun => SavedInv'
<1> SUFFICES ASSUME SettingsInv, SavedInv, Rerun PROVE SavedInv'
  OBVIOUS
<1>1. helper.at = "rerun" /\ helper \in Helpers
  BY RecoveryIsNoCommit DEF Rerun, Doing, RecoveringStages
<1>2. /\ helper'.held = helper.held /\ Moves /\ baseline' = baseline
      /\ helper'.at = "reprove" \/ (helper'.at = "unswap" /\ helper'.todo = Sources)
  BY <1>1 DEF Rerun, MaybeDown, Leave, Helpers, Moves
<1>3. (CommitIsOpen /\ WriteIsDue)'
  BY <1>2 DEF CommitIsOpen, WriteIsDue, Doing
<1> QED  BY <1>1, <1>2, <1>3, RecoveryMove DEF SavedInv

LEMMA ReproveSaved == SettingsInv /\ SavedInv /\ Reprove => SavedInv'
<1> SUFFICES ASSUME SettingsInv, SavedInv, Reprove PROVE SavedInv'
  OBVIOUS
<1>1. helper.at = "reprove" /\ helper \in Helpers
  BY RecoveryIsNoCommit DEF Reprove, Doing, RecoveringStages
<1>2. /\ helper'.held = helper.held /\ Moves /\ baseline' = baseline
      /\ helper'.at = "unswap" /\ helper'.todo = Sources
  BY <1>1 DEF Reprove, Leave, OnlyHelper, Helpers, Moves
<1>3. (CommitIsOpen /\ WriteIsDue)'
  BY <1>2 DEF CommitIsOpen, WriteIsDue, Doing
<1> QED  BY <1>1, <1>2, <1>3, RecoveryMove DEF SavedInv

LEMMA UnswappedSaved == SettingsInv /\ SavedInv /\ Unswapped => SavedInv'
<1> SUFFICES ASSUME SettingsInv, SavedInv, Unswapped PROVE SavedInv'
  OBVIOUS
<1> DEFINE next == [helper EXCEPT !.at = "report",
                                  !.result = IF helper.recovered THEN @ ELSE "failed"]
           p == IF helper.recovered THEN "recovered" ELSE "recovery-failed"
<1>1. helper.at = "unswap" /\ helper \in Helpers /\ helper.todo = {}
  BY RecoveryIsNoCommit DEF Unswapped, Doing, RecoveringStages
<1>2. next.at = "report" /\ next.held = helper.held /\ next.told = helper.told
  BY <1>1 DEF Helpers
<1>3. helper' \in {next, [next EXCEPT !.told = p]}
  BY DEF Unswapped, RecoveryEnds, Progress
<1>4. helper'.held = helper.held /\ helper'.at = "report"
  BY <1>1, <1>3 DEF Helpers
<1>5. Moves
  BY <1>4 DEF Unswapped, OnlyStatus, Moves
<1>6. \A s \in Sources : AsideSteps(s)
  BY <1>1, <1>4 DEF AsideSteps, Aside, Doing
<1>7. (CommitIsOpen /\ WriteIsDue /\ HeldIsNew)'
  BY <1>4 DEF CommitIsOpen, WriteIsDue, HeldIsNew, Doing
<1> QED  BY <1>5, <1>6, <1>7, MoveStep DEF SavedInv

\* The record of a replacement that is about to be made.
LEMMA ReplacingFields ==
  ASSUME helper \in Helpers, NEW s, NEW v, NEW b
  PROVE  LET h == [Replacing(s, v, b) EXCEPT !.todo = @ \ {s}] IN
         /\ h.at = "replace" /\ h.held = helper.held /\ h.todo = helper.todo \ {s} /\ h.request = serving
         /\ h.write.source = s /\ h.write.bytes = v /\ h.write.was = file[s] /\ h.write.back = b
         /\ h.result = helper.result
BY DEF Helpers, Replacing, serving

LEMMA SwapSaved == ASSUME NEW s \in Sources, SettingsInv, SavedInv, Swap(s) PROVE SavedInv'
<1>1. /\ helper.at = "swap" /\ helper \in Helpers /\ baseline # Absent /\ s \in helper.todo
      /\ serving \in Requests /\ journal[serving].phase # "committing"
  BY RecoveryIsNoCommit DEF Swap, Foremost, Doing, RecoveringStages
<1>2. CASE helper' = Leave(FALSE)
  <2>1. /\ helper'.held = helper.held /\ Moves /\ baseline' = baseline
        /\ helper'.at = "unswap" /\ helper'.todo = Sources
    BY <1>1, <1>2 DEF Swap, Leave, OnlyHelper, Helpers, Moves
  <2>2. (CommitIsOpen /\ WriteIsDue)'
    BY <2>1 DEF CommitIsOpen, WriteIsDue, Doing
  <2> QED  BY <1>1, <2>1, <2>2, RecoveryMove DEF SavedInv
<1>3. CASE helper' = [Replacing(s, baseline[s], "swap") EXCEPT !.todo = @ \ {s}]
  <2>1. /\ helper'.at = "replace" /\ helper'.held = helper.held /\ helper'.todo = helper.todo \ {s}
        /\ helper'.write.source = s /\ helper'.write.bytes = baseline[s]
        /\ helper'.write.was = file[s] /\ helper'.write.back = "swap" /\ helper'.request = serving
    BY <1>1, <1>3, ReplacingFields
  <2>2. Moves /\ baseline' = baseline
    BY <2>1 DEF Swap, OnlyHelper, Moves
  <2>3. \A x \in Sources : AsideSteps(x)
    BY <1>1, <2>1, <2>2 DEF AsideSteps, Aside, Doing
  <2>4. helper.held[s] = Absent /\ Seen(file[s])
    BY <1>1 DEF SavedInv, HeldIsNew, EditsAreNew, Doing
  <2>5. (CommitIsOpen /\ WriteIsDue)'
    BY <1>1, <2>1, <2>2, <2>4 DEF CommitIsOpen, WriteIsDue, Doing, Moves, Seen
  <2>6. HeldIsNew'
    BY <1>1, <2>1 DEF SavedInv, HeldIsNew, Doing, RecoveringStages
  <2> QED  BY <2>2, <2>3, <2>5, <2>6, MoveStep DEF SavedInv
<1> QED  BY <1>2, <1>3 DEF Swap

LEMMA UnswapSaved == ASSUME NEW s \in Sources, SettingsInv, SavedInv, Unswap(s) PROVE SavedInv'
<1>1. /\ helper.at = "unswap" /\ helper \in Helpers /\ s \in helper.todo
      /\ serving \in Requests /\ journal[serving].phase # "committing"
  BY RecoveryIsNoCommit DEF Unswap, Hindmost, Doing, RecoveringStages
<1>2. Aside(s) <=> helper.held[s] # Absent
  BY <1>1 DEF Aside, Doing
<1>3. SavedStands(s)
  BY DEF SavedInv
<1>4. CASE helper.held[s] = Absent /\ helper' = [helper EXCEPT !.todo = @ \ {s}]
  <2>1. /\ helper'.at = "unswap" /\ helper'.held = helper.held /\ helper'.todo = helper.todo \ {s}
        /\ helper'.request = serving /\ Moves /\ baseline' = baseline
    BY <1>1, <1>4 DEF Unswap, OnlyHelper, Helpers, Moves, serving
  <2>2. \A x \in Sources : AsideSteps(x)
    BY <1>1, <1>2, <1>4, <2>1 DEF AsideSteps, Aside, Doing
  <2>3. (CommitIsOpen /\ WriteIsDue /\ HeldIsNew)'
    BY <2>1 DEF CommitIsOpen, WriteIsDue, HeldIsNew, Doing, RecoveringStages
  <2> QED  BY <2>1, <2>2, <2>3, MoveStep DEF SavedInv
<1>5. CASE /\ helper.held[s] # Absent /\ file[s] = baseline[s]
           /\ helper' = [Replacing(s, helper.held[s], "unswap") EXCEPT !.todo = @ \ {s}]
  <2>1. /\ helper'.at = "replace" /\ helper'.held = helper.held /\ helper'.todo = helper.todo \ {s}
        /\ helper'.write.source = s /\ helper'.write.bytes = helper.held[s]
        /\ helper'.write.was = file[s] /\ helper'.write.back = "unswap"
        /\ helper'.request = serving
    BY <1>1, <1>5, ReplacingFields
  <2>2. Moves /\ baseline' = baseline
    BY <2>1 DEF Unswap, OnlyHelper, Moves
  <2>3. \A x \in Sources : AsideSteps(x)
    BY <1>1, <2>1, <2>2 DEF AsideSteps, Aside, Doing
  <2>4. (CommitIsOpen /\ WriteIsDue /\ HeldIsNew)'
    BY <1>2, <1>3, <1>5, <2>1, <2>2
       DEF CommitIsOpen, WriteIsDue, HeldIsNew, Doing, RecoveringStages, SavedStands
  <2> QED  BY <2>2, <2>3, <2>4, MoveStep DEF SavedInv
<1>6. CASE /\ helper.held[s] # Absent /\ file[s] # baseline[s]
           /\ helper' = [helper EXCEPT !.todo = @ \ {s}, !.held[s] = Absent, !.recovered = FALSE]
  <2>1. /\ helper'.at = "unswap" /\ helper'.todo = helper.todo \ {s} /\ helper'.request = serving
        /\ helper'.held = [helper.held EXCEPT ![s] = Absent] /\ baseline' = baseline
    BY <1>1, <1>6 DEF Unswap, OnlyHelper, Helpers, serving
  <2>2. \A x \in Sources : helper'.held[x] = IF x = s THEN Absent ELSE helper.held[x]
    BY <1>1, <2>1 DEF Helpers
  <2>3. Moves
    BY <2>2 DEF Unswap, OnlyHelper, Moves
  <2>4. Kept(s, file[s])
    BY <1>2, <1>3, <1>6 DEF SavedStands
  <2>5. \A x \in Sources : AsideSteps(x)
    BY <1>1, <1>2, <1>6, <2>1, <2>2, <2>4 DEF AsideSteps, Aside, Doing
  <2>6. (CommitIsOpen /\ WriteIsDue /\ HeldIsNew)'
    BY <2>1 DEF CommitIsOpen, WriteIsDue, HeldIsNew, Doing, RecoveringStages
  <2> QED  BY <2>3, <2>5, <2>6, MoveStep DEF SavedInv
<1> QED  BY <1>4, <1>5, <1>6 DEF Unswap

\* While a commit is at work the helper holds nothing.
LEMMA CommitLemma ==
  ASSUME SettingsInv, SavedInv, Doing({"write", "undo"})
  PROVE  /\ helper \in Helpers /\ Empty(helper) /\ serving \in Requests /\ serving \in claimed
         /\ asked[serving].kind = "commit"
         /\ helper.todo \subseteq Sources /\ journal[serving].written \subseteq Sources
         /\ journal[serving].phase = "committing" \/ journal[serving].written = {}
<1>1. helper.at \in {"write", "undo", "replace"} /\ ~Doing(RecoveringStages)
  BY DEF Doing, RecoveringStages
<1>2. helper \in Helpers /\ Empty(helper) /\ serving \in Requests /\ serving \in claimed
      /\ journal[serving].written \subseteq Sources
  BY <1>1, CalmLemma, ServingLemma
<1>3. asked[serving].kind = "commit"
  BY <1>1 DEF SettingsInv, KindOfWork, Doing, Committing
<1> QED  BY <1>2, <1>3 DEF Helpers, SavedInv, CommitIsOpen

\* What a commit has written is either its own or kept in another place.
LEMMA WrittenStands ==
  ASSUME SettingsInv, SavedInv, Doing({"write", "undo"}), NEW s \in Sources
  PROVE  /\ ~Aside(s)
         /\ \A r \in Requests : Rewritten(r, s) <=> r = serving /\ s \in journal[serving].written
         /\ s \in journal[serving].written => Kept(s, IF file[s] = serving THEN want[s] ELSE file[s])
         /\ s \notin journal[serving].written => Kept(s, file[s])
<1>1. /\ serving \in Requests /\ serving \in claimed /\ Empty(helper) /\ helper.at # "idle"
      /\ journal[serving].phase = "committing" \/ journal[serving].written = {}
  BY CommitLemma DEF Doing
<1>2. ~Aside(s)
  BY <1>1 DEF Aside, Empty
<1>3. \A r \in Requests : Rewritten(r, s) <=> r = serving /\ s \in journal[serving].written
  BY <1>1, ServedAlone DEF Rewritten
<1>4. SavedStands(s)
  BY DEF SavedInv
<1> QED  BY <1>1, <1>2, <1>3, <1>4 DEF SavedStands, want

LEMMA KeptStays ==
  ASSUME NEW s \in Sources, Lasting, file'[s] = file[s], saved'[s] = saved[s],
         s \in lost => s \in lost'
  PROVE  Kept(s, file[s]) => Kept(s, file[s])'
BY PartialStays DEF Kept

LEMMA UndoSaved == ASSUME NEW s \in Sources, SettingsInv, SavedInv, Undo(s) PROVE SavedInv'
<1>1. /\ helper.at = "undo" /\ helper \in Helpers /\ Empty(helper) /\ s \in helper.todo
      /\ serving \in Requests /\ helper.todo \subseteq journal[serving].written
      /\ journal[serving].written \subseteq Sources
      /\ journal[serving].phase = "committing"
      /\ \A x \in journal[serving].written \ helper.todo : Kept(x, file[x])
  BY CommitLemma DEF Undo, Hindmost, Doing, SavedInv, CommitIsOpen
<1>2. Kept(s, IF file[s] = serving THEN want[s] ELSE file[s])
  BY <1>1, WrittenStands DEF Doing
<1>3. CASE file[s] = want[s] /\ helper' = [helper EXCEPT !.todo = @ \ {s}]
  <2>1. /\ helper'.at = "undo" /\ helper'.held = helper.held /\ helper'.todo = helper.todo \ {s}
        /\ helper'.request = serving /\ Moves
    BY <1>1, <1>3 DEF Undo, OnlyHelper, Helpers, Moves, serving
  <2>2. \A x \in Sources : Kept(x, file[x]) => Kept(x, file[x])'
    BY <2>1, KeptStays DEF Moves, Lasting
  <2>3. \A x \in journal[serving].written \ helper'.todo : Kept(x, file[x])'
    BY <1>1, <1>2, <1>3, <2>1, <2>2
  <2>4. (CommitIsOpen /\ WriteIsDue)'
    BY <1>1, <2>1, <2>3 DEF CommitIsOpen, WriteIsDue, Doing, Moves, serving
  <2> QED  BY <1>1, <2>1, <2>4, CalmMove, EmptyIsNew DEF SavedInv
<1>4. CASE file[s] = serving /\ helper' = [Replacing(s, want[s], "undo") EXCEPT !.todo = @ \ {s}]
  <2>1. /\ helper'.at = "replace" /\ helper'.held = helper.held /\ helper'.todo = helper.todo \ {s}
        /\ helper'.request = serving /\ helper'.write.source = s /\ helper'.write.bytes = want[s]
        /\ helper'.write.was = serving /\ helper'.write.back = "undo"
    BY <1>1, <1>4, ReplacingFields
  <2>2. Moves
    BY <2>1 DEF Undo, OnlyHelper, Moves
  <2>3. \A x \in Sources : Kept(x, file[x]) => Kept(x, file[x])'
    BY <2>2, KeptStays DEF Moves, Lasting
  <2>4. \A x \in journal[serving].written \ helper'.todo : x = s \/ Kept(x, file[x])'
    BY <1>1, <2>1, <2>3
  <2>5. (CommitIsOpen /\ WriteIsDue)'
    BY <1>1, <2>1, <2>2, <2>4 DEF CommitIsOpen, WriteIsDue, Doing, Moves, serving, want
  <2> QED  BY <1>1, <2>2, <2>5, CalmMove, EmptyIsNew DEF SavedInv
<1>5. CASE helper' = [helper EXCEPT !.at = "report", !.result = "failed"]
  <2>1. /\ helper'.at = "report" /\ helper'.held = helper.held /\ helper'.result = "failed" /\ Moves
    BY <1>1, <1>5 DEF Undo, OnlyHelper, Helpers, Moves
  <2>2. (CommitIsOpen /\ WriteIsDue)'
    BY <2>1 DEF CommitIsOpen, WriteIsDue, Doing
  <2> QED  BY <1>1, <2>1, <2>2, CalmMove, EmptyIsNew DEF SavedInv
<1> QED  BY <1>3, <1>4, <1>5 DEF Undo

(* --------------------- the journal of the commit ------------------------- *)

LEMMA JournalLemma ==
  ASSUME SettingsInv, helper.at # "idle", NEW p, NEW x, SetJournal(p, x)
  PROVE  /\ journal'[serving].phase = p /\ journal'[serving].written = x
         /\ \A r \in Requests \ {serving} : journal'[r] = journal[r]
BY ServingLemma DEF SetJournal

(* A journal is opened or put back: what it names no more is kept where it   *)
(* is.                                                                       *)
LEMMA ClosedStep ==
  ASSUME SettingsInv, SavedInv, Empty(helper), helper.at \notin {"idle", "claim", "remove"},
         helper'.held = helper.held,
         UNCHANGED <<file, saved, lost, asked, place, status, baseline, edited>>,
         NEW p \in {"prepared", "rolled-back"}, NEW x \in SUBSET journal[serving].written,
         SetJournal(p, x), asked[serving].kind = "commit",
         \A s \in Sources : Rewritten(serving, s) => Kept(s, file[s])
  PROVE  /\ (\A s \in Sources : SavedStands(s))' /\ JournalsTell' /\ EditsAreNew' /\ HeldIsNew'
         /\ Lasting
<1>1. /\ journal'[serving].phase = p /\ journal'[serving].written = x
      /\ \A r \in Requests \ {serving} : journal'[r] = journal[r]
  BY JournalLemma
<1>2. serving \in claimed /\ serving \in Requests
  BY ServingLemma
<1>3. Lasting
  BY <1>1, <1>2 DEF Lasting, claimed
<1>4. ASSUME NEW s \in Sources PROVE SavedStands(s)'
  <2>1. ~Aside(s) /\ ~Aside(s)'
    BY DEF Empty, Aside
  <2>2. \A r \in Requests : ~Rewritten(r, s)'
    BY <1>1, <1>2, ServedAlone DEF Rewritten, claimed
  <2>3. \A r \in Requests : Rewritten(r, s) => r = serving
    BY ServedAlone DEF Rewritten
  <2>4. Kept(s, file[s])
    BY <2>1, <2>3 DEF SavedInv, SavedStands
  <2> QED  BY <1>3, <2>1, <2>2, <2>4, KeptStays DEF SavedStands
<1>5. JournalsTell'
  BY <1>1, <1>2 DEF SavedInv, JournalsTell, claimed
<1>6. EditsAreNew'
  BY DEF SavedInv, EditsAreNew, Seen
<1>7. HeldIsNew'
  BY DEF Empty, HeldIsNew
<1> QED  BY <1>3, <1>4, <1>5, <1>6, <1>7

LEMMA PrepareSaved == SettingsInv /\ SavedInv /\ Prepare => SavedInv'
<1> SUFFICES ASSUME SettingsInv, SavedInv, Prepare PROVE SavedInv'
  OBVIOUS
<1>1. /\ helper.at = "prepare" /\ helper \in Helpers /\ Empty(helper) /\ serving \in Requests
      /\ asked[serving].kind = "commit" /\ journal[serving].phase # "committing"
  BY CalmLemma DEF Prepare, Doing, RecoveringStages, Committing, SettingsInv, KindOfWork, SavedInv,
     CommitIsOpen
<1>2. /\ helper'.at = "write" /\ helper'.held = helper.held /\ helper'.request = serving
      /\ helper'.todo = asked[serving].touched
  BY <1>1 DEF Prepare, Helpers, serving
<1>3. /\ UNCHANGED <<file, saved, lost, asked, place, status, baseline, edited>>
      /\ SetJournal("prepared", {})
      /\ \A s \in Sources : ~Rewritten(serving, s)
  BY <1>1 DEF Prepare, OnlyJournal, Rewritten
<1>4. journal'[serving].phase = "prepared" /\ journal'[serving].written = {}
  BY <1>1, <1>3, JournalLemma
<1>5. (CommitIsOpen /\ WriteIsDue)'
  BY <1>2, <1>3, <1>4 DEF CommitIsOpen, WriteIsDue, Doing, serving
<1> QED  BY <1>1, <1>2, <1>3, <1>5, ClosedStep DEF SavedInv

LEMMA UndoneSaved == SettingsInv /\ SavedInv /\ Undone => SavedInv'
<1> SUFFICES ASSUME SettingsInv, SavedInv, Undone PROVE SavedInv'
  OBVIOUS
<1>1. /\ helper.at = "undo" /\ helper \in Helpers /\ Empty(helper) /\ serving \in Requests
      /\ asked[serving].kind = "commit" /\ helper.todo = {}
      /\ \A x \in journal[serving].written : Kept(x, file[x])
  BY CommitLemma DEF Undone, Doing, SavedInv, CommitIsOpen
<1>2. /\ helper'.at \in {"report", "check"} /\ helper'.held = helper.held
      /\ helper'.request = serving
  BY <1>1 DEF Undone, Helpers, serving
<1>3. /\ UNCHANGED <<file, saved, lost, asked, place, status, baseline, edited>>
      /\ SetJournal("rolled-back", journal[serving].written)
      /\ \A s \in Sources : Rewritten(serving, s) => Kept(s, file[s])
  BY <1>1 DEF Undone, OnlyJournal, Rewritten
<1>4. journal'[serving].phase = "rolled-back"
  BY <1>1, <1>3, JournalLemma
<1>5. (CommitIsOpen /\ WriteIsDue)'
  BY <1>2, <1>4 DEF CommitIsOpen, WriteIsDue, Doing, serving
<1> QED  BY <1>1, <1>2, <1>3, <1>5, ClosedStep DEF SavedInv

LEMMA ResumeSaved == SettingsInv /\ SavedInv /\ Resume => SavedInv'
<1> SUFFICES ASSUME SettingsInv, SavedInv, Resume PROVE SavedInv'
  OBVIOUS
<1>1. /\ helper.at = "resume" /\ helper \in Helpers /\ Empty(helper) /\ serving \in Requests
      /\ asked[serving].kind = "commit"
  BY CalmLemma DEF Resume, Doing, RecoveringStages, Committing, SettingsInv, KindOfWork
<1>2. CASE journal[serving].phase = "prepared"
  <2>1. /\ helper'.at = "check" /\ helper'.held = helper.held /\ helper'.request = serving
    BY <1>1, <1>2 DEF Resume, Helpers, serving
  <2>2. /\ UNCHANGED <<file, saved, lost, asked, place, status, baseline, edited>>
        /\ SetJournal("rolled-back", {})
        /\ \A s \in Sources : ~Rewritten(serving, s)
    BY <1>1, <1>2 DEF Resume, OnlyJournal, Rewritten
  <2>3. journal'[serving].phase = "rolled-back"
    BY <1>1, <2>2, JournalLemma
  <2>4. (CommitIsOpen /\ WriteIsDue)'
    BY <2>1, <2>3 DEF CommitIsOpen, WriteIsDue, Doing, serving
  <2> QED  BY <1>1, <2>1, <2>2, <2>4, ClosedStep DEF SavedInv
<1>3. CASE journal[serving].phase # "prepared"
  <2>1. /\ helper'.held = helper.held /\ helper'.request = serving
        /\ \/ helper'.at \in {"report", "check"} /\ journal[serving].phase # "committing"
           \/ /\ helper'.at = "undo" /\ journal[serving].phase = "committing"
              /\ helper'.todo = journal[serving].written
    BY <1>1, <1>3 DEF Resume, GoTo, Helpers, serving
  <2>2. Moves
    BY <1>1, <1>3, <2>1 DEF Resume, GoTo, OnlyHelper, Moves
  <2>3. (CommitIsOpen /\ WriteIsDue)'
    BY <1>1, <2>1, <2>2 DEF CommitIsOpen, WriteIsDue, Doing, Moves, serving
  <2> QED  BY <1>1, <2>2, <2>3, CalmMove, EmptyIsNew DEF SavedInv
<1> QED  BY <1>2, <1>3

LEMMA WriteSourceSaved ==
  ASSUME NEW s \in Sources, SettingsInv, SavedInv, WriteSource(s) PROVE SavedInv'
<1>1. /\ helper.at = "write" /\ helper \in Helpers /\ Empty(helper) /\ s \in helper.todo
      /\ serving \in Requests /\ serving \in claimed
      /\ asked[serving].kind = "commit" /\ helper.todo \subseteq asked[serving].touched
      /\ journal[serving].phase = "committing" \/ journal[serving].written = {}
      /\ journal[serving].written \subseteq asked[serving].touched
  BY CommitLemma DEF WriteSource, Foremost, Doing, SavedInv, CommitIsOpen, JournalsTell
<1>2. CASE file[s] # want[s]
  <2>1. /\ helper'.at = "undo" /\ helper'.held = helper.held /\ helper'.request = serving
        /\ helper'.todo = journal[serving].written /\ Moves
    BY <1>1, <1>2 DEF WriteSource, Abort, OnlyHelper, Helpers, Moves, serving
  <2>2. (CommitIsOpen /\ WriteIsDue)'
    BY <1>1, <2>1 DEF SavedInv, CommitIsOpen, WriteIsDue, Doing, Moves, serving
  <2> QED  BY <1>1, <2>1, <2>2, CalmMove, EmptyIsNew DEF SavedInv
<1>3. CASE file[s] = want[s]
  <2>1. /\ helper' = [Replacing(s, serving, "write") EXCEPT !.todo = @ \ {s}]
        /\ SetJournal("committing", journal[serving].written \union {s})
        /\ UNCHANGED <<file, asked, place, status, rac, baseline, saved, proved, lost, edited>>
    BY <1>3 DEF WriteSource, OnlyJournal
  <2>2. /\ helper'.at = "replace" /\ helper'.held = helper.held /\ helper'.todo = helper.todo \ {s}
        /\ helper'.request = serving /\ helper'.write.source = s /\ helper'.write.bytes = serving
        /\ helper'.write.was = file[s] /\ helper'.write.back = "write"
    BY <1>1, <2>1, ReplacingFields
  <2>3. /\ journal'[serving].phase = "committing"
        /\ journal'[serving].written = journal[serving].written \union {s}
        /\ \A r \in Requests \ {serving} : journal'[r] = journal[r]
    BY <1>1, <2>1, JournalLemma
  <2>4. Lasting
    BY <1>1, <2>1, <2>3 DEF Lasting, claimed
  <2>5. ASSUME NEW x \in Sources PROVE SavedStands(x)'
    <3>1. ~Aside(x) /\ ~Aside(x)'
      BY <1>1, <2>2 DEF Empty, Aside
    <3>2. \A r \in Requests : Rewritten(r, x)' <=> r = serving /\ x \in journal[serving].written \union {s}
      BY <1>1, <2>1, <2>3, ServedAlone DEF Rewritten, claimed
    <3>3. Kept(x, file[x]) => Kept(x, file[x])'
      BY <2>1, <2>4, KeptStays
    <3>4. CASE x \in journal[serving].written \union {s}
      <4>1. Kept(x, IF file[x] = serving THEN want[x] ELSE file[x])
        BY <1>1, <1>3, <3>4, WrittenStands DEF Doing
      <4>2. Kept(x, IF file[x] = serving THEN want[x] ELSE file[x])'
        BY <2>1, <2>2, <2>4, <4>1, PartialStays DEF Kept, want, serving
      <4> QED  BY <3>1, <3>2, <3>4, <4>2, <2>1, <2>2, <1>1 DEF SavedStands, want, serving
    <3>5. CASE x \notin journal[serving].written \union {s}
      <4>1. Kept(x, file[x])
        BY <1>1, <3>5, WrittenStands DEF Doing
      <4> QED  BY <3>1, <3>2, <3>3, <3>5, <4>1 DEF SavedStands
    <3> QED  BY <3>4, <3>5
  <2>6. JournalsTell'
    BY <1>1, <2>1, <2>3 DEF SavedInv, JournalsTell, claimed
  <2>7. EditsAreNew'
    BY <2>1, <2>2 DEF SavedInv, EditsAreNew, Seen
  <2>8. (CommitIsOpen /\ WriteIsDue /\ HeldIsNew)'
    BY <1>1, <1>3, <2>1, <2>2, <2>3, EmptyIsNew
       DEF CommitIsOpen, WriteIsDue, Doing, serving, want, Empty
  <2> QED  BY <2>5, <2>6, <2>7, <2>8 DEF SavedInv
<1> QED  BY <1>2, <1>3

(* A complete commit has put its bytes into the files it names, but for      *)
(* those somebody edited since.                                              *)
LEMMA CompleteSaved == SettingsInv /\ SavedInv /\ Complete => SavedInv'
<1> SUFFICES ASSUME SettingsInv, SavedInv, Complete PROVE SavedInv'
  OBVIOUS
<1>1. /\ helper.at = "write" /\ helper \in Helpers /\ Empty(helper)
      /\ serving \in Requests /\ serving \in claimed
      /\ asked[serving].kind = "commit"
      /\ journal[serving].written \subseteq asked[serving].touched
      /\ place[serving] = "claimed"
  BY CommitLemma DEF Complete, Doing, SavedInv, CommitIsOpen, JournalsTell, claimed
<1>2. helper'.at = "report" /\ helper'.held = helper.held /\ helper'.request = serving
  BY <1>1 DEF Complete, Helpers, serving
<1>3. /\ journal'[serving].phase = "complete"
      /\ journal'[serving].written = journal[serving].written
      /\ \A r \in Requests \ {serving} : journal'[r] = journal[r]
  BY <1>1, JournalLemma DEF Complete
<1>4. Lasting
  BY <1>1, <1>3 DEF Lasting, Complete, claimed
<1>5. ASSUME NEW s \in Sources PROVE SavedStands(s)'
  <2>1. ~Aside(s) /\ ~Aside(s)'
    BY <1>1, <1>2 DEF Empty, Aside
  <2>2. \A r \in Requests : ~Rewritten(r, s)'
    BY <1>1, <1>3, ServedAlone DEF Rewritten, claimed, Complete
  <2>3. CASE s \in asked[serving].touched /\ file[s] = serving
    BY <1>1, <2>1, <2>2, <2>3 DEF SavedStands, Complete, Kept
  <2>4. CASE ~(s \in asked[serving].touched /\ file[s] = serving)
    <3>1. Kept(s, file[s])
      BY <1>1, <2>4, WrittenStands DEF Doing
    <3>2. saved'[s] = saved[s] /\ (s \in lost => s \in lost') /\ file' = file
      BY <1>1, <2>4 DEF Complete
    <3> QED  BY <1>4, <2>1, <2>2, <3>1, <3>2, KeptStays DEF SavedStands
  <2> QED  BY <2>3, <2>4
<1>6. JournalsTell'
  BY <1>1, <1>3 DEF SavedInv, JournalsTell, Complete
<1>7. EditsAreNew'
  BY <1>2 DEF SavedInv, EditsAreNew, Seen, Complete
<1>8. (CommitIsOpen /\ WriteIsDue /\ HeldIsNew)'
  BY <1>1, <1>2, <1>3, EmptyIsNew DEF CommitIsOpen, WriteIsDue, Doing, serving, Empty
<1> QED  BY <1>5, <1>6, <1>7, <1>8 DEF SavedInv

(* ------------------------- the replacement ------------------------------- *)

LEMMA ReplaceSaved == SettingsInv /\ SavedInv /\ Replace => SavedInv'
<1> SUFFICES ASSUME SettingsInv, SavedInv, Replace PROVE SavedInv'
  OBVIOUS
<1> DEFINE w == helper.write
           v == IF w.back = "swap" THEN w.was ELSE Absent
<1>1. /\ helper.at = "replace" /\ file' = [file EXCEPT ![w.source] = w.bytes]
      /\ helper' = [helper EXCEPT !.at = w.back, !.write = NoWrite, !.held[w.source] = v]
      /\ UNCHANGED <<asked, place, status, journal, baseline, saved, edited>>
      /\ lost' = IF file[w.source] # w.was THEN lost \union {w.source} ELSE lost
  BY DEF Replace
<1>2. /\ helper \in Helpers /\ file \in Graphs /\ serving \in Requests /\ w.source \in Sources
      /\ w.back \in {"write", "undo", "swap", "unswap"} /\ w.was \in Contents
  BY <1>1, ReplacingLemma
<1>3. /\ helper'.at = w.back /\ helper'.request = serving /\ helper'.todo = helper.todo
      /\ \A s \in Sources : helper'.held[s] = IF s = w.source THEN v ELSE helper.held[s]
      /\ \A s \in Sources : file'[s] = IF s = w.source THEN w.bytes ELSE file[s]
      /\ helper'.result = helper.result
  <2> HIDE DEF w, v
  <2> QED  BY <1>1, <1>2 DEF Helpers, serving, Graphs
<1>4. Lasting
  BY <1>1 DEF Lasting
<1>5. w.was # Absent
  BY <1>2, SettingsAssumption
<1>6. WriteIsDue /\ CommitIsOpen /\ HeldIsNew /\ JournalsTell /\ EditsAreNew
  BY DEF SavedInv
<1>7. \A s \in Sources : \A r \in Requests : Rewritten(r, s)' <=> Rewritten(r, s)
  BY <1>1 DEF Rewritten, claimed
<1>8. JournalsTell'
  BY <1>1, <1>6 DEF JournalsTell
<1>9. /\ w.back = "write" => w.was = want[w.source] /\ w.bytes = serving
      /\ w.back = "undo" => w.was = serving /\ w.bytes = want[w.source]
      /\ w.back \in {"write", "undo"} =>
           w.source \in journal[serving].written /\ journal[serving].phase = "committing"
      /\ w.back = "swap" => /\ baseline # Absent /\ w.bytes = baseline[w.source]
                            /\ helper.held[w.source] = Absent /\ Seen(w.was)
                            /\ w.source \notin helper.todo
      /\ w.back = "unswap" => /\ baseline # Absent /\ w.was = baseline[w.source]
                              /\ w.bytes = helper.held[w.source]
  BY <1>1, <1>6 DEF WriteIsDue
<1>10. Seen(w.bytes) /\ Seen(v)
  <2>1. place[serving] # "none"
    BY <1>1, ServingLemma DEF claimed
  <2> QED  BY <1>2, <1>6, <1>9, <2>1, AbsentIsSeen DEF EditsAreNew, want
<1>11. EditsAreNew'
  <2> HIDE DEF w, v
  <2> QED  BY <1>1, <1>3, <1>6, <1>10 DEF EditsAreNew, Seen
<1>12. WriteIsDue'
  BY <1>2, <1>3 DEF WriteIsDue
<1>13. HeldIsNew'
  BY <1>1, <1>2, <1>3, <1>6, <1>9 DEF HeldIsNew, Doing, RecoveringStages
<1>14. ASSUME NEW s \in Sources, s # w.source PROVE SavedStands(s)'
  <2>1. AsideSteps(s)
    BY <1>1, <1>2, <1>3, <1>14 DEF AsideSteps, Aside, Doing
  <2>2. Partial(s) => Partial(s)'
    BY <1>4, PartialStays
  <2> QED  BY <1>1, <1>3, <1>7, <1>14, <2>1, <2>2, StandsStep DEF SavedInv
<1>0. PICK src \in Sources : src = w.source
  BY <1>2
<1> DEFINE u == IF w.back = "write" THEN want[src]
                ELSE IF w.back = "swap" THEN w.was ELSE w.bytes
<1>15. Rewritten(serving, src) <=> w.back \in {"write", "undo"}
  <2>1. CASE w.back \in {"write", "undo"}
    BY <1>0, <1>1, <1>9, <2>1, ServingLemma DEF Rewritten
  <2>2. CASE w.back \in {"swap", "unswap"}
    BY <1>0, <1>1, <2>2, RecoveryIsNoCommit DEF Rewritten, Doing, RecoveringStages
  <2> QED  BY <1>0, <1>2, <2>1, <2>2
<1>16. \A r \in Requests : Rewritten(r, src) => r = serving
  BY <1>0, <1>1, ServedAlone DEF Rewritten
<1>17. Aside(src) <=> w.back = "unswap"
  <2>1. CASE w.back = "unswap"
    BY <1>0, <1>1, <1>2, <1>9, <2>1, ReplacingLemma, SettingsAssumption DEF Aside
  <2>2. CASE w.back = "swap"
    BY <1>0, <1>9, <2>2 DEF Aside
  <2>3. CASE w.back \in {"write", "undo"}
    BY <1>0, <1>1, <1>2, <2>3 DEF Aside, Doing
  <2> QED  BY <1>0, <1>2, <2>1, <2>2, <2>3
<1>18. src \in lost' \/ Kept(src, u)
  <2> SUFFICES ASSUME file[src] = w.was PROVE Kept(src, u)
    BY <1>0, <1>1, <1>2
  <2>1. SavedStands(src)
    BY <1>0, <1>2 DEF SavedInv
  <2>2. CASE w.back \in {"write", "undo"}
    <3>1. Kept(src, IF file[src] = serving THEN want[src] ELSE file[src])
      BY <1>0, <1>2, <1>15, <2>1, <2>2 DEF SavedStands, want
    <3> QED  BY <1>0, <1>9, <2>2, <3>1
  <2>3. CASE w.back = "swap"
    <3>1. Kept(src, file[src])
      BY <1>0, <1>15, <1>16, <1>17, <2>1, <2>3 DEF SavedStands
    <3> QED  BY <2>3, <3>1
  <2>4. CASE w.back = "unswap"
    <3>1. Kept(src, helper.held[src])
      BY <1>0, <1>9, <1>17, <2>1, <2>4 DEF SavedStands
    <3> QED  BY <1>0, <1>9, <2>4, <3>1
  <2> QED  BY <1>0, <1>2, <2>2, <2>3, <2>4
<1>19. u = saved'[src] \/ src \in lost' \/ Partial(src)'
  BY <1>0, <1>1, <1>2, <1>4, <1>18, PartialStays DEF Kept
<1>20. SavedStands(src)'
  <2>1. Aside(src)' <=> w.back = "swap"
    BY <1>0, <1>2, <1>3, <1>5 DEF Aside, Doing
  <2>2. CASE w.back \in {"write", "undo"}
    BY <1>0, <1>1, <1>2, <1>3, <1>7, <1>9, <1>15, <1>16, <1>19, <2>1, <2>2 DEF SavedStands, Kept, want
  <2>3. CASE w.back = "swap"
    BY <1>0, <1>1, <1>2, <1>3, <1>7, <1>9, <1>15, <1>16, <1>19, <2>1, <2>3 DEF SavedStands, Kept
  <2>4. CASE w.back = "unswap"
    BY <1>0, <1>1, <1>2, <1>3, <1>7, <1>9, <1>15, <1>16, <1>19, <2>1, <2>4 DEF SavedStands, Kept
  <2> QED  BY <1>0, <1>2, <2>2, <2>3, <2>4
<1>21. CommitIsOpen'
  <2>1. CASE w.back \in {"swap", "unswap"}
    BY <1>0, <1>3, <2>1 DEF CommitIsOpen, Doing
  <2>2. CASE w.back = "write"
    BY <1>0, <1>1, <1>3, <1>6, <1>9, <2>2 DEF CommitIsOpen, Doing, serving
  <2>3. CASE w.back = "undo"
    <3>1. /\ journal[serving].written \subseteq Sources
          /\ helper.todo \subseteq journal[serving].written
          /\ \A x \in journal[serving].written \ helper.todo : x = src \/ Kept(x, file[x])
      BY <1>0, <1>1, <1>6, <2>3, ReplacingLemma DEF CommitIsOpen, Doing
    <3>2. Kept(src, file[src])'
      BY <1>0, <1>1, <1>2, <1>3, <1>19, <2>3 DEF Kept
    <3>3. ASSUME NEW x \in Sources, x # src, Kept(x, file[x]) PROVE Kept(x, file[x])'
      BY <1>0, <1>1, <1>3, <1>4, <3>3, KeptStays
    <3>4. \A x \in journal[serving].written \ helper.todo : Kept(x, file[x])'
      BY <3>1, <3>2, <3>3
    <3> QED  BY <1>0, <1>1, <1>3, <1>9, <2>3, <3>1, <3>4 DEF CommitIsOpen, Doing, serving
  <2> QED  BY <1>0, <1>2, <2>1, <2>2, <2>3
<1> QED  BY <1>0, <1>8, <1>11, <1>12, <1>13, <1>14, <1>20, <1>21 DEF SavedInv

LEMMA ReplaceFailsSaved == SettingsInv /\ SavedInv /\ ReplaceFails => SavedInv'
<1> SUFFICES ASSUME SettingsInv, SavedInv, ReplaceFails PROVE SavedInv'
  OBVIOUS
<1> DEFINE w == helper.write
<1>1. /\ helper.at = "replace" /\ helper \in Helpers /\ serving \in Requests
      /\ w.source \in Sources /\ w.back \in {"write", "undo", "swap", "unswap"}
      /\ journal[serving].written \subseteq Sources
  BY ReplacingLemma DEF ReplaceFails
<1>2. /\ UNCHANGED <<file, asked, place, status, journal, baseline, saved, edited>>
      /\ w.back # "unswap" => lost' = lost
  BY DEF ReplaceFails
<1>3. CASE w.back = "write"
  <2>1. /\ helper'.at = "undo" /\ helper'.held = helper.held /\ helper'.request = serving
        /\ helper'.todo = journal[serving].written /\ Moves
    BY <1>1, <1>2, <1>3 DEF ReplaceFails, Helpers, Moves, serving
  <2>2. Doing({"write", "undo"}) /\ Doing({"write"}) /\ Empty(helper)
    BY <1>1, <1>3, CommitLemma DEF Doing
  <2>3. (CommitIsOpen /\ WriteIsDue)'
    BY <1>1, <2>1, <2>2 DEF SavedInv, CommitIsOpen, WriteIsDue, Doing, Moves, serving
  <2> QED  BY <2>1, <2>2, <2>3, CalmMove, EmptyIsNew DEF SavedInv
<1>4. CASE w.back = "undo"
  <2>1. /\ helper'.at = "report" /\ helper'.held = helper.held /\ helper'.result = "failed" /\ Moves
    BY <1>1, <1>2, <1>4 DEF ReplaceFails, Helpers, Moves
  <2>2. Empty(helper)
    BY <1>1, <1>4, CommitLemma DEF Doing
  <2>3. (CommitIsOpen /\ WriteIsDue)'
    BY <2>1 DEF CommitIsOpen, WriteIsDue, Doing
  <2> QED  BY <2>1, <2>2, <2>3, CalmMove, EmptyIsNew DEF SavedInv
<1>5. CASE w.back = "swap"
  <2>1. /\ helper'.at = "unswap" /\ helper'.held = helper.held /\ helper'.todo = Sources
        /\ Moves /\ baseline' = baseline
    BY <1>1, <1>2, <1>5 DEF ReplaceFails, Helpers, Moves
  <2>2. \A s \in Sources : AsideSteps(s)
    BY <1>1, <1>5, <2>1 DEF AsideSteps, Aside, Doing
  <2>3. (CommitIsOpen /\ WriteIsDue /\ HeldIsNew)'
    BY <2>1 DEF CommitIsOpen, WriteIsDue, HeldIsNew, Doing, RecoveringStages
  <2> QED  BY <2>1, <2>2, <2>3, MoveStep DEF SavedInv
<1>6. CASE w.back = "unswap"
  <2>1. /\ helper'.at = "unswap" /\ helper'.held = helper.held /\ helper'.todo = helper.todo
        /\ lost' = IF file[w.source] # saved[w.source] THEN lost \union {w.source} ELSE lost
    BY <1>1, <1>6 DEF ReplaceFails, Helpers
  <2>2. journal[serving].phase # "committing" /\ Lasting
    BY <1>1, <1>2, <1>6, RecoveryIsNoCommit DEF Doing, RecoveringStages, Lasting
  <2>3. \A s \in Sources : \A r \in Requests : ~Rewritten(r, s) /\ ~Rewritten(r, s)'
    BY <1>1, <1>2, <2>2, ServedAlone DEF Rewritten, claimed
  <2>4. ASSUME NEW s \in Sources PROVE SavedStands(s)'
    <3>1. CASE s = w.source
      <4>1. s \in lost' \/ file'[s] = saved'[s]
        BY <1>1, <1>2, <2>1, <3>1
      <4>2. Aside(s) => Aside(s)' \/ s # w.source \/ s \notin helper.todo
        BY <2>1, <3>1 DEF Aside, Doing
      <4>3. SavedStands(s) /\ (Aside(s)' => Aside(s))
        BY <1>1, <1>6, <2>1, <3>1 DEF SavedInv, Aside, Doing
      <4> QED  BY <1>2, <2>1, <2>2, <2>3, <4>1, <4>3, PartialStays DEF SavedStands, Kept
    <3>2. CASE s # w.source
      <4>1. AsideSteps(s) /\ (s \in lost => s \in lost')
        BY <1>1, <1>2, <1>6, <2>1, <3>2 DEF AsideSteps, Aside, Doing
      <4> QED  BY <1>2, <2>2, <2>3, <4>1, PartialStays, StandsStep DEF SavedInv
    <3> QED  BY <3>1, <3>2
  <2>5. JournalsTell' /\ EditsAreNew'
    BY <1>2, <2>1 DEF SavedInv, JournalsTell, EditsAreNew, Seen
  <2>6. (CommitIsOpen /\ WriteIsDue /\ HeldIsNew)'
    BY <2>1 DEF CommitIsOpen, WriteIsDue, HeldIsNew, Doing, RecoveringStages
  <2> QED  BY <2>4, <2>5, <2>6 DEF SavedInv
<1> QED  BY <1>1, <1>3, <1>4, <1>5, <1>6

(* --------------------- the life of a request ----------------------------- *)

\* What a status says has no part in where the saved bytes are.
LEMMA OutcomeSaved ==
  ASSUME SettingsInv, SavedInv, helper.at = "report",
         UNCHANGED <<file, asked, place, journal, baseline, saved, lost, edited>>,
         helper'.at \in {"report", "remove"}, helper'.held = helper.held
  PROVE  SavedInv'
<1>1. Moves
  BY DEF Moves
<1>2. \A s \in Sources : AsideSteps(s)
  BY DEF AsideSteps, Aside, Doing
<1>3. (CommitIsOpen /\ WriteIsDue /\ HeldIsNew)'
  BY DEF CommitIsOpen, WriteIsDue, HeldIsNew, Doing
<1> QED  BY <1>1, <1>2, <1>3, MoveStep DEF SavedInv

LEMMA ReportSaved ==
  SettingsInv /\ SavedInv /\ (Report \/ SuccessUnwritten \/ FailureUnwritten) => SavedInv'
<1> SUFFICES ASSUME SettingsInv, SavedInv, Report \/ SuccessUnwritten \/ FailureUnwritten
             PROVE  SavedInv'
  OBVIOUS
<1>1. helper.at = "report" /\ helper \in Helpers
      /\ UNCHANGED <<file, asked, place, journal, baseline, saved, lost, edited>>
  BY ServingLemma DEF Report, SuccessUnwritten, FailureUnwritten, OnlyStatus
<1>2. helper'.at \in {"report", "remove"} /\ helper'.held = helper.held
  BY <1>1 DEF Report, SuccessUnwritten, FailureUnwritten, Helpers
<1> QED  BY <1>1, <1>2, OutcomeSaved

LEMMA ServerStartsSaved == SettingsInv /\ SavedInv /\ ServerStarts => SavedInv'
<1> SUFFICES ASSUME SettingsInv, SavedInv, ServerStarts PROVE SavedInv'
  OBVIOUS
<1>1. UNCHANGED <<file, asked, place, status, journal, helper, baseline, saved, lost, edited>>
  BY DEF ServerStarts
<1> QED  BY <1>1 DEF SavedInv, SavedStands, JournalsTell, CommitIsOpen, WriteIsDue, HeldIsNew,
     EditsAreNew, Kept, Rewritten, Aside, Partial, Seen, claimed, serving, want, Doing

LEMMA IdleHelper ==
  /\ Idle.at = "idle" /\ Empty(Idle)
  /\ \A r \in Requests : LET h == [Idle EXCEPT !.at = "claim", !.request = r] IN
       h.at = "claim" /\ Empty(h)
BY DEF Idle, Empty, Nothing

\* A helper that starts or stops has nothing in its memory.
LEMMA FreshHelper ==
  ASSUME helper'.at \in {"idle", "claim"}, Empty(helper')
  PROVE  (CommitIsOpen /\ WriteIsDue /\ HeldIsNew)' /\ \A s \in Sources : ~Aside(s)'
BY DEF CommitIsOpen, WriteIsDue, HeldIsNew, Doing, Empty, Aside

LEMMA RemoveClaimSaved == SettingsInv /\ SavedInv /\ RemoveClaim => SavedInv'
<1> SUFFICES ASSUME SettingsInv, SavedInv, RemoveClaim PROVE SavedInv'
  OBVIOUS
<1>1. /\ helper.at = "remove" /\ serving \in Requests
      /\ place \in [Requests -> {"none", "queued", "claimed", "done"}] /\ place[serving] = "claimed"
  BY ServingLemma DEF RemoveClaim, SettingsInv, SettingsTypes, OneClaim, claimed
<1>2. /\ UNCHANGED <<file, asked, status, journal, baseline, saved, lost, edited>>
      /\ helper'.at = "idle" /\ Empty(helper')
      /\ \A r \in Requests : place'[r] = IF r = serving THEN "done" ELSE place[r]
  BY <1>1, IdleHelper DEF RemoveClaim
<1>3. Lasting
  BY <1>1, <1>2 DEF Lasting
<1>4. ASSUME NEW s \in Sources PROVE SavedStands(s)'
  <2>1. ~Aside(s) /\ ~Aside(s)'
    BY <1>1, <1>2, FreshHelper DEF Aside, Doing
  <2>2. \A r \in Requests : ~Rewritten(r, s)'
    BY <1>1, <1>2, ServedAlone DEF Rewritten, claimed
  <2>3. CASE Rewritten(serving, s)
    <3>1. Partial(s)'
      BY <1>1, <1>2, <2>3 DEF Rewritten, Partial
    <3> QED  BY <2>1, <2>2, <3>1 DEF SavedStands, Kept
  <2>4. CASE ~Rewritten(serving, s)
    <3>1. \A r \in Requests : ~Rewritten(r, s)
      BY <1>1, <2>4, ServedAlone DEF Rewritten
    <3>2. Kept(s, file[s])
      BY <2>1, <3>1 DEF SavedInv, SavedStands
    <3> QED  BY <1>2, <1>3, <2>1, <2>2, <3>2, KeptStays DEF SavedStands
  <2> QED  BY <2>3, <2>4
<1>5. JournalsTell'
  BY <1>1, <1>2 DEF SavedInv, JournalsTell
<1>6. EditsAreNew'
  BY <1>1, <1>2, AbsentIsSeen DEF SavedInv, EditsAreNew, Seen, Empty
<1> QED  BY <1>2, <1>4, <1>5, <1>6, FreshHelper DEF SavedInv

LEMMA ClaimSaved == ASSUME NEW r \in Requests, SettingsInv, SavedInv, Claim(r) PROVE SavedInv'
<1>1. /\ helper.at = "idle" /\ place[r] \in {"queued", "claimed"}
      /\ place \in [Requests -> {"none", "queued", "claimed", "done"}]
  BY DEF Claim, Eligible, claimed, SettingsInv, SettingsTypes
<1>2. /\ UNCHANGED <<file, asked, status, journal, baseline, saved, lost, edited>>
      /\ helper'.at = "claim" /\ Empty(helper')
      /\ \A q \in Requests : place'[q] = IF q = r THEN "claimed" ELSE place[q]
  BY <1>1, IdleHelper DEF Claim
<1>3. Lasting
  BY <1>1, <1>2 DEF Lasting
<1>4. JournalsTell'
  BY <1>1, <1>2 DEF SavedInv, JournalsTell
<1>5. EditsAreNew'
  BY <1>1, <1>2, AbsentIsSeen DEF SavedInv, EditsAreNew, Seen, Empty
<1>6. ASSUME NEW s \in Sources PROVE SavedStands(s)'
  <2>1. ~Aside(s) /\ ~Aside(s)'
    BY <1>1, <1>2, FreshHelper DEF Aside, Doing
  <2>2. \A q \in Requests : Rewritten(q, s)' <=> Rewritten(q, s)
    BY <1>1, <1>2 DEF Rewritten, claimed, SavedInv, JournalsTell
  <2> QED  BY <1>2, <1>3, <2>1, <2>2, PartialStays, StandsStep DEF SavedInv, AsideSteps
<1> QED  BY <1>2, <1>4, <1>5, <1>6, FreshHelper DEF SavedInv

(* The bytes a helper held when it died are counted as lost, unless the file *)
(* has them.                                                                 *)
LEMMA HelperStopsSaved == SettingsInv /\ SavedInv /\ HelperStops => SavedInv'
<1> SUFFICES ASSUME SettingsInv, SavedInv, HelperStops PROVE SavedInv'
  OBVIOUS
<1>1. /\ UNCHANGED <<file, asked, place, status, journal, baseline, saved, edited>>
      /\ helper'.at = "idle" /\ Empty(helper') /\ lost \subseteq lost' /\ helper.at # "idle"
      /\ \A s \in Sources : helper.held[s] # Absent /\ file[s] # saved[s] => s \in lost'
  BY IdleHelper DEF HelperStops
<1>2. Lasting
  BY <1>1 DEF Lasting
<1>3. ASSUME NEW s \in Sources PROVE SavedStands(s)'
  <2>1. ~Aside(s)' /\ \A r \in Requests : Rewritten(r, s)' <=> Rewritten(r, s)
    BY <1>1, FreshHelper DEF Rewritten, claimed
  <2>2. CASE Aside(s)
    <3>1. Aside(s) => Doing(RecoveringStages)
      BY DEF Aside, Doing, RecoveringStages
    <3>2. \A r \in Requests : ~Rewritten(r, s)
      BY <1>1, <2>2, <3>1, RecoveryIsNoCommit, ServedAlone DEF Rewritten
    <3>3. s \in lost' \/ file'[s] = saved'[s]
      BY <1>1, <2>2 DEF Aside
    <3> QED  BY <2>1, <3>2, <3>3 DEF SavedStands, Kept
  <2>3. CASE ~Aside(s)
    BY <1>1, <1>2, <2>1, <2>3, PartialStays, StandsStep DEF SavedInv, AsideSteps
  <2> QED  BY <2>2, <2>3
<1>4. JournalsTell'
  BY <1>1 DEF SavedInv, JournalsTell
<1>5. EditsAreNew'
  BY <1>1, AbsentIsSeen DEF SavedInv, EditsAreNew, Seen, Empty
<1> QED  BY <1>1, <1>3, <1>4, <1>5, FreshHelper DEF SavedInv

LEMMA AskSaved ==
  ASSUME NEW r \in Requests, NEW kind \in {"commit", "restart", "recover"},
         NEW touched \in SUBSET Sources, SettingsInv, SavedInv, Ask(r, kind, touched)
  PROVE  SavedInv'
<1>1. /\ place[r] = "none" /\ (helper.at # "idle" => serving # r)
      /\ UNCHANGED <<file, status, journal, helper, baseline, saved, lost, edited>>
      /\ \A q \in Requests : place'[q] = IF q = r THEN "queued" ELSE place[q]
      /\ \A q \in Requests \ {r} : asked'[q] = asked[q]
      /\ asked'[r].expected = file
  BY DEF Ask, SettingsInv, SettingsTypes, OneClaim, claimed
<1>2. Lasting
  BY <1>1 DEF Lasting
<1>3. journal[r].phase = "none" /\ journal[r].written = {}
  BY <1>1 DEF SavedInv, JournalsTell
<1>4. ASSUME NEW s \in Sources PROVE SavedStands(s)'
  <2>1. \A q \in Requests : (Rewritten(q, s)' <=> Rewritten(q, s)) /\ (Rewritten(q, s) => q # r)
    BY <1>1, <1>3 DEF Rewritten, claimed
  <2>2. AsideSteps(s)
    BY <1>1 DEF AsideSteps, Aside, Doing
  <2> QED  BY <1>1, <1>2, <2>1, <2>2, PartialStays, StandsStep DEF SavedInv
<1>5. JournalsTell'
  BY <1>1, <1>3 DEF SavedInv, JournalsTell
<1>6. EditsAreNew'
  BY <1>1 DEF SavedInv, EditsAreNew, Seen
<1>7. HeldIsNew'
  BY <1>1 DEF SavedInv, HeldIsNew, Doing
<1>8. helper.at # "idle" => serving \in Requests /\ want' = want /\ serving' = serving
                            /\ asked'[serving] = asked[serving]
  BY <1>1, ServingLemma DEF want, serving
<1>9. (CommitIsOpen /\ WriteIsDue)'
  <2>1. CASE helper.at = "idle"
    BY <1>1, <2>1 DEF CommitIsOpen, WriteIsDue, Doing
  <2>2. CASE helper.at # "idle"
    <3>1. journal[serving].written \subseteq Sources
      BY <2>2, ServingLemma
    <3>2. \A s \in Sources : Kept(s, file[s]) => Kept(s, file[s])'
      BY <1>1, <1>2, KeptStays
    <3> QED  BY <1>1, <1>8, <2>2, <3>1, <3>2 DEF SavedInv, CommitIsOpen, WriteIsDue, Doing, Seen
  <2> QED  BY <2>1, <2>2
<1> QED  BY <1>4, <1>5, <1>6, <1>7, <1>9 DEF SavedInv

\* What an editor saves is in the file, and in no baseline or manifest.
LEMMA EditSaved ==
  ASSUME NEW s \in Sources, NEW e \in Edits, SettingsInv, SavedInv, EditSource(s, e)
  PROVE  SavedInv'
<1>1. /\ e \notin edited /\ edited' = edited \union {e} /\ lost' = lost \ {s}
      /\ UNCHANGED <<asked, place, status, journal, helper, baseline>>
      /\ file'[s] = e /\ saved'[s] = e
      /\ \A x \in Sources \ {s} : file'[x] = file[x] /\ saved'[x] = saved[x]
  BY DEF EditSource, SettingsInv, SettingsTypes, Graphs
<1>2. Lasting
  BY <1>1 DEF Lasting
<1>3. Kept(s, file[s])' /\ \A x \in Sources : Kept(x, file[x]) => Kept(x, file[x])'
  <2>1. Kept(s, file[s])'
    BY <1>1 DEF Kept
  <2>2. ASSUME NEW x \in Sources, x # s PROVE Kept(x, file[x]) => Kept(x, file[x])'
    BY <1>1, <1>2, <2>2, KeptStays
  <2> QED  BY <2>1, <2>2
<1>4. ~Seen(e) /\ e \notin Requests
  BY <1>1, SettingsAssumption DEF Seen
<1>5. ASSUME NEW x \in Sources PROVE SavedStands(x)'
  <2>1. AsideSteps(x)
    BY <1>1 DEF AsideSteps, Aside, Doing
  <2>2. \A r \in Requests : Rewritten(r, x)' <=> Rewritten(r, x)
    BY <1>1 DEF Rewritten, claimed
  <2>3. CASE x # s
    BY <1>1, <1>2, <2>1, <2>2, <2>3, PartialStays, StandsStep DEF SavedInv
  <2>4. CASE x = s
    <3>1. Aside(s)' => Aside(s) /\ baseline # Absent /\ baseline[s] # e
      BY <1>1, <1>4 DEF Aside, Doing, SavedInv, SavedStands, EditsAreNew
    <3>2. \A r \in Requests : file'[s] # r
      BY <1>1, <1>4
    <3>3. Aside(s)' => baseline'[s] # file'[s] /\ baseline' # Absent
      BY <1>1, <3>1
    <3> QED  BY <1>3, <2>4, <3>2, <3>3 DEF SavedStands
  <2> QED  BY <2>3, <2>4
<1>6. JournalsTell' /\ HeldIsNew'
  BY <1>1 DEF SavedInv, JournalsTell, HeldIsNew, Doing
<1>7. EditsAreNew'
  <2>1. \A v : Seen(v) => Seen(v)'
    BY <1>1 DEF Seen
  <2>2. Seen(e)'
    BY <1>1 DEF Seen
  <2> QED  BY <1>1, <2>1, <2>2 DEF SavedInv, EditsAreNew, Seen
<1>8. (CommitIsOpen /\ WriteIsDue)'
  <2>1. CASE helper.at = "idle"
    BY <1>1, <2>1 DEF CommitIsOpen, WriteIsDue, Doing
  <2>2. CASE helper.at # "idle"
    <3>1. journal[serving].written \subseteq Sources
      BY <2>2, ServingLemma
    <3>2. want' = want /\ serving' = serving
      BY <1>1 DEF want, serving
    <3>3. CommitIsOpen'
      BY <1>1, <1>3, <3>1, <3>2 DEF SavedInv, CommitIsOpen, Doing
    <3>4. WriteIsDue'
      BY <1>1, <3>2 DEF SavedInv, WriteIsDue, Seen
    <3> QED  BY <3>3, <3>4
  <2> QED  BY <2>1, <2>2
<1> QED  BY <1>5, <1>6, <1>7, <1>8 DEF SavedInv

LEMMA SavedStarts == SettingsInit => SavedInv
<1> SUFFICES ASSUME SettingsInit PROVE SavedInv
  OBVIOUS
<1>1. helper.at = "idle" /\ Empty(helper)
  BY IdleHelper DEF SettingsInit
<1>2. \A r \in Requests : /\ place[r] = "none" /\ status[r].state = "new"
                          /\ journal[r].phase = "none" /\ journal[r].written = {}
  BY DEF SettingsInit
<1>3. \A s \in Sources : SavedStands(s)
  BY <1>1, <1>2 DEF SettingsInit, SavedStands, Kept, Rewritten, claimed, Aside, Doing, Empty
<1>4. JournalsTell
  BY <1>2 DEF JournalsTell
<1>5. CommitIsOpen /\ WriteIsDue /\ HeldIsNew
  BY <1>1 DEF CommitIsOpen, WriteIsDue, HeldIsNew, Doing, Empty
<1>6. EditsAreNew
  BY <1>1, <1>2, SettingsAssumption, AbsentIsSeen DEF SettingsInit, EditsAreNew, Seen, Empty
<1> QED  BY <1>3, <1>4, <1>5, <1>6 DEF SavedInv

LEMMA SavedStays == SettingsInv /\ SavedInv /\ [SettingsNext]_settings => SavedInv'
<1> SUFFICES ASSUME SettingsInv, SavedInv, [SettingsNext]_settings PROVE SavedInv'
  OBVIOUS
<1>1. CASE UNCHANGED settings
  BY <1>1 DEF settings, SavedInv, SavedStands, JournalsTell, CommitIsOpen, WriteIsDue, HeldIsNew,
     EditsAreNew, Kept, Rewritten, Aside, Partial, Seen, claimed, serving, want, Doing
<1>2. CASE HelperWorks
  BY <1>2, ClaimSaved, ProcessSaved, ReportSaved, RemoveClaimSaved, ReplaceSaved, ReplaceFailsSaved,
     ResumeSaved, CheckManifestSaved, EnsureBaselineSaved, PrepareSaved, CommitFailsSaved,
     CompleteSaved, UndoneSaved, BoundaryFailsSaved, CrossBoundarySaved, RestartSaved,
     RestartFailsSaved, ProveSaved, ProveFailsSaved, CaptureSaved, RecordReceiptSaved, NothingToRecoverSaved,
     SwappedSaved, RerunSaved, ReproveSaved, UnswappedSaved, WriteSourceSaved, UndoSaved,
     SwapSaved, UnswapSaved DEF HelperWorks
<1> QED  BY <1>1, <1>2, AskSaved, EditSaved, HelperStopsSaved, ServerStartsSaved DEF SettingsNext

(* Between requests every file holds what its owner last saved, but for what *)
(* the journal of a commit that failed names and what the helper gave up, for any      *)
(* sources, requests and edits, and wherever the helper stops or fails.      *)
THEOREM SavedSettingsAreKept == SettingsAlone => []SavedSettingsKept
<1>1. SettingsInit => SettingsInv /\ SavedInv
  BY StartsGood, SavedStarts
<1>2. SettingsInv /\ SavedInv /\ [SettingsNext]_settings => (SettingsInv /\ SavedInv)'
  BY StaysGood, SavedStays
<1>3. SettingsInv /\ SavedInv => SavedSettingsKept
  BY DEF SettingsInv, OneClaim, SavedInv, SavedSettingsKept, SavedStands, Settled, Rewritten, Aside,
     Doing, Kept, claimed
<1> QED  BY <1>1, <1>2, <1>3, PTL DEF SettingsAlone
=============================================================================
