------------------------------ MODULE Reviews ------------------------------
(***************************************************************************)
(* Review tours (review-tour/jobs.ts) and Code reviews (code-review/jobs.ts) *)
(* of one Worktree, and the store that keeps the latest of each              *)
(* (review-tour/store.ts).  A job lives in memory; what it produces goes     *)
(* through the store's promise chain.  A mutation of the chain computes what *)
(* it changes, moves the generations in memory at once, and then writes one  *)
(* file after the other.  Starts, cancels, dismissals and the looks of the   *)
(* dashboard come at any time between these steps.                           *)
(*                                                                           *)
(* A Comparison is its branch: an edit of its files on the same branch only  *)
(* makes a narration or a recovery fail, which TourFails and ReviewFails     *)
(* have.  Ask threads, and checkouts without a branch, are left out.         *)
(***************************************************************************)
EXTENDS Naturals, Sequences, FiniteSets

CONSTANTS
  MaxTours, MaxReviews,       \* bounds on the jobs, numbered as they come
  Owners,                     \* controller sessions
  Branches,
  Courses,                    \* how many jobs there may be together, and what
                              \* may happen besides, each thing once
  Nil

Tours == 1..MaxTours
CodeReviews == 1..MaxReviews

(* What is kept of a job, the two files, a mutation of them, and what the    *)
(* running mutation has yet to write                                        *)
TourFiles == [by : Tours, branch : Branches \union {Nil}]
ReviewFiles == [by : CodeReviews, branch : Branches \union {Nil}]
KeptFiles == [tour : TourFiles \union {Nil}, review : ReviewFiles \union {Nil}]
Mutations ==
  [op : {"invalidate", "save tour"}, job : Tours, branch : Branches \union {Nil}, gen : Nat] \union
  [op : {"save review", "stored"}, job : CodeReviews, branch : Branches \union {Nil}, gen : Nat] \union
  [op : {"dismiss", "drop", "reconcile"}, job : {0}, branch : Branches \union {Nil}, gen : Nat]
Writings == [kept : KeptFiles, files : Seq({"tour", "review"}), how : {"done", "refused"}]

ASSUME ReviewsAssumption ==
  /\ MaxTours \in Nat /\ MaxReviews \in Nat
  /\ Branches # {} /\ Nil \notin TourFiles \union ReviewFiles \union Writings
  /\ Courses \subseteq [jobs : Nat, events : SUBSET {"switch", "look", "dismiss", "fail", "stop"}]

VARIABLES
  checkout,                   \* the branch a capture shows
  kept,                       \* the tour file and the Code review file
  version,                    \* generations, and the generation's branch
  chain,                      \* mutations in order, the running one first
  writing,                    \* what the running mutation has yet to write
  tour, review,               \* the jobs
  wanted,                     \* history: the tour and the review that may be kept
  broken,                     \* history: a write failed, or was cut off
  ahead                       \* what may still happen

reviewing == <<checkout, kept, version, chain, writing, tour, review, wanted, broken, ahead>>

FirstBranch == CHOOSE b \in Branches : TRUE
NoJob == [at |-> "new", owner |-> Nil, branch |-> Nil, gen |-> 0, with |-> FALSE]
Over == [NoJob EXCEPT !.at = "over"]       \* empty, failed, cancelled or superseded
TourStates == {"new", "capture", "start", "pending", "saving", "ready", "over"}
ReviewStates == {"new", "resolve", "pending", "saving", "ready", "over",
                 "orphan", "asked", "joining", "landing", "recovered"}

JobsAt(states) ==
  [at : states, owner : Owners \union {Nil}, branch : Branches \union {Nil}, gen : Nat, with : BOOLEAN]

ReviewsTypeOK ==
  /\ checkout \in Branches
  /\ kept \in KeptFiles
  /\ version \in [tour : Nat, branch : Branches \union {Nil}, review : Nat]
  /\ chain \in Seq(Mutations) /\ writing \in Writings \union {Nil}
  /\ writing # Nil => chain # <<>>
  /\ tour \in [Tours -> JobsAt(TourStates)] /\ review \in [CodeReviews -> JobsAt(ReviewStates)]
  /\ wanted \in [tour : Tours \union {0}, review : SUBSET CodeReviews] /\ broken \in BOOLEAN

ReviewsInit ==
  /\ checkout = FirstBranch
  /\ kept = [tour |-> Nil, review |-> Nil]
  /\ version = [tour |-> 0, branch |-> Nil, review |-> 0]
  /\ chain = <<>> /\ writing = Nil
  /\ tour = [t \in Tours |-> NoJob] /\ review = [r \in CodeReviews |-> NoJob]
  /\ wanted = [tour |-> 0, review |-> {}] /\ broken = FALSE /\ ahead \in Courses

Happens(what) == what \in ahead.events /\ ahead' = [ahead EXCEPT !.events = @ \ {what}]

Mutation(op, j, job, gen) == [op |-> op, job |-> j, branch |-> job.branch, gen |-> gen]
ReviewRecord(m) == [by |-> m.job, branch |-> m.branch]

-----------------------------------------------------------------------------
(* What each mutation computes: the files and generations after it, which   *)
(* jobs may be kept from then on, and what its caller gets.                  *)

Computed(files, gens, may, value) == [kept |-> files, version |-> gens, wanted |-> may, value |-> value]
Unchanged(value) == Computed(kept, version, wanted, value)

\* invalidate, dismiss: the tour goes with everything kept beside it.
Cleared(branch, may) ==
  Computed([tour |-> Nil, review |-> Nil],
           [tour |-> version.tour + 1, branch |-> branch, review |-> version.review + 1],
           [tour |-> may, review |-> {}], "done")

\* Mutant: a tour is kept whatever has begun since.
TourSaved_AnyGeneration(m) ==
  Computed([kept EXCEPT !.tour = ReviewRecord(m)], version, wanted, "done")
\* saveIfCurrent
TourSaved(m) ==
  IF version.tour # m.gen \/ version.branch # m.branch THEN Unchanged("refused")
  ELSE Computed([kept EXCEPT !.tour = ReviewRecord(m)], version, wanted, "done")

\* invalidateIfCurrent: a cancelled tour goes, unless a newer one began.
Dropped(m) ==
  IF version.tour # m.gen THEN Unchanged("refused")
  ELSE Computed([kept EXCEPT !.tour = Nil], [version EXCEPT !.tour = @ + 1, !.branch = Nil], wanted, "done")

\* summaries, current: what is not on the branch goes, and nothing that was
\* begun on another branch is saved from then on.
Reconciled(m) ==
  LET strayTour == kept.tour # Nil /\ kept.tour.branch # m.branch
      strayReview == kept.review # Nil /\ kept.review.branch # m.branch
      stray == strayTour \/ version.branch \notin {Nil, m.branch}
  IN  Computed([tour |-> IF strayTour THEN Nil ELSE kept.tour,
                review |-> IF strayReview THEN Nil ELSE kept.review],
               [tour |-> version.tour + (IF stray THEN 1 ELSE 0),
                branch |-> IF stray THEN m.branch ELSE version.branch,
                review |-> IF strayReview THEN version.review + 1 ELSE version.review],
               [tour |-> IF stray THEN 0 ELSE wanted.tour,
                review |-> IF strayReview THEN {} ELSE wanted.review], "done")

\* Mutant: a review is kept whatever has begun since.
ReviewSaved_AnyGeneration(m) ==
  Computed([kept EXCEPT !.review = ReviewRecord(m)], version, wanted, "done")
\* saveCodeReviewIfCurrent
ReviewSaved(m) ==
  IF version.review # m.gen THEN Unchanged("refused")
  ELSE Computed([kept EXCEPT !.review = ReviewRecord(m)], version, wanted, "done")

Change(m) ==
  CASE m.op = "invalidate" -> Cleared(m.branch, m.job)
    [] m.op = "dismiss" -> Cleared(Nil, 0)
    [] m.op = "save tour" -> TourSaved(m)
    [] m.op = "drop" -> Dropped(m)
    [] m.op = "reconcile" -> Reconciled(m)
    [] m.op = "save review" -> ReviewSaved(m)
    [] m.op = "stored" -> Unchanged("done")

-----------------------------------------------------------------------------
(* What the caller of a mutation does when it is over: `how` is "done",     *)
(* "refused" or "failed".                                                   *)

Live(jobs) == {j \in DOMAIN jobs : jobs[j].at \in {"pending", "saving", "ready"}}
Gone(jobs, which) == [j \in DOMAIN jobs |-> IF j \in which THEN Over ELSE jobs[j]]
OfOwner(jobs, j) == {i \in Live(jobs) : jobs[i].owner = jobs[j].owner}
JobEnded(job, how) == IF how = "done" THEN [job EXCEPT !.at = "ready"] ELSE Over

Underway(t) == tour[t].at \in {"pending", "saving"}
\* markGone: a tour that is not finished is dropped behind what waits.
Drops(which) ==
  IF \E t \in which : Underway(t)
  THEN <<Mutation("drop", 0, NoJob, tour[CHOOSE t \in which : Underway(t)].gen)>> ELSE <<>>

New(jobs) == {j \in DOMAIN jobs : jobs[j].at = "new"}
NextJob(jobs, j) ==
  /\ j \in New(jobs) /\ \A i \in New(jobs) : j <= i
  /\ Cardinality(New(tour)) + Cardinality(New(review)) > MaxTours + MaxReviews - ahead.jobs

(* create() goes on: the owner's previous tour and every Code review of the  *)
(* Worktree are superseded, and the tour's own Code review is looked up.     *)
TourBegins(t, selection) ==
  LET older == OfOwner(tour, t)
      others == Gone(review, Live(review))
  IN
  /\ tour' = [Gone(tour, older) EXCEPT ![t] =
       IF selection = "empty" THEN Over ELSE [@ EXCEPT !.at = "pending", !.gen = version.tour]]
  /\ chain' = Tail(chain) \o Drops(older)
  /\ \/ /\ selection # "empty" /\ tour[t].with
        /\ \E r \in CodeReviews :
             NextJob(review, r) /\ review' = [others EXCEPT ![r] = [tour[t] EXCEPT !.at = "resolve"]]
     \/ review' = others         \* none asked for, or its preset refused

\* recover: the kept tour is of the Comparison that was reviewed.
Narrates(r) ==
  kept.tour # Nil /\ kept.tour.branch = review[r].branch

Settles(m, how) ==
  \/ /\ m.op = "invalidate"
     /\ IF how = "done" THEN \E selection \in {"some", "empty"} : TourBegins(m.job, selection)
        ELSE /\ tour' = Gone(tour, {m.job})
             /\ chain' = Tail(chain) /\ UNCHANGED review
  \/ /\ m.op # "invalidate" /\ chain' = Tail(chain)
     /\ tour' = IF m.op = "save tour" /\ tour[m.job].at = "saving"
                THEN [tour EXCEPT ![m.job] = JobEnded(@, how)] ELSE tour
     /\ review' = CASE m.op = "dismiss" /\ how = "done" -> Gone(review, Live(review))
                    [] m.op = "save review" /\ review[m.job].at = "saving" ->
                         [review EXCEPT ![m.job] = JobEnded(@, how)]
                    [] m.op = "save review" /\ review[m.job].at = "landing" ->
                         [review EXCEPT ![m.job] = IF how = "done" THEN [@ EXCEPT !.at = "recovered"] ELSE Over]
                    [] m.op = "stored" ->
                         IF Narrates(m.job) THEN [review EXCEPT ![m.job].at = "joining"] ELSE Gone(review, {m.job})
                    [] OTHER -> review

-----------------------------------------------------------------------------
(* The chain                                                                *)

Files(m) ==
  (IF kept.tour # Change(m).kept.tour THEN <<"tour">> ELSE <<>>) \o
  (IF kept.review # Change(m).kept.review THEN <<"review">> ELSE <<>>)

\* The head of the chain computes its change.
Compute ==
  /\ chain # <<>> /\ writing = Nil
  /\ LET m == Head(chain)
         c == Change(m)
     IN
     /\ version' = c.version /\ wanted' = c.wanted
     /\ writing' = [kept |-> c.kept, files |-> Files(m), how |-> c.value]
  /\ UNCHANGED <<checkout, kept, chain, tour, review, broken, ahead>>

WriteFile ==
  /\ writing # Nil /\ writing.files # <<>>
  /\ kept' = [kept EXCEPT ![Head(writing.files)] = writing.kept[Head(writing.files)]]
  /\ writing' = [writing EXCEPT !.files = Tail(@)]
  /\ UNCHANGED <<checkout, version, chain, tour, review, wanted, broken, ahead>>

\* The rest is not written; what moved in memory stays.
WriteFails ==
  /\ writing # Nil /\ writing.files # <<>>
  /\ Happens("fail")
  /\ broken' = TRUE /\ writing' = Nil
  /\ Settles(Head(chain), "failed")
  /\ UNCHANGED <<checkout, kept, version, wanted>>

MutationEnds ==
  /\ writing # Nil /\ writing.files = <<>>
  /\ writing' = Nil
  /\ Settles(Head(chain), writing.how)
  /\ UNCHANGED <<checkout, kept, version, wanted, broken, ahead>>

Chained(m) ==
  /\ chain' = Append(chain, m)
  /\ UNCHANGED <<checkout, kept, version, writing, wanted, broken>>

-----------------------------------------------------------------------------
(* Tours                                                                    *)

Quiet == UNCHANGED <<kept, writing, broken>>
Captured(o, with) == [at |-> "capture", owner |-> o, branch |-> checkout, gen |-> 0, with |-> with]

\* prepare() captures the Comparison; create() then invalidates.
StartTour(t, o, with) ==
  /\ NextJob(tour, t)
  /\ tour' = [tour EXCEPT ![t] = Captured(o, with)]
  /\ Quiet /\ UNCHANGED <<checkout, version, chain, review, wanted, ahead>>
TourPrepared(t) ==
  /\ tour[t].at = "capture"
  /\ tour' = [tour EXCEPT ![t].at = "start"]
  /\ Chained(Mutation("invalidate", t, tour[t], 0))
  /\ UNCHANGED <<review, ahead>>

\* generate() refuses a narration of what is not there any more.
Generated(t) ==
  /\ tour[t].at = "pending"
  /\ tour[t].branch = checkout
  /\ tour' = [tour EXCEPT ![t].at = "saving"]
  /\ Chained(Mutation("save tour", t, tour[t], tour[t].gen))
  /\ UNCHANGED <<review, ahead>>
TourFails(t) ==
  /\ tour[t].at = "pending"
  /\ tour' = Gone(tour, {t})
  /\ Quiet /\ UNCHANGED <<checkout, version, chain, review, wanted, ahead>>

\* cancel, expire
CancelTour(t) ==
  /\ t \in Live(tour)
  /\ tour' = Gone(tour, {t})
  /\ chain' = chain \o Drops({t})
  /\ wanted' = IF tour[t].at \in {"pending", "saving"} /\ wanted.tour = t
               THEN [wanted EXCEPT !.tour = 0] ELSE wanted
  /\ Quiet /\ UNCHANGED <<checkout, version, review, ahead>>

-----------------------------------------------------------------------------
(* Code reviews                                                             *)

\* The add route captures the Comparison and refuses another than it was asked for.
AddReview(r, o) ==
  /\ NextJob(review, r)
  /\ review' = [review EXCEPT ![r] = [Captured(o, FALSE) EXCEPT !.at = "resolve"]]
  /\ Quiet /\ UNCHANGED <<checkout, version, chain, tour, wanted, ahead>>

\* CodeReviewJobs.start once the preset is resolved
ReviewBegins(r) ==
  /\ review[r].at = "resolve"
  /\ review' = [Gone(review, OfOwner(review, r)) EXCEPT ![r].at = "pending", ![r].gen = version.review + 1]
  /\ version' = [version EXCEPT !.review = @ + 1]
  /\ wanted' = [wanted EXCEPT !.review = {r}]
  /\ Quiet /\ UNCHANGED <<checkout, chain, tour, ahead>>

Reviewed(r) ==
  /\ review[r].at \in {"pending", "joining"}
  /\ review' = [review EXCEPT ![r].at = IF @ = "pending" THEN "saving" ELSE "landing"]
  /\ Chained(Mutation("save review", r, review[r], IF review[r].at = "pending" THEN review[r].gen ELSE 0))
  /\ UNCHANGED <<tour, ahead>>
ReviewFails(r) ==
  /\ review[r].at \in {"pending", "joining"}
  /\ review' = Gone(review, {r})
  /\ Quiet /\ UNCHANGED <<checkout, version, chain, tour, wanted, ahead>>
CancelReview(r) ==
  /\ r \in Live(review)
  /\ review' = Gone(review, {r})
  /\ Quiet /\ UNCHANGED <<checkout, version, chain, tour, wanted, ahead>>

\* recover: the Agent of an interactive run outlived the server.
RecoverOrphan(r) ==
  /\ review[r].at = "orphan"
  /\ review' = [review EXCEPT ![r].at = "asked"]
  /\ Chained(Mutation("stored", r, review[r], 0))
  /\ UNCHANGED <<tour, ahead>>

-----------------------------------------------------------------------------
(* The Worktree, the dashboard and the server                               *)

SwitchBranch(b) ==
  /\ Happens("switch") /\ b # checkout
  /\ checkout' = b
  /\ Quiet /\ UNCHANGED <<version, chain, tour, review, wanted>>

\* A refresh read the branch, now or before the last switch, and reconciles
\* the store with it.
DashboardReconciles(b) ==
  /\ Happens("look") /\ b \in {FirstBranch, checkout}
  /\ Chained(Mutation("reconcile", 0, [NoJob EXCEPT !.branch = b], 0))
  /\ UNCHANGED <<tour, review>>

Dismiss ==
  /\ Happens("dismiss")
  /\ Chained(Mutation("dismiss", 0, NoJob, 0))
  /\ UNCHANGED <<tour, review>>

\* Jobs and generations are gone; a review that ran can be recovered.
ServerStops ==
  /\ Happens("stop")
  /\ broken' = (broken \/ chain # <<>>)
  /\ chain' = <<>> /\ writing' = Nil
  /\ version' = [tour |-> 0, branch |-> Nil, review |-> 0]
  /\ tour' = Gone(tour, {t \in Tours : tour[t].at # "new"})
  /\ \E orphans \in SUBSET {r \in CodeReviews : review[r].at \in {"pending", "orphan", "asked", "joining", "landing"}} :
       /\ review' = [r \in CodeReviews |->
            IF r \in orphans THEN [review[r] EXCEPT !.at = "orphan", !.gen = 0]
            ELSE IF review[r].at = "new" THEN NoJob ELSE Over]
       /\ wanted' = [wanted EXCEPT !.review = @ \union orphans]
  /\ UNCHANGED <<checkout, kept>>

ReviewsNext ==
  \/ Compute \/ WriteFile \/ WriteFails \/ MutationEnds
  \/ \E t \in Tours : \/ \E o \in Owners, with \in BOOLEAN : StartTour(t, o, with)
                      \/ TourPrepared(t) \/ Generated(t) \/ TourFails(t) \/ CancelTour(t)
  \/ \E r \in CodeReviews : \/ \E o \in Owners : AddReview(r, o)
                            \/ ReviewBegins(r) \/ Reviewed(r) \/ ReviewFails(r)
                            \/ CancelReview(r) \/ RecoverOrphan(r)
  \/ \E b \in Branches : SwitchBranch(b) \/ DashboardReconciles(b)
  \/ Dismiss \/ ServerStops

ReviewsAlone == ReviewsInit /\ [][ReviewsNext]_reviewing

(* ------------------------------ properties ------------------------------- *)

AtRest == chain = <<>> /\ ~broken

(* When every mutation is over, the tour that is kept is the one begun last: *)
(* none that a newer start, a cancel, a dismissal or a branch change ended   *)
(* while it was generated or written.  And such a tour that is ready is kept. *)
TourIsKept ==
  AtRest =>
    /\ kept.tour # Nil => kept.tour.by = wanted.tour
    /\ \A t \in Tours : tour[t].at = "ready" /\ wanted.tour = t => kept.tour # Nil

(* When every mutation is over, a Code review that is ready, or that was      *)
(* recovered from before a restart, is kept if it was begun last, and none is *)
(* kept when the last tour to begin, or a dismissal, cleared it.             *)
ReviewIsKept ==
  AtRest =>
    /\ wanted.review = {} => kept.review = Nil
    /\ \A r \in CodeReviews :
         review[r].at \in {"ready", "recovered"} /\ wanted.review = {r} =>
           kept.review # Nil /\ kept.review.by = r
=============================================================================
