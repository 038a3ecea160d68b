---------------------------- MODULE Maintenance ----------------------------
(***************************************************************************)
(* The maintenance pull requests of the repository and the jobs that act   *)
(* on them: the daily data writer and the weekly release writer, which put *)
(* one bot commit on their branch, open the pull request and dispatch CI;  *)
(* the controllers that merge a green candidate (and, for a release, tag   *)
(* the merge and dispatch publication); and the reconciler, which every    *)
(* quarter of an hour dispatches the controller of a green candidate that  *)
(* no controller has picked up.                                            *)
(*                                                                         *)
(* Writers and controllers share one GitHub concurrency group, so one of   *)
(* them runs at a time; the reconciler, CI, and the people who push to     *)
(* main or to a bot branch, close a pull request or switch the branch      *)
(* protection off, are concurrent with it, and a job may be killed         *)
(* between two steps.  A write never shares a step with a read it relies   *)
(* on, but for what GitHub itself compares.  Reads that follow one another *)
(* with no write between them share one in places: the branch, its pull    *)
(* requests and its CI runs (WriterBranch), main and the pull requests     *)
(* (WriterVerify), what a controller resolves at first (ControllerResolve),*)
(* the tags and main (ControllerTagCheck), one candidate's branch, pull    *)
(* request and CI runs (CandidateOf), and the runs of both controllers     *)
(* (RecControllers, RecLast).  A change between two reads of such a group  *)
(* is not modelled; one between the group and what is done on it is.       *)
(*                                                                         *)
(* A commit carries the two parts of the tree that matter here: the        *)
(* catalog content it ships and the package version.  A digest, a          *)
(* fingerprint and a tree SHA are all equality of trees.                   *)
(***************************************************************************)
EXTENDS Integers, Sequences, FiniteSetsExt

CONSTANTS Kinds,      \* the branches whose writer is triggered, of AllKinds
          Automatic,  \* the kinds whose merge variable is "true"
          Catalogs,   \* catalog contents an observation may find
          Polling,    \* whether the schedule of the reconciler is on
          MaxWriters, \* bound: writer runs triggered
          MaxChaos    \* bound: acts of people, lost protection and crashes

AllKinds == {"data", "release"}

ASSUME KindsAssumption == Kinds \subseteq AllKinds /\ Automatic \subseteq AllKinds
ASSUME PollingAssumption == Polling \in BOOLEAN
ASSUME BoundsAssumption == MaxWriters \in Nat /\ MaxChaos \in Nat
ASSUME CatalogsAssumption == Catalogs \subseteq Nat

VARIABLES commits,   \* every commit, by number
          main,      \* the commit main points to
          trunk,     \* the commits main has pointed to
          head,      \* the commit of each bot branch, or None
          prs,       \* the pull requests
          ci,        \* the dispatched CI runs
          runs,      \* the runs of the concurrency group erpc-catalog-mutation
          job,       \* the local state of the run that holds the group
          rec,       \* the local state of the reconciler
          tags,      \* the paired release tags that exist
          published, \* the versions whose release.yml run has its evidence
          dispatched,\* the release.yml dispatches made by the controller
          protect,   \* main requires an up-to-date green head, of everybody
          chaos      \* acts of Chaos so far

git     == <<commits, main, trunk, head, prs>>
release == <<tags, published, dispatched>>
vars    == <<git, ci, runs, job, rec, release, protect, chaos>>

None    == 0
NoJob   == [run |-> None, pc |-> "idle", old |-> None, pr |-> None, out |-> None, tree |-> <<0, 0>>]
NoCandidate == [pr |-> None, ci |-> None, head |-> None]
IdleRec == [pc |-> "idle", sha |-> None, cand |-> [k \in AllKinds |-> NoCandidate], pick |-> "none"]

Tree(c)   == <<commits[c].cat, commits[c].ver>>
NewestOf(S) == IF S = {} THEN None ELSE Max(S)

(***************************************************************************)
(* GitHub, as the code uses it.                                            *)
(***************************************************************************)

Commit(by, parent, second, tree) ==
    [by |-> by, parent |-> parent, second |-> second, cat |-> tree[1], ver |-> tree[2]]

NextCommit == Len(commits) + 1

\* a commit is reachable from a later one of main
OnMainBefore(a, b) == a \in trunk /\ b \in trunk /\ a <= b

OpenPr(k) == NewestOf({p \in DOMAIN prs : prs[p].kind = k /\ prs[p].st = "open"})

\* the head of an open pull request is its branch
PrHead(p) == IF prs[p].st = "open" THEN head[prs[p].kind] ELSE prs[p].head

\* moving a branch refreshes its open pull request against the tip of main
MoveBranch(k, c) ==
    /\ head' = [head EXCEPT ![k] = c]
    /\ prs' = [p \in DOMAIN prs |->
                 IF prs[p].kind = k /\ prs[p].st = "open" THEN [prs[p] EXCEPT !.base = main] ELSE prs[p]]

\* what a three-way merge of a head into main gives: the head's changes over main
MergedTree(h) ==
    LET base == commits[h].parent
        side(i) == IF Tree(h)[i] # Tree(base)[i] THEN Tree(h)[i] ELSE Tree(main)[i]
    IN <<side(1), side(2)>>

\* a required, strict status check accepts a head based on the tip of main
UpToDate(h) == commits[h].parent = main

\* PUT /pulls/N/merge with the expected head
Mergeable(p, h) == prs[p].st = "open" /\ PrHead(p) = h /\ (protect => UpToDate(h))

(***************************************************************************)
(* The concurrency group keeps one running and one pending run: a run that *)
(* finds the group free starts, and a newer run cancels the pending one.   *)
(***************************************************************************)
Run(what, kind, i, pr, apply, by) ==
    [what |-> what, kind |-> kind, sha |-> main, ci |-> i, pr |-> pr,
     apply |-> apply, by |-> by, st |-> "queued", out |-> None]

Enqueue(r) ==
    /\ job = NoJob => \A i \in DOMAIN runs : runs[i].st # "queued"
    /\ runs' = Append([i \in DOMAIN runs |->
                         IF runs[i].st = "queued" THEN [runs[i] EXCEPT !.st = "cancelled"] ELSE runs[i]], r)

Writers == {i \in DOMAIN runs : runs[i].what = "writer"}

StartRun(i) ==
    /\ job = NoJob
    /\ runs[i].st = "queued"
    /\ runs' = [runs EXCEPT ![i].st = "running"]
    /\ job' = [NoJob EXCEPT !.run = i, !.pc = IF runs[i].what = "writer" THEN "lease" ELSE "resolve"]
    /\ UNCHANGED <<git, ci, rec, release, protect, chaos>>

Me == runs[job.run]

\* the job of a kind of run is about to take the step pc
At(what, pc) == job.run # None /\ Me.what = what /\ job.pc = pc

\* Mutant: a job that ends keeps the concurrency group.
EndHolding(st, out) ==
    /\ runs' = [runs EXCEPT ![job.run].st = st, ![job.run].out = out]
    /\ UNCHANGED job

End(st, out) ==
    /\ runs' = [runs EXCEPT ![job.run].st = st, ![job.run].out = out]
    /\ job' = NoJob

Go(pc) == job' = [job EXCEPT !.pc = pc] /\ UNCHANGED runs

(***************************************************************************)
(* The writers.  A run is bound to the commit main pointed to when it was  *)
(* triggered (Me.sha) and does its work only while main is still there.    *)
(***************************************************************************)
Trigger(k) ==
    /\ Cardinality(Writers) < MaxWriters
    /\ Enqueue(Run("writer", k, None, None, FALSE, "schedule"))
    /\ UNCHANGED <<git, ci, job, rec, release, protect, chaos>>

LatestTag == CHOOSE t \in tags : \A u \in tags : u.ver <= t.ver

\* a catalog that differs from the last released one, at the released version
PrepareAllowed(base) ==
    /\ commits[base].cat # commits[LatestTag.commit].cat
    /\ commits[base].ver <= LatestTag.ver

HasWork(k, base, cat) ==
    IF k = "data" THEN cat # commits[base].cat ELSE PrepareAllowed(base)

Candidate(k, base, cat) ==
    IF k = "data" THEN <<cat, commits[base].ver>> ELSE <<commits[base].cat, LatestTag.ver + 1>>

Observations(k, base) == IF k = "data" THEN Catalogs ELSE {commits[base].cat}

\* reader or collector, then the writer's first check of the lease on main
WriterLease(cat) ==
    /\ At("writer", "lease")
    /\ cat \in Observations(Me.kind, Me.sha)
    /\ IF ~HasWork(Me.kind, Me.sha, cat) THEN End("success", None)
       ELSE IF main # Me.sha THEN End("failure", None)
       ELSE /\ job' = [job EXCEPT !.pc = "branch", !.tree = Candidate(Me.kind, Me.sha, cat)]
            /\ UNCHANGED runs
    /\ UNCHANGED <<git, ci, rec, release, protect, chaos>>

ManagedBy(c) == commits[c].by

\* the old observer's branch is taken over once its pull request is merged
LegacyHandoff(c, base) ==
    /\ ManagedBy(c) = "legacy"
    /\ OnMainBefore(commits[c].parent, base)
    /\ OpenPr("data") = None
    /\ \E p \in DOMAIN prs : /\ prs[p].kind = "data" /\ prs[p].st = "merged"
                             /\ prs[p].head = c /\ prs[p].base = commits[c].parent
                             /\ OnMainBefore(prs[p].merge, base)

\* anything on a bot branch but the bot's own commit is a human edit
Owned(k, c, base) ==
    \/ /\ ManagedBy(c) = k
       /\ k = "data" => OnMainBefore(commits[c].parent, base)
    \/ k = "data" /\ LegacyHandoff(c, base)

Matches(k, c, base, tree) ==
    c # None /\ ManagedBy(c) = k /\ commits[c].parent = base /\ Tree(c) = tree

\* a release candidate a person closed is not proposed again
ClosedBefore(tree) ==
    LET past == {p \in DOMAIN prs : prs[p].kind = "release" /\ prs[p].st # "open"}
    IN past # {} /\ OpenPr("release") = None /\ prs[Max(past)].body.tree = tree

FoundCiRun(k, c) == \E i \in DOMAIN ci : ci[i].kind = k /\ ci[i].head = c

\* reads the branch, its provenance and (release) its pull requests
WriterBranch ==
    LET k    == Me.kind
        old  == head[k]
        same == Matches(k, old, Me.sha, job.tree)
        next == IF ~same THEN (IF k = "release" THEN "commitlease" ELSE "commit")
                ELSE IF k = "release" /\ OpenPr(k) # None THEN "dispatchlease" ELSE "verify"
    IN
    /\ At("writer", "branch")
    /\ \/ old # None /\ ~Owned(k, old, Me.sha) /\ End("failure", None)
       \/ /\ old # None => Owned(k, old, Me.sha)
          /\ k = "release" /\ ClosedBefore(job.tree)
          /\ End("success", None)
       \/ /\ k = "release" /\ same /\ OpenPr(k) # None /\ FoundCiRun(k, old)
          /\ End("success", old)
       \/ /\ old # None => Owned(k, old, Me.sha)
          /\ k = "release" => /\ ~ClosedBefore(job.tree)
                              /\ ~(same /\ OpenPr(k) # None /\ FoundCiRun(k, old))
          /\ job' = [job EXCEPT !.pc = next, !.old = old,
                                !.out = IF same THEN old ELSE None,
                                !.pr = IF k = "release" THEN OpenPr(k) ELSE None]
          /\ UNCHANGED runs
    /\ UNCHANGED <<git, ci, rec, release, protect, chaos>>

\* the release writer reads main again before it commits and before it dispatches
WriterLeaseAgain ==
    LET next == IF job.pc = "commitlease" THEN "commit" ELSE "dispatch" IN
    /\ At("writer", "commitlease") \/ At("writer", "dispatchlease")
    /\ IF main # Me.sha THEN End("failure", None) ELSE Go(next)
    /\ UNCHANGED <<git, ci, rec, release, protect, chaos>>

\* Mutant: the ref is updated with force and without a lease.
BranchIsAnything(k, old) == TRUE

\* the branch is swapped only if it is still the head that was read
BranchIs(k, old) == head[k] = old

\* commits the candidate on top of main and moves the branch to it
WriterCommit ==
    /\ At("writer", "commit")
    /\ IF ~BranchIs(Me.kind, job.old) THEN End("failure", None) /\ UNCHANGED git
       ELSE /\ commits' = Append(commits, Commit(Me.kind, Me.sha, None, job.tree))
            /\ MoveBranch(Me.kind, NextCommit)
            /\ job' = [job EXCEPT !.pc = "verify", !.out = NextCommit]
            /\ UNCHANGED <<main, trunk, runs>>
    /\ UNCHANGED <<ci, rec, release, protect, chaos>>

\* checks the diff and main again; the data writer lists pull requests here
WriterVerify ==
    /\ At("writer", "verify")
    /\ IF main # Me.sha THEN End("failure", None)
       ELSE /\ job' = [job EXCEPT !.pc = "pr", !.pr = IF Me.kind = "data" THEN OpenPr("data") ELSE @]
            /\ UNCHANGED runs
    /\ UNCHANGED <<git, ci, rec, release, protect, chaos>>

Body == [base |-> Me.sha, tree |-> job.tree]

AfterPr == IF Me.kind = "release" THEN "dispatchlease" ELSE "dispatch"

\* rewrites the pull request that was listed, or opens one
WriterPr ==
    /\ At("writer", "pr")
    /\ IF job.pr # None
       THEN prs' = [prs EXCEPT ![job.pr].body = Body] /\ Go(AfterPr)
       ELSE IF OpenPr(Me.kind) # None
       THEN End("failure", None) /\ UNCHANGED prs
       ELSE /\ prs' = Append(prs, [kind |-> Me.kind, head |-> None, base |-> main, st |-> "open",
                                   body |-> Body, merge |-> None])
            /\ Go(AfterPr)
    /\ UNCHANGED <<commits, main, trunk, head, ci, rec, release, protect, chaos>>

\* Mutant: the head of the dispatched run is not verified.
RunIsOfAnyHead(i) == TRUE

\* the dispatched run must be of the commit that was written
RunIsOfHead(i) == ci'[i].head = job.out

\* dispatches CI on the branch and checks the head of the run it got
WriterDispatch ==
    /\ At("writer", "dispatch")
    /\ ci' = Append(ci, [kind |-> Me.kind, head |-> head[Me.kind], want |-> job.out,
                         base |-> Me.sha, st |-> "running", told |-> FALSE])
    /\ IF RunIsOfHead(Len(ci')) THEN End("success", job.out) ELSE End("failure", None)
    /\ UNCHANGED <<git, rec, release, protect, chaos>>

(***************************************************************************)
(* CI, and the event that wakes a controller when it completes.            *)
(***************************************************************************)
CiFinish(i, st) ==
    /\ ci[i].st = "running"
    /\ st = "success" => ci[i].head = ci[i].want
    /\ ci' = [ci EXCEPT ![i].st = st]
    /\ UNCHANGED <<git, runs, job, rec, release, protect, chaos>>

CiWakes(i) ==
    /\ ci[i].st # "running" /\ ~ci[i].told
    /\ ci' = [ci EXCEPT ![i].told = TRUE]
    /\ Enqueue(Run("controller", ci[i].kind, i, None, ci[i].kind \in Automatic, "event"))
    /\ UNCHANGED <<git, job, rec, release, protect, chaos>>

(***************************************************************************)
(* The controllers.  One is for exactly one CI run, and goes on only while *)
(* the pull request, its head and its base are those that run tested.      *)
(***************************************************************************)
Bound == ci[Me.ci]

Exact(p) ==
    p # None /\ prs[p].st = "open" /\ PrHead(p) = Bound.head /\ prs[p].base = Bound.base

\* Mutant: the publication of the previous version is not looked for.
EligibleUnpublished(p) ==
    IF Bound.kind = "data" THEN prs[p].body = [base |-> Bound.base, tree |-> Tree(Bound.head)]
    ELSE Me.apply => commits[Bound.head].ver = LatestTag.ver + 1

\* a data body names the candidate; a release is the patch after a published pair
Eligible(p) ==
    IF Bound.kind = "data" THEN prs[p].body = [base |-> Bound.base, tree |-> Tree(Bound.head)]
    ELSE Me.apply => /\ commits[Bound.head].ver = LatestTag.ver + 1
                     /\ LatestTag.ver \in published

\* no job of the workflow runs for a CI run that did not succeed
ControllerSkip ==
    /\ At("controller", "resolve")
    /\ Bound.st # "success"
    /\ End("skipped", None)
    /\ UNCHANGED <<git, ci, rec, release, protect, chaos>>

ControllerResolve ==
    LET p == IF Me.pr # None THEN Me.pr ELSE OpenPr(Bound.kind) IN
    /\ At("controller", "resolve")
    /\ Bound.st = "success"
    /\ IF ~Exact(p) \/ ~Eligible(p) THEN End("failure", None)
       ELSE IF ~Me.apply THEN End("success", None)
       ELSE job' = [job EXCEPT !.pc = "check", !.pr = p] /\ UNCHANGED runs
    /\ UNCHANGED <<git, ci, rec, release, protect, chaos>>

\* the last reads before the merge: the pull request, the branch policy, then main
ControllerCheck ==
    /\ At("controller", "check")
    /\ IF Exact(job.pr) THEN Go("policy") ELSE End("failure", None)
    /\ UNCHANGED <<git, ci, rec, release, protect, chaos>>

ControllerPolicy ==
    /\ At("controller", "policy")
    /\ IF protect THEN Go("main") ELSE End("failure", None)
    /\ UNCHANGED <<git, ci, rec, release, protect, chaos>>

ControllerMain ==
    LET next == IF Bound.kind = "data" THEN "again" ELSE "merge" IN
    /\ At("controller", "main")
    /\ IF main = Bound.base THEN Go(next) ELSE End("failure", None)
    /\ UNCHANGED <<git, ci, rec, release, protect, chaos>>

\* the data controller reads main once more after the tree of the head
ControllerAgain ==
    /\ At("controller", "again")
    /\ IF main = Bound.base THEN Go("merge") ELSE End("failure", None)
    /\ UNCHANGED <<git, ci, rec, release, protect, chaos>>

ControllerMerge ==
    LET h == Bound.head IN
    /\ At("controller", "merge")
    /\ IF ~Mergeable(job.pr, h) THEN End("failure", None) /\ UNCHANGED git
       ELSE /\ commits' = Append(commits, Commit("merge", main, h, MergedTree(h)))
            /\ main' = NextCommit
            /\ trunk' = trunk \cup {NextCommit}
            /\ prs' = [prs EXCEPT ![job.pr].st = "merged", ![job.pr].head = h,
                                  ![job.pr].merge = NextCommit]
            /\ job' = [job EXCEPT !.pc = "verify", !.out = NextCommit]
            /\ UNCHANGED <<head, runs>>
    /\ UNCHANGED <<ci, rec, release, protect, chaos>>

\* Mutant: only main is read after the merge.
IsOnMain(m) == main = m

\* the merge is of the tested base and head, and its tree is the tested tree
IsVerified(m) ==
    /\ commits[m].parent = Bound.base /\ commits[m].second = Bound.head
    /\ Tree(m) = Tree(Bound.head)
    /\ main = m

ControllerVerify ==
    /\ At("controller", "verify")
    /\ IF ~IsVerified(job.out) THEN End("failure", job.out)
       ELSE IF Bound.kind = "data" THEN End("success", job.out)
       ELSE Go("tagcheck")
    /\ UNCHANGED <<git, ci, rec, release, protect, chaos>>

Version == commits[Bound.head].ver
Tagged(v) == \E t \in tags : t.ver = v

\* the pair of tags must not exist, and main must still be the merge
ControllerTagCheck ==
    /\ At("controller", "tagcheck")
    /\ IF Tagged(Version) \/ main # job.out THEN End("failure", job.out) ELSE Go("push")
    /\ UNCHANGED <<git, ci, rec, release, protect, chaos>>

\* Mutant: the tags are pushed with force.
ControllerForceTags ==
    /\ At("controller", "push")
    /\ tags' = tags \cup {[ver |-> Version, commit |-> job.out]} /\ Go("release")
    /\ UNCHANGED <<git, ci, rec, published, dispatched, protect, chaos>>

\* both tags or none: the remote refuses a push that would move one
ControllerPushTags ==
    /\ At("controller", "push")
    /\ IF Tagged(Version) THEN End("failure", job.out) /\ UNCHANGED tags
       ELSE tags' = tags \cup {[ver |-> Version, commit |-> job.out]} /\ Go("release")
    /\ UNCHANGED <<git, ci, rec, published, dispatched, protect, chaos>>

ControllerDispatchRelease ==
    /\ At("controller", "release")
    /\ dispatched' = dispatched \cup {Version}
    /\ End("success", job.out)
    /\ UNCHANGED <<git, ci, rec, tags, published, protect, chaos>>

(***************************************************************************)
(* The reconciler: bound to the commit main pointed to when it started, it *)
(* reads everything one request at a time and then everything again.       *)
(***************************************************************************)
\* the newest CI run of the head of an open, current pull request of the bot
CandidateOf(k, sha) ==
    LET p == OpenPr(k)
        h == head[k]
        i == NewestOf({j \in DOMAIN ci : ci[j].kind = k /\ ci[j].head = h})
    IN IF /\ p # None /\ prs[p].base = sha
          /\ ManagedBy(h) = k /\ commits[h].parent = sha
          /\ i # None /\ ci[i].st = "success"
       THEN [pr |-> p, ci |-> i, head |-> h] ELSE NoCandidate

\* every run of the two controller workflows; the daily writer has one of its own
Active == {i \in DOMAIN runs : /\ runs[i].st \in {"queued", "running"}
                               /\ runs[i].what = "controller" \/ runs[i].kind = "release"}

\* the runs named after this CI run
ControllersOf(i) == {j \in DOMAIN runs : /\ runs[j].what = "controller" /\ runs[j].ci = i
                                         /\ runs[j].apply = (ci[i].kind \in Automatic)}

\* Mutant: any controller that is not active may be dispatched again.
MayRetryCompleted(j) == j = None \/ runs[j].st \notin {"queued", "running"}

\* only a controller none of whose jobs ran may be dispatched again
MayRetry(j) == j = None \/ runs[j].st = "skipped"
Wanted(i) == MayRetry(NewestOf(ControllersOf(i)))

RecAt(pc) == rec.pc = pc
RecGo(pc) == rec' = [rec EXCEPT !.pc = pc]
RecOrStop(ok, pc) == IF ok THEN RecGo(pc) ELSE rec' = IdleRec
Reads == UNCHANGED <<git, ci, runs, job, release, protect, chaos>>

RecStart == Polling /\ RecAt("idle") /\ rec' = [IdleRec EXCEPT !.pc = "main", !.sha = main] /\ Reads
RecMain  == RecAt("main") /\ RecOrStop(main = rec.sha, "data") /\ Reads

RecCandidate(k) ==
    /\ RecAt(k)
    /\ rec' = [rec EXCEPT !.cand[k] = CandidateOf(k, rec.sha),
                          !.pc = IF k = "data" THEN "release" ELSE "controllers"]
    /\ Reads

\* Mutant: a data candidate is chosen before its controllers are looked at.
ChoiceOfFirst ==
    LET k == IF rec.cand["data"] # NoCandidate THEN "data" ELSE "release"
    IN IF rec.cand[k] # NoCandidate /\ Wanted(rec.cand[k].ci) THEN k ELSE "none"

\* data goes first
Choice ==
    LET wanted(k) == rec.cand[k] # NoCandidate /\ Wanted(rec.cand[k].ci)
    IN IF wanted("data") THEN "data" ELSE IF wanted("release") THEN "release" ELSE "none"

RecControllers ==
    /\ RecAt("controllers")
    /\ IF Active # {} \/ Choice = "none" THEN rec' = IdleRec
       ELSE rec' = [rec EXCEPT !.pc = "recheck", !.pick = Choice]
    /\ Reads

Picked == rec.cand[rec.pick]

RecRecheck ==
    RecAt("recheck") /\ RecOrStop(CandidateOf(rec.pick, rec.sha) = Picked, "last") /\ Reads

RecLast ==
    RecAt("last") /\ RecOrStop(Active = {} /\ Wanted(Picked.ci), "lease") /\ Reads

RecLease == RecAt("lease") /\ RecOrStop(main = rec.sha, "dispatch") /\ Reads

RecDispatch ==
    /\ RecAt("dispatch")
    /\ Enqueue(Run("controller", rec.pick, Picked.ci, Picked.pr, rec.pick \in Automatic, "reconcile"))
    /\ rec' = IdleRec
    /\ UNCHANGED <<git, ci, job, release, protect, chaos>>

(***************************************************************************)
(* Everybody else.                                                         *)
(***************************************************************************)
Chaos == chaos < MaxChaos /\ chaos' = chaos + 1

HumanPushMain(cat) ==
    /\ Chaos
    /\ cat \in Catalogs \cup {commits[main].cat}
    /\ commits' = Append(commits, Commit("human", main, None, <<cat, commits[main].ver>>))
    /\ main' = NextCommit
    /\ trunk' = trunk \cup {NextCommit}
    /\ UNCHANGED <<head, prs, ci, runs, job, rec, release, protect>>

\* a person amends the commit of a bot branch
HumanPushBranch(k) ==
    /\ Chaos
    /\ head[k] # None /\ commits[head[k]].by # "human"
    /\ commits' = Append(commits, Commit("human", commits[head[k]].parent, None, Tree(head[k])))
    /\ MoveBranch(k, NextCommit)
    /\ UNCHANGED <<main, trunk, ci, runs, job, rec, release, protect>>

HumanClosesPr(k) ==
    /\ Chaos
    /\ OpenPr(k) # None
    /\ prs' = [prs EXCEPT ![OpenPr(k)].st = "closed", ![OpenPr(k)].head = head[k]]
    /\ UNCHANGED <<commits, main, trunk, head, ci, runs, job, rec, release, protect>>

ToggleProtection ==
    /\ Chaos
    /\ protect' = ~protect
    /\ UNCHANGED <<git, ci, runs, job, rec, release>>

\* the runner is lost, or the job times out
Crash ==
    /\ Chaos
    /\ job # NoJob
    /\ End("failure", job.out)
    /\ UNCHANGED <<git, ci, rec, release, protect>>

\* the documented release by hand: the tip of main, at a version not yet tagged
HumanTags ==
    /\ Chaos
    /\ ~Tagged(commits[main].ver)
    /\ tags' = tags \cup {[ver |-> commits[main].ver, commit |-> main]}
    /\ dispatched' = dispatched \cup {commits[main].ver}
    /\ UNCHANGED <<git, ci, runs, job, rec, published, protect>>

Publishes(v) ==
    /\ v \in dispatched \ published
    /\ published' = published \cup {v}
    /\ UNCHANGED <<git, ci, runs, job, rec, tags, dispatched, protect, chaos>>

(***************************************************************************)
(* The first release is tagged and published; main may have moved on, and  *)
(* the branch of the observer the data writer replaced may still exist.    *)
(***************************************************************************)
Root(cat) == Commit("human", None, None, <<cat, 1>>)
LegacyPr(st) == [kind |-> "data", head |-> IF st = "open" THEN None ELSE 2, base |-> 1, st |-> st,
                 body |-> [base |-> 1, tree |-> <<1, 1>>], merge |-> IF st = "merged" THEN 3 ELSE None]

Fresh ==
    /\ commits = <<Root(1)>> /\ main = 1 /\ trunk = {1}
    /\ head = [k \in AllKinds |-> None] /\ prs = <<>>

\* a data merge that no release has shipped yet
Ahead ==
    /\ commits = <<Root(1), Commit("human", 1, None, <<2, 1>>)>> /\ main = 2 /\ trunk = {1, 2}
    /\ head = [k \in AllKinds |-> None] /\ prs = <<>>

Legacy ==
    \E st \in {"merged", "open"} :
        /\ commits = <<Root(1), Commit("legacy", 1, None, <<1, 1>>), Commit("merge", 1, 2, <<1, 1>>)>>
        /\ main = (IF st = "merged" THEN 3 ELSE 1)
        /\ trunk = (IF st = "merged" THEN {1, 3} ELSE {1})
        /\ head = [data |-> 2, release |-> None]
        /\ prs = <<LegacyPr(st)>>

Init ==
    /\ Fresh \/ Ahead \/ Legacy
    /\ ci = <<>> /\ runs = <<>> /\ job = NoJob /\ rec = IdleRec
    /\ tags = {[ver |-> 1, commit |-> 1]} /\ published = {1} /\ dispatched = {1}
    /\ protect = TRUE /\ chaos = 0

Writer ==
    \/ \E cat \in Catalogs \cup {c.cat : c \in {commits[i] : i \in DOMAIN commits}} : WriterLease(cat)
    \/ WriterBranch \/ WriterLeaseAgain \/ WriterCommit \/ WriterVerify \/ WriterPr \/ WriterDispatch

Controller ==
    \/ ControllerSkip \/ ControllerResolve \/ ControllerCheck \/ ControllerPolicy
    \/ ControllerMain \/ ControllerAgain \/ ControllerMerge \/ ControllerVerify
    \/ ControllerTagCheck \/ ControllerPushTags \/ ControllerDispatchRelease

Reconciler ==
    \/ RecStart \/ RecMain \/ (\E k \in AllKinds : RecCandidate(k)) \/ RecControllers
    \/ RecRecheck \/ RecLast \/ RecLease \/ RecDispatch

GitHub ==
    \/ \E i \in DOMAIN runs : StartRun(i)
    \/ \E i \in DOMAIN ci : CiWakes(i) \/ \E st \in {"success", "failure"} : CiFinish(i, st)

People ==
    \/ \E cat \in Catalogs \cup {commits[main].cat} : HumanPushMain(cat)
    \/ \E k \in AllKinds : HumanPushBranch(k) \/ HumanClosesPr(k)
    \/ ToggleProtection \/ Crash \/ HumanTags
    \/ \E v \in dispatched : Publishes(v)

Next == (\E k \in Kinds : Trigger(k)) \/ Writer \/ Controller \/ Reconciler \/ GitHub \/ People

Spec == Init /\ [][Next]_vars

\* GitHub starts what is queued, a started job ends, and the schedule goes on.
\* Completion events may be lost, and nothing makes people or CI do anything.
Fairness ==
    /\ WF_vars(Writer) /\ WF_vars(Controller) /\ WF_vars(Reconciler)
    /\ WF_vars(\E i \in DOMAIN runs : StartRun(i))

LiveSpec == Spec /\ Fairness

-----------------------------------------------------------------------------
(* Properties *)

CommitIds == DOMAIN commits
Versions  == {commits[c].ver : c \in CommitIds}
RunStates == {"queued", "running", "success", "failure", "cancelled", "skipped"}
Pcs       == {"idle", "lease", "branch", "commitlease", "commit", "verify", "pr", "dispatchlease",
              "dispatch", "resolve", "check", "policy", "main", "again", "merge", "tagcheck", "push",
              "release"}

\* every number names a thing that exists, and the lease is the running run's
TypeOK ==
    /\ main \in trunk /\ trunk \subseteq CommitIds
    /\ \A c \in CommitIds : /\ commits[c].by \in AllKinds \cup {"human", "legacy", "merge"}
                            /\ {commits[c].parent, commits[c].second} \subseteq 0..(c - 1)
    /\ head \in [AllKinds -> CommitIds \cup {None}]
    /\ \A p \in DOMAIN prs : /\ prs[p].kind \in AllKinds
                             /\ prs[p].st \in {"open", "merged", "closed"}
                             /\ PrHead(p) \in CommitIds /\ prs[p].base \in trunk
                             /\ (prs[p].st = "merged") = (prs[p].merge \in trunk)
    /\ \A i \in DOMAIN ci : /\ ci[i].head \in CommitIds /\ ci[i].want \in CommitIds
                            /\ ci[i].base \in trunk /\ ci[i].st \in {"running", "success", "failure"}
    /\ \A i \in DOMAIN runs : /\ runs[i].sha \in trunk /\ runs[i].st \in RunStates
                              /\ (runs[i].what = "controller") = (runs[i].ci \in DOMAIN ci)
                              /\ (runs[i].st = "running") = (job.run = i)
    /\ job.pc \in Pcs /\ job.old \in CommitIds \cup {None} /\ job.out \in CommitIds \cup {None}
    /\ job.pr \in DOMAIN prs \cup {None}
    /\ rec.sha \in trunk \cup {None} /\ rec.pick \in AllKinds \cup {"none"}
    /\ \A k \in AllKinds : rec.cand[k].ci \in DOMAIN ci \cup {None}
    /\ \A t \in tags : t.ver \in Versions /\ t.commit \in trunk
    /\ published \subseteq dispatched /\ dispatched \subseteq Versions
    /\ protect \in BOOLEAN /\ chaos \in 0..MaxChaos

\* A controller that reports a merge put on main exactly what CI tested: the
\* merge of the tested base and the tested head, which the bot built on that
\* base, with the tested tree; whatever people did meanwhile.
VerifiedMerges ==
    \A i \in DOMAIN runs :
        (runs[i].what = "controller" /\ runs[i].st = "success" /\ runs[i].out # None) =>
            LET m == commits[runs[i].out]
                c == ci[runs[i].ci]
            IN /\ c.st = "success" /\ m.parent = c.base /\ m.second = c.head
               /\ Tree(runs[i].out) = Tree(c.head)
               /\ ManagedBy(c.head) = c.kind /\ commits[c.head].parent = c.base

\* A commit a person puts on a bot branch is never replaced by a writer,
\* also when it arrives after the writer has looked at the branch.
HumanWorkSurvives ==
    [][\A k \in AllKinds : (head[k] # None /\ commits[head[k]].by = "human") => head'[k] = head[k]]_vars

\* A writer that succeeds with a candidate leaves a CI run of exactly that
\* commit: the bot's, on top of the commit the run is bound to; also when it
\* resumes after a run that stopped half-way or races with a push.
WriterDelivers ==
    \A i \in Writers :
        (runs[i].st = "success" /\ runs[i].out # None) =>
            /\ ManagedBy(runs[i].out) = runs[i].kind /\ commits[runs[i].out].parent = runs[i].sha
            /\ \E j \in DOMAIN ci : /\ ci[j].kind = runs[i].kind /\ ci[j].base = runs[i].sha
                                    /\ ci[j].head = runs[i].out /\ ci[j].want = runs[i].out

\* A release controller that succeeds has tagged its own merge and dispatched
\* the publication of that version, after the previous version was published.
ReleaseDelivers ==
    \A i \in DOMAIN runs :
        (runs[i].what = "controller" /\ runs[i].kind = "release" /\ runs[i].apply /\ runs[i].st = "success") =>
            LET v == commits[runs[i].out].ver
            IN /\ [ver |-> v, commit |-> runs[i].out] \in tags
               /\ v \in dispatched /\ v - 1 \in published

\* A version is tagged once, and a later version on a later commit of main,
\* also when an operator tags by hand what a controller is about to tag.
TagsFollowMain ==
    \A t, u \in tags : /\ t.ver = u.ver => t = u
                       /\ t.ver < u.ver => t.commit < u.commit

\* The reconciler dispatches the controller of a CI run at most once: a
\* controller that failed or already verified is left to a person.
DispatchOnce ==
    \A i, j \in DOMAIN runs :
        (runs[i].by = "reconcile" /\ runs[j].by = "reconcile" /\ runs[i].ci = runs[j].ci) => i = j

CiIds == 1..MaxWriters
Ready(i) == \E k \in AllKinds : CandidateOf(k, main).ci = i

\* A green candidate that stays current gets its controller run, even when
\* the event of its CI is lost and the other kind's candidate is blocked.
GreenIsPickedUp ==
    \A i \in CiIds : Ready(i) ~> (~Ready(i) \/ ControllersOf(i) # {})

\* The runbook's claim for the poller: a fallback for missed callbacks.  The
\* controller of a green candidate that stays current not only exists, one starts.
GreenIsHandled ==
    \A i \in CiIds : Ready(i) ~> (~Ready(i) \/ \E j \in ControllersOf(i) : runs[j].st # "cancelled")

=============================================================================
