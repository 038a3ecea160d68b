-------------------------- MODULE Maintenance_proofs --------------------------
(***************************************************************************)
(* Proofs about the maintenance pull requests, for every number of writer  *)
(* runs, of human acts and of crashes: what the writers, the controllers   *)
(* and the reconciler deliver when they report success.  The jobs act on   *)
(* reads that may be out of date, so the invariant says, for each place of *)
(* a job, what it has established that nobody can take back: commits, CI   *)
(* results, tags and publications only ever grow.                          *)
(***************************************************************************)
EXTENDS Maintenance, FiniteSetTheorems, WellFoundedInduction, TLAPS

Pairs == Nat \X Nat
CommitT == [by : AllKinds \cup {"human", "legacy", "merge"}, parent : Nat, second : Nat,
            cat : Nat, ver : Nat]
PrT == [kind : AllKinds, head : Nat, base : Nat, st : {"open", "merged", "closed"},
        body : [base : Nat, tree : Pairs], merge : Nat]
CiT == [kind : AllKinds, head : Nat, want : Nat, base : Nat,
        st : {"running", "success", "failure"}, told : BOOLEAN]
RunT == [what : {"writer", "controller"}, kind : AllKinds, sha : Nat, ci : Nat, pr : Nat,
         apply : BOOLEAN, by : {"schedule", "event", "reconcile"}, st : RunStates, out : Nat]
JobT == [run : Nat, pc : Pcs, old : Nat, pr : Nat, out : Nat, tree : Pairs]
CandidateT == [pr : Nat, ci : Nat, head : Nat]
RecPcs == {"idle", "main", "data", "release", "controllers", "recheck", "last", "lease",
           "dispatch"}
RecT == [pc : RecPcs, sha : Nat, cand : [AllKinds -> CandidateT],
         pick : AllKinds \cup {"none"}]

\* The shape of the state: what TypeOK says of numbers is said of these records.
Shapes ==
  /\ commits \in Seq(CommitT) /\ prs \in Seq(PrT) /\ ci \in Seq(CiT) /\ runs \in Seq(RunT)
  /\ main \in Nat /\ head \in [AllKinds -> Nat] /\ job \in JobT /\ rec \in RecT
  /\ tags \subseteq [ver : Nat, commit : Nat]

Bot(c, k, base) == c \in DOMAIN commits /\ commits[c].by = k /\ commits[c].parent = base
Human(c) == c \in DOMAIN commits /\ commits[c].by = "human"

(* Main only moves to new commits, and its version never goes back: a data *)
(* candidate keeps the version of its base.                                *)
Trunk ==
  /\ main \in trunk /\ trunk \subseteq DOMAIN commits
  /\ \A a \in trunk : a <= main
  /\ \A a, b \in trunk : a <= b => commits[a].ver <= commits[b].ver
  /\ \A c \in DOMAIN commits :
       /\ commits[c].parent < c /\ commits[c].second < c
       /\ commits[c].by = "data" =>
            commits[c].parent \in trunk /\ commits[commits[c].parent].ver = commits[c].ver

(* Tags name commits of main by their version, one behind main at most.    *)
Tags ==
  /\ \A t \in tags : t.commit \in trunk /\ commits[t.commit].ver = t.ver
  /\ \A t, u \in tags : t.ver = u.ver => t = u
  /\ \E t \in tags : \A u \in tags : u.ver <= t.ver
  /\ \E t \in tags : commits[main].ver <= t.ver + 1
  /\ published \subseteq dispatched
  /\ \A v \in dispatched : \E c \in DOMAIN commits : commits[c].ver = v

(* Pull requests: one that is open has a branch.                           *)
Pulls ==
  /\ \A k \in AllKinds : head[k] \in DOMAIN commits \cup {None}
  /\ \A p \in DOMAIN prs :
       /\ prs[p].base \in trunk
       /\ IF prs[p].st = "open" THEN head[prs[p].kind] # None
                                ELSE prs[p].head \in DOMAIN commits
       /\ IF prs[p].st = "merged" THEN prs[p].merge \in trunk ELSE prs[p].merge = None

(* CI: a run was asked for the bot's commit, and runs on that or on a      *)
(* commit a person has put in its place; only the former succeeds.         *)
Checks ==
  \A i \in DOMAIN ci :
    /\ ci[i].base \in trunk
    /\ Bot(ci[i].want, ci[i].kind, ci[i].base)
    /\ ci[i].head = ci[i].want \/ Human(ci[i].head)
    /\ ci[i].st = "success" => ci[i].head = ci[i].want

(* The runs: a controller is for a CI run that has ended, and is skipped   *)
(* only when that one failed; the reconciler picks none that failed.       *)
Fits(r, past, pulls, checks) ==
  /\ r.sha \in past /\ r.pr \in DOMAIN pulls \cup {None}
  /\ r.what = "writer" => r.ci = None /\ r.by = "schedule"
  /\ r.what = "controller" =>
       /\ r.ci \in DOMAIN checks
       /\ r.kind = checks[r.ci].kind /\ checks[r.ci].st # "running"
       /\ r.st = "skipped" => checks[r.ci].st # "success"
       /\ r.by = "reconcile" => /\ r.apply = (r.kind \in Automatic)
                                /\ checks[r.ci].st = "success"

Runs ==
  \A i \in DOMAIN runs : /\ Fits(runs[i], trunk, prs, ci)
                         /\ runs[i].st = "running" <=> job.run = i

WriterPcs ==
  {"lease", "branch", "commitlease", "commit", "verify", "pr", "dispatchlease", "dispatch"}
ControllerPcs ==
  {"resolve", "check", "policy", "main", "again", "merge", "verify", "tagcheck", "push",
   "release"}

(* The job is that of a run, and each kind of run has its own places.      *)
Job ==
  /\ job.run = None => job = NoJob
  /\ job.run # None => /\ job.run \in DOMAIN runs
                       /\ Me.what = "writer" => job.pc \in WriterPcs
                       /\ Me.what = "controller" => job.pc \in ControllerPcs
  /\ job.old \in DOMAIN commits \cup {None} /\ job.out \in DOMAIN commits \cup {None}
  /\ job.pr \in DOMAIN prs \cup {None}

(* What a writer has established: nobody owns the branch it is about to    *)
(* replace, and what it wrote is at the head unless a person replaced it.  *)
Writing ==
  job.run # None /\ Me.what = "writer" =>
    /\ job.pc \in {"branch", "commitlease", "commit"} /\ Me.kind = "data" =>
         job.tree[2] = commits[Me.sha].ver
    /\ job.pc \in {"commitlease", "commit"} => job.old = None \/ commits[job.old].by # "human"
    /\ job.pc \in {"verify", "pr", "dispatchlease", "dispatch"} =>
         /\ Bot(job.out, Me.kind, Me.sha)
         /\ head[Me.kind] = job.out \/ Human(head[Me.kind])

Release == Me.kind = "release"

(* What a controller has established.  The version it is about to publish  *)
(* is the successor of a published one, and not behind main's.             *)
Controlling ==
  job.run # None /\ Me.what = "controller" /\ job.pc # "resolve" =>
    /\ Me.apply /\ Bound.st = "success"
    /\ Release => Version - 1 \in published
    /\ job.pc \in {"check", "policy", "main", "again", "merge"} =>
         /\ job.pr # None
         /\ Release => /\ commits[main].ver <= Version
                       /\ \E t \in tags : Version <= t.ver + 1
    /\ job.pc \in {"verify", "tagcheck", "push", "release"} => job.out \in trunk
    /\ job.pc \in {"tagcheck", "push", "release"} =>
         /\ Release
         /\ commits[job.out].parent = Bound.base /\ commits[job.out].second = Bound.head
         /\ Tree(job.out) = Tree(Bound.head)
    /\ job.pc = "release" => [ver |-> Version, commit |-> job.out] \in tags

(* The reconciler: its candidates are green, and once it has looked for    *)
(* controllers the last time, nobody but itself dispatches one in its name.*)
Reconciling ==
  /\ rec.sha \in trunk \cup {None}
  /\ \A k \in AllKinds : rec.cand[k] # NoCandidate =>
       /\ rec.cand[k].pr \in DOMAIN prs /\ rec.cand[k].ci \in DOMAIN ci
       /\ ci[rec.cand[k].ci].kind = k /\ ci[rec.cand[k].ci].st = "success"
  /\ rec.pc \in {"recheck", "last", "lease", "dispatch"} =>
       rec.pick \in AllKinds /\ Picked # NoCandidate
  /\ rec.pc \in {"lease", "dispatch"} =>
       \A i \in DOMAIN runs : runs[i].by = "reconcile" => runs[i].ci # Picked.ci

Bounds == protect \in BOOLEAN /\ chaos \in 0..MaxChaos

State == Shapes /\ Trunk /\ Tags /\ Pulls /\ Checks /\ Runs /\ Job /\ Bounds
Progress == Writing /\ Controlling /\ Reconciling

(* What the runs that succeeded have promised, one run at a time.          *)
VerifiedAt(i) ==
  (runs[i].what = "controller" /\ runs[i].st = "success" /\ runs[i].out # None) =>
    LET m == commits[runs[i].out]
        c == ci[runs[i].ci]
    IN /\ c.st = "success" /\ m.parent = c.base /\ m.second = c.head
       /\ Tree(runs[i].out) = Tree(c.head)
       /\ ManagedBy(c.head) = c.kind /\ commits[c.head].parent = c.base

DeliveredAt(i) ==
  (runs[i].what = "writer" /\ runs[i].st = "success" /\ runs[i].out # None) =>
    /\ ManagedBy(runs[i].out) = runs[i].kind /\ commits[runs[i].out].parent = runs[i].sha
    /\ \E j \in DOMAIN ci : /\ ci[j].kind = runs[i].kind /\ ci[j].base = runs[i].sha
                            /\ ci[j].head = runs[i].out /\ ci[j].want = runs[i].out

ReleasedAt(i) ==
  (/\ runs[i].what = "controller" /\ runs[i].kind = "release" /\ runs[i].apply
   /\ runs[i].st = "success") =>
    LET v == commits[runs[i].out].ver
    IN /\ [ver |-> v, commit |-> runs[i].out] \in tags
       /\ v \in dispatched /\ v - 1 \in published

Fulfilled(i) == /\ runs[i].st = "success" => runs[i].out \in DOMAIN commits \cup {None}
                /\ VerifiedAt(i) /\ DeliveredAt(i) /\ ReleasedAt(i)

Promises == (\A i \in DOMAIN runs : Fulfilled(i)) /\ DispatchOnce

IInv == State /\ Progress /\ Promises
-------------------------------------------------------------------------------

(* Facts about the operators of the model.                                 *)

\* The newest of some numbers is one of them, and there is none when there are none.
LEMMA NewestIs ==
  ASSUME NEW n \in Nat, NEW S, S \subseteq 1..n
  PROVE  /\ S = {} => NewestOf(S) = None
         /\ S # {} => NewestOf(S) \in S
<1>1. CASE S = {}
  BY <1>1 DEF NewestOf
<1>2. CASE S # {}
  <2> DEFINE T == {n - x : x \in S}
             Below == {ss \in Nat \X Nat : ss[1] < ss[2]}
  <2>1. IsWellFoundedOn(Below, Nat)
    BY NatLessThanWellFounded DEF OpToRel
  <2>2. T \subseteq Nat /\ T # {}
    <3>1. \A x \in S : n - x \in Nat
      OBVIOUS
    <3>2. T # {}
      BY <1>2
    <3> QED
      BY <3>1, <3>2
  <2>3. PICK y \in T : \A z \in T : ~ (<<z, y>> \in Below)
    <3> HIDE DEF T, Below
    <3> QED
      BY <2>1, <2>2, WFMin
  <2>4. PICK x \in S : y = n - x
    BY <2>3
  <2>5. ASSUME NEW z \in S
        PROVE  x >= z
    <3>1. n - z \in T /\ n - z \in Nat /\ y \in Nat
      BY <2>2, <2>3
    <3>2. ~ (n - z < y)
      BY <2>3, <3>1
    <3> QED
      BY <2>4, <3>2
  <2>6. Max(S) \in S
    BY <2>5 DEF Max
  <2> QED
    BY <1>2, <2>6 DEF NewestOf
<1> QED
  BY <1>1, <1>2

\* A function on an initial segment of the numbers is a sequence.
LEMMA SequenceOf ==
  ASSUME NEW T, NEW n \in Nat, NEW f \in [1..n -> T]
  PROVE  f \in Seq(T) /\ Len(f) = n /\ DOMAIN f = 1..n
OBVIOUS

\* Appending keeps what was there.
LEMMA AppendKeeps ==
  ASSUME NEW T, NEW s \in Seq(T), NEW x \in T
  PROVE  /\ Append(s, x) \in Seq(T)
         /\ DOMAIN Append(s, x) = DOMAIN s \cup {Len(s) + 1}
         /\ Append(s, x)[Len(s) + 1] = x /\ Len(Append(s, x)) = Len(s) + 1
         /\ \A i \in DOMAIN s : Append(s, x)[i] = s[i]
OBVIOUS

\* Replacing one element leaves the others.
LEMMA ReplaceKeeps ==
  ASSUME NEW T, NEW s \in Seq(T), NEW i \in DOMAIN s, NEW x \in T
  PROVE  /\ [s EXCEPT ![i] = x] \in Seq(T)
         /\ DOMAIN [s EXCEPT ![i] = x] = DOMAIN s /\ Len([s EXCEPT ![i] = x]) = Len(s)
         /\ [s EXCEPT ![i] = x][i] = x
         /\ \A j \in DOMAIN s : j # i => [s EXCEPT ![i] = x][j] = s[j]
OBVIOUS

\* The open pull request of a kind, when there is one.
LEMMA OpenPrIs ==
  ASSUME Shapes, NEW k
  PROVE  \/ OpenPr(k) = None
         \/ OpenPr(k) \in DOMAIN prs /\ prs[OpenPr(k)].kind = k /\ prs[OpenPr(k)].st = "open"
<1> DEFINE S == {p \in DOMAIN prs : prs[p].kind = k /\ prs[p].st = "open"}
<1>1. S \subseteq 1..Len(prs) /\ Len(prs) \in Nat
  BY DEF Shapes
<1>2. OpenPr(k) = NewestOf(S)
  BY DEF OpenPr
<1> QED
  BY <1>1, <1>2, NewestIs

\* It is a number in any case.
LEMMA OpenPrNumber ==
  ASSUME Shapes, NEW k
  PROVE  OpenPr(k) \in Nat
<1>1. DOMAIN prs \subseteq Nat /\ None \in Nat
  BY DEF Shapes, None
<1> QED
  BY <1>1, OpenPrIs

\* A candidate is that of an open pull request and of a CI run that succeeded.
LEMMA CandidateIs ==
  ASSUME Shapes, NEW k \in AllKinds, NEW sha
  PROVE  /\ CandidateOf(k, sha) \in CandidateT
         /\ CandidateOf(k, sha) # NoCandidate =>
              /\ CandidateOf(k, sha).pr \in DOMAIN prs
              /\ CandidateOf(k, sha).ci \in DOMAIN ci
              /\ ci[CandidateOf(k, sha).ci].kind = k
              /\ ci[CandidateOf(k, sha).ci].st = "success"
<1> DEFINE J == {j \in DOMAIN ci : ci[j].kind = k /\ ci[j].head = head[k]}
           i == NewestOf(J)
<1>1. J \subseteq 1..Len(ci) /\ Len(ci) \in Nat
  BY DEF Shapes
<1>2. i = None \/ (i \in DOMAIN ci /\ ci[i].kind = k)
  BY <1>1, NewestIs
<1>3. \/ CandidateOf(k, sha) = NoCandidate
      \/ /\ CandidateOf(k, sha) = [pr |-> OpenPr(k), ci |-> i, head |-> head[k]]
         /\ OpenPr(k) # None /\ i # None /\ ci[i].st = "success"
  BY DEF CandidateOf
<1>4. OpenPr(k) # None => OpenPr(k) \in DOMAIN prs
  BY OpenPrIs
<1>5. head[k] \in Nat /\ DOMAIN prs \subseteq Nat /\ DOMAIN ci \subseteq Nat
  BY DEF Shapes
<1> HIDE DEF i
<1> QED
  BY <1>2, <1>3, <1>4, <1>5 DEF CandidateT, NoCandidate, None

\* The latest tag is a tag, and none is later.
LEMMA LatestTagIs ==
  ASSUME Tags
  PROVE  LatestTag \in tags /\ \A u \in tags : u.ver <= LatestTag.ver
BY DEF Tags, LatestTag

\* A run that ends is the one that holds the group; it keeps what it is.
LEMMA EndEffect ==
  ASSUME Shapes, job.run \in DOMAIN runs, NEW st \in RunStates, NEW out \in Nat, End(st, out)
  PROVE  /\ runs' \in Seq(RunT) /\ DOMAIN runs' = DOMAIN runs /\ job' = NoJob
         /\ runs'[job.run] = [runs[job.run] EXCEPT !.st = st, !.out = out]
         /\ \A i \in DOMAIN runs : i # job.run => runs'[i] = runs[i]
<1> DEFINE r == [runs[job.run] EXCEPT !.st = st, !.out = out]
<1>1. runs \in Seq(RunT)
  BY DEF Shapes
<1>2. runs[job.run] \in RunT
  BY <1>1
<1>3. r \in RunT
  BY <1>2 DEF RunT
<1>4. runs' = [runs EXCEPT ![job.run] = r] /\ job' = NoJob
  BY <1>1 DEF End
<1> HIDE DEF r
<1>5. runs' \in Seq(RunT) /\ DOMAIN runs' = DOMAIN runs
  BY <1>1, <1>3, <1>4, ReplaceKeeps
<1>6. runs'[job.run] = r /\ \A i \in DOMAIN runs : i # job.run => runs'[i] = runs[i]
  BY <1>1, <1>3, <1>4, ReplaceKeeps
<1> QED
  BY <1>4, <1>5, <1>6 DEF r

\* A run that is queued comes last, and cancels the one that waited.
LEMMA EnqueueEffect ==
  ASSUME Shapes, NEW r \in RunT, Enqueue(r)
  PROVE  /\ runs' \in Seq(RunT)
         /\ DOMAIN runs' = DOMAIN runs \cup {Len(runs) + 1} /\ Len(runs) + 1 \notin DOMAIN runs
         /\ runs'[Len(runs) + 1] = r
         /\ \A i \in DOMAIN runs :
              runs'[i] = IF runs[i].st = "queued" THEN [runs[i] EXCEPT !.st = "cancelled"]
                         ELSE runs[i]
<1> DEFINE f == [i \in DOMAIN runs |->
                   IF runs[i].st = "queued" THEN [runs[i] EXCEPT !.st = "cancelled"]
                   ELSE runs[i]]
<1>1. runs \in Seq(RunT) /\ Len(runs) \in Nat /\ DOMAIN runs = 1..Len(runs)
  BY DEF Shapes
<1>2. \A i \in DOMAIN runs : runs[i] \in RunT
  BY <1>1
<1>3. f \in [1..Len(runs) -> RunT]
  <2>1. \A x \in RunT : [x EXCEPT !.st = "cancelled"] \in RunT
    BY DEF RunT, RunStates
  <2> QED
    BY <1>1, <1>2, <2>1
<1>4. f \in Seq(RunT) /\ Len(f) = Len(runs) /\ DOMAIN f = DOMAIN runs
  BY <1>1, <1>3, SequenceOf
<1>5. runs' = Append(f, r)
  BY DEF Enqueue
<1>6. \A i \in DOMAIN runs : f[i] = IF runs[i].st = "queued"
                                    THEN [runs[i] EXCEPT !.st = "cancelled"] ELSE runs[i]
  OBVIOUS
<1> HIDE DEF f
<1> QED
  BY <1>1, <1>4, <1>5, <1>6, AppendKeeps

\* What Run makes is a run.
LEMMA RunIs ==
  ASSUME Shapes, NEW what \in {"writer", "controller"}, NEW kind \in AllKinds, NEW i \in Nat,
         NEW pr \in Nat, NEW apply \in BOOLEAN, NEW by \in {"schedule", "event", "reconcile"}
  PROVE  Run(what, kind, i, pr, apply, by) \in RunT
BY DEF Run, RunT, Shapes, None, RunStates

\* What a controller is queued as.
LEMMA ControllerRunIs ==
  ASSUME Shapes, NEW kind \in AllKinds, NEW i \in Nat, NEW pr \in Nat,
         NEW by \in {"event", "reconcile"}
  PROVE  Run("controller", kind, i, pr, kind \in Automatic, by) \in RunT
<1>1. \A b \in BOOLEAN : Run("controller", kind, i, pr, b, by) \in RunT
  BY RunIs
<1>2. (kind \in Automatic) \in BOOLEAN
  OBVIOUS
<1> QED
  BY <1>1, <1>2, Zenon

\* The fields of the job and of its run.
LEMMA JobFields ==
  ASSUME Shapes
  PROVE  /\ job.run \in Nat /\ job.pc \in Pcs /\ job.old \in Nat /\ job.pr \in Nat
         /\ job.out \in Nat /\ job.tree \in Pairs
BY DEF Shapes, JobT

\* The fields of a run.
LEMMA RunFields ==
  ASSUME Shapes, NEW i \in DOMAIN runs
  PROVE  /\ runs[i] \in RunT /\ runs[i].what \in {"writer", "controller"}
         /\ runs[i].kind \in AllKinds /\ runs[i].sha \in Nat /\ runs[i].ci \in Nat
         /\ runs[i].pr \in Nat /\ runs[i].apply \in BOOLEAN
         /\ runs[i].by \in {"schedule", "event", "reconcile"} /\ runs[i].st \in RunStates
         /\ runs[i].out \in Nat
<1>1. runs[i] \in RunT
  BY DEF Shapes
<1> QED
  BY <1>1 DEF RunT

\* The fields of a CI run.
LEMMA CiFields ==
  ASSUME Shapes, NEW i \in DOMAIN ci
  PROVE  /\ ci[i] \in CiT /\ i \in Nat /\ ci[i].kind \in AllKinds /\ ci[i].head \in Nat
         /\ ci[i].want \in Nat /\ ci[i].base \in Nat
         /\ ci[i].st \in {"running", "success", "failure"} /\ ci[i].told \in BOOLEAN
<1>1. ci[i] \in CiT /\ i \in Nat
  BY DEF Shapes
<1> QED
  BY <1>1 DEF CiT

\* The fields of a commit.
LEMMA CommitFields ==
  ASSUME Shapes, NEW c \in DOMAIN commits
  PROVE  /\ commits[c] \in CommitT /\ c \in Nat /\ commits[c].parent \in Nat
         /\ commits[c].by \in AllKinds \cup {"human", "legacy", "merge"}
         /\ commits[c].second \in Nat /\ commits[c].cat \in Nat /\ commits[c].ver \in Nat
         /\ Tree(c) \in Pairs /\ Tree(c) = <<commits[c].cat, commits[c].ver>>
<1>1. commits[c] \in CommitT /\ c \in Nat
  BY DEF Shapes
<1> QED
  BY <1>1 DEF CommitT, Tree, Pairs

\* The fields of a pull request.
LEMMA PrFields ==
  ASSUME Shapes, NEW p \in DOMAIN prs
  PROVE  /\ prs[p] \in PrT /\ p \in Nat /\ prs[p].kind \in AllKinds /\ prs[p].head \in Nat
         /\ prs[p].base \in Nat /\ prs[p].st \in {"open", "merged", "closed"}
         /\ prs[p].body \in [base : Nat, tree : Pairs] /\ prs[p].merge \in Nat
<1>1. prs[p] \in PrT /\ p \in Nat
  BY DEF Shapes
<1> QED
  BY <1>1 DEF PrT

\* What Commit makes is a commit.
LEMMA CommitIs ==
  ASSUME NEW by \in AllKinds \cup {"human", "legacy", "merge"}, NEW parent \in Nat,
         NEW second \in Nat, NEW tree \in Pairs
  PROVE  Commit(by, parent, second, tree) \in CommitT
BY DEF Commit, CommitT, Pairs

\* Moving a branch refreshes the base of its pull requests, and nothing else of them.
LEMMA MoveBranchEffect ==
  ASSUME Shapes, NEW k \in AllKinds, NEW c \in Nat, MoveBranch(k, c)
  PROVE  /\ head' \in [AllKinds -> Nat] /\ head'[k] = c
         /\ \A l \in AllKinds : l # k => head'[l] = head[l]
         /\ prs' \in Seq(PrT) /\ DOMAIN prs' = DOMAIN prs
         /\ \A p \in DOMAIN prs : \/ prs'[p] = prs[p]
                                  \/ /\ prs[p].st = "open" /\ prs[p].kind = k
                                     /\ prs'[p] = [prs[p] EXCEPT !.base = main]
<1>1. prs \in Seq(PrT) /\ Len(prs) \in Nat /\ DOMAIN prs = 1..Len(prs) /\ main \in Nat
  BY DEF Shapes
<1>2. \A p \in DOMAIN prs : prs[p] \in PrT
  BY <1>1
<1>3. \A x \in PrT : [x EXCEPT !.base = main] \in PrT
  BY <1>1 DEF PrT
<1>4. prs' \in [1..Len(prs) -> PrT]
  BY <1>1, <1>2, <1>3 DEF MoveBranch
<1>5. prs' \in Seq(PrT) /\ DOMAIN prs' = DOMAIN prs
  BY <1>1, <1>4, SequenceOf
<1>6. \A p \in DOMAIN prs : \/ prs'[p] = prs[p]
                            \/ /\ prs[p].st = "open" /\ prs[p].kind = k
                               /\ prs'[p] = [prs[p] EXCEPT !.base = main]
  BY DEF MoveBranch
<1>7. /\ head' \in [AllKinds -> Nat] /\ head'[k] = c
      /\ \A l \in AllKinds : l # k => head'[l] = head[l]
  BY DEF MoveBranch, Shapes
<1> QED
  BY <1>5, <1>6, <1>7

-------------------------------------------------------------------------------
(* What a step leaves, one group of variables at a time.                   *)


\* No step takes a run away or changes what it is for; one that ended stays as it ended.
RunsKept ==
  /\ runs' \in Seq(RunT)
  /\ \A i \in DOMAIN runs :
       /\ i \in DOMAIN runs'
       /\ runs'[i].what = runs[i].what /\ runs'[i].kind = runs[i].kind
       /\ runs'[i].sha = runs[i].sha /\ runs'[i].ci = runs[i].ci /\ runs'[i].pr = runs[i].pr
       /\ runs'[i].apply = runs[i].apply /\ runs'[i].by = runs[i].by
       /\ runs[i].st \notin {"queued", "running"} =>
            runs'[i].st = runs[i].st /\ runs'[i].out = runs[i].out

\* The run that holds the group is running.
Holds == job.run # None => job.run \in DOMAIN runs /\ runs[job.run].st = "running"

\* RunsKept holds when the runs do not change.
LEMMA RunsSame ==
  ASSUME Shapes, runs' = runs
  PROVE  RunsKept
BY DEF Shapes, RunsKept

\* RunsKept holds when the running run ends.
LEMMA RunsEnd ==
  ASSUME Shapes, Holds, job.run # None, NEW st \in RunStates, NEW out \in Nat, End(st, out)
  PROVE  RunsKept
<1>1. /\ runs' \in Seq(RunT) /\ DOMAIN runs' = DOMAIN runs
      /\ runs'[job.run] = [runs[job.run] EXCEPT !.st = st, !.out = out]
      /\ \A i \in DOMAIN runs : i # job.run => runs'[i] = runs[i]
  BY EndEffect DEF Holds
<1>2. runs[job.run] \in RunT /\ runs[job.run].st = "running"
  BY DEF Holds, Shapes
<1>3. runs'[job.run] = [what |-> runs[job.run].what, kind |-> runs[job.run].kind,
                        sha |-> runs[job.run].sha, ci |-> runs[job.run].ci,
                        pr |-> runs[job.run].pr, apply |-> runs[job.run].apply,
                        by |-> runs[job.run].by, st |-> st, out |-> out]
  BY <1>1, <1>2 DEF RunT
<1>4. ASSUME NEW i \in DOMAIN runs
      PROVE  /\ runs'[i].what = runs[i].what /\ runs'[i].kind = runs[i].kind
             /\ runs'[i].sha = runs[i].sha /\ runs'[i].ci = runs[i].ci /\ runs'[i].pr = runs[i].pr
             /\ runs'[i].apply = runs[i].apply /\ runs'[i].by = runs[i].by
             /\ runs[i].st \notin {"queued", "running"} =>
                  runs'[i].st = runs[i].st /\ runs'[i].out = runs[i].out
  <2>1. CASE i = job.run
    BY <2>1, <1>2, <1>3
  <2>2. CASE i # job.run
    BY <2>2, <1>1
  <2> QED
    BY <2>1, <2>2
<1> QED
  BY <1>1, <1>4 DEF RunsKept

\* RunsKept holds when a run is queued.
LEMMA RunsEnqueued ==
  ASSUME Shapes, NEW r \in RunT, Enqueue(r)
  PROVE  RunsKept
<1>1. /\ runs' \in Seq(RunT)
      /\ DOMAIN runs' = DOMAIN runs \cup {Len(runs) + 1}
      /\ \A i \in DOMAIN runs :
           runs'[i] = IF runs[i].st = "queued" THEN [runs[i] EXCEPT !.st = "cancelled"]
                      ELSE runs[i]
  BY EnqueueEffect
<1>2. \A i \in DOMAIN runs : runs[i] \in RunT
  BY DEF Shapes
<1> QED
  BY <1>1, <1>2 DEF RunsKept, RunT


\* What a step of the job does to the runs: nothing, or it ends the one it is for.
JobActs ==
  /\ job.run # None
  /\ \/ runs' = runs /\ job'.run = job.run
     \/ \E st \in RunStates \ {"running"}, out \in Nat :
          /\ End(st, out)
          /\ st = "skipped" /\ Me.what = "controller" => Bound.st # "success"

\* A step of a writer or a controller is one of the job.
LEMMA JobStepActs ==
  ASSUME Shapes, Job, Writer \/ Controller
  PROVE  JobActs
<1>1. ASSUME NEW c \in Catalogs \cup {x.cat : x \in {commits[y] : y \in DOMAIN commits}},
             WriterLease(c)
      PROVE  JobActs
  <2>1. job.run # None /\ job \in JobT /\ None \in Nat
    BY <1>1 DEF WriterLease, At, Shapes, None
  <2>2. job.out \in Nat /\ Me.kind \in AllKinds
    BY <2>1, JobFields, RunFields DEF Me, Job
  <2>3. head[Me.kind] \in Nat
    BY <2>2 DEF Shapes
  <2>4. /\ "failure" \in RunStates \ {"running"} /\ "success" \in RunStates \ {"running"}
        /\ "skipped" \in RunStates \ {"running"}
    BY DEF RunStates
  <2> QED
    BY <1>1, <2>1, <2>2, <2>3, <2>4 DEF WriterLease, Go, JobT, JobActs
<1>2. ASSUME WriterBranch
      PROVE  JobActs
  <2>1. job.run # None /\ job \in JobT /\ None \in Nat
    BY <1>2 DEF WriterBranch, At, Shapes, None
  <2>2. job.out \in Nat /\ Me.kind \in AllKinds
    BY <2>1, JobFields, RunFields DEF Me, Job
  <2>3. head[Me.kind] \in Nat
    BY <2>2 DEF Shapes
  <2>4. /\ "failure" \in RunStates \ {"running"} /\ "success" \in RunStates \ {"running"}
        /\ "skipped" \in RunStates \ {"running"}
    BY DEF RunStates
  <2> QED
    BY <1>2, <2>1, <2>2, <2>3, <2>4 DEF WriterBranch, Go, JobT, JobActs
<1>3. ASSUME WriterCommit
      PROVE  JobActs
  <2>1. job.run # None /\ job \in JobT /\ None \in Nat
    BY <1>3 DEF WriterCommit, At, Shapes, None
  <2>2. job.out \in Nat /\ Me.kind \in AllKinds
    BY <2>1, JobFields, RunFields DEF Me, Job
  <2>3. head[Me.kind] \in Nat
    BY <2>2 DEF Shapes
  <2>4. /\ "failure" \in RunStates \ {"running"} /\ "success" \in RunStates \ {"running"}
        /\ "skipped" \in RunStates \ {"running"}
    BY DEF RunStates
  <2> QED
    BY <1>3, <2>1, <2>2, <2>3, <2>4 DEF WriterCommit, Go, JobT, JobActs
<1>4. ASSUME WriterVerify
      PROVE  JobActs
  <2>1. job.run # None /\ job \in JobT /\ None \in Nat
    BY <1>4 DEF WriterVerify, At, Shapes, None
  <2>2. job.out \in Nat /\ Me.kind \in AllKinds
    BY <2>1, JobFields, RunFields DEF Me, Job
  <2>3. head[Me.kind] \in Nat
    BY <2>2 DEF Shapes
  <2>4. /\ "failure" \in RunStates \ {"running"} /\ "success" \in RunStates \ {"running"}
        /\ "skipped" \in RunStates \ {"running"}
    BY DEF RunStates
  <2> QED
    BY <1>4, <2>1, <2>2, <2>3, <2>4 DEF WriterVerify, Go, JobT, JobActs
<1>4a. ASSUME WriterLeaseAgain
       PROVE  JobActs
  <2>1. job.run # None /\ job \in JobT /\ None \in Nat
    BY <1>4a DEF WriterLeaseAgain, At, Shapes, None
  <2>2. job.out \in Nat /\ Me.kind \in AllKinds
    BY <2>1, JobFields, RunFields DEF Me, Job
  <2>3. head[Me.kind] \in Nat
    BY <2>2 DEF Shapes
  <2>4. /\ "failure" \in RunStates \ {"running"} /\ "success" \in RunStates \ {"running"}
        /\ "skipped" \in RunStates \ {"running"}
    BY DEF RunStates
  <2> QED
    BY <1>4a, <2>1, <2>2, <2>3, <2>4 DEF WriterLeaseAgain, Go, JobT, JobActs
<1>5. ASSUME WriterPr
      PROVE  JobActs
  <2>1. job.run # None /\ job \in JobT /\ None \in Nat
    BY <1>5 DEF WriterPr, At, Shapes, None
  <2>2. job.out \in Nat /\ Me.kind \in AllKinds
    BY <2>1, JobFields, RunFields DEF Me, Job
  <2>3. head[Me.kind] \in Nat
    BY <2>2 DEF Shapes
  <2>4. /\ "failure" \in RunStates \ {"running"} /\ "success" \in RunStates \ {"running"}
        /\ "skipped" \in RunStates \ {"running"}
    BY DEF RunStates
  <2> QED
    BY <1>5, <2>1, <2>2, <2>3, <2>4 DEF WriterPr, Go, JobT, JobActs
<1>6. ASSUME WriterDispatch
      PROVE  JobActs
  <2>1. job.run # None /\ job \in JobT /\ None \in Nat
    BY <1>6 DEF WriterDispatch, At, Shapes, None
  <2>2. job.out \in Nat /\ Me.kind \in AllKinds
    BY <2>1, JobFields, RunFields DEF Me, Job
  <2>3. head[Me.kind] \in Nat
    BY <2>2 DEF Shapes
  <2>4. /\ "failure" \in RunStates \ {"running"} /\ "success" \in RunStates \ {"running"}
        /\ "skipped" \in RunStates \ {"running"}
    BY DEF RunStates
  <2> QED
    BY <1>6, <2>1, <2>2, <2>3, <2>4 DEF WriterDispatch, Go, JobT, JobActs
<1>7. ASSUME ControllerSkip
      PROVE  JobActs
  <2>1. job.run # None /\ job \in JobT /\ None \in Nat
    BY <1>7 DEF ControllerSkip, At, Shapes, None
  <2>2. job.out \in Nat /\ Me.kind \in AllKinds
    BY <2>1, JobFields, RunFields DEF Me, Job
  <2>3. head[Me.kind] \in Nat
    BY <2>2 DEF Shapes
  <2>4. /\ "failure" \in RunStates \ {"running"} /\ "success" \in RunStates \ {"running"}
        /\ "skipped" \in RunStates \ {"running"}
    BY DEF RunStates
  <2> QED
    BY <1>7, <2>1, <2>2, <2>3, <2>4 DEF ControllerSkip, Go, JobT, JobActs
<1>8. ASSUME ControllerResolve
      PROVE  JobActs
  <2>1. job.run # None /\ job \in JobT /\ None \in Nat
    BY <1>8 DEF ControllerResolve, At, Shapes, None
  <2>2. job.out \in Nat /\ Me.kind \in AllKinds
    BY <2>1, JobFields, RunFields DEF Me, Job
  <2>3. head[Me.kind] \in Nat
    BY <2>2 DEF Shapes
  <2>4. /\ "failure" \in RunStates \ {"running"} /\ "success" \in RunStates \ {"running"}
        /\ "skipped" \in RunStates \ {"running"}
    BY DEF RunStates
  <2> QED
    BY <1>8, <2>1, <2>2, <2>3, <2>4 DEF ControllerResolve, Go, JobT, JobActs
<1>9. ASSUME ControllerCheck
      PROVE  JobActs
  <2>1. job.run # None /\ job \in JobT /\ None \in Nat
    BY <1>9 DEF ControllerCheck, At, Shapes, None
  <2>2. job.out \in Nat /\ Me.kind \in AllKinds
    BY <2>1, JobFields, RunFields DEF Me, Job
  <2>3. head[Me.kind] \in Nat
    BY <2>2 DEF Shapes
  <2>4. /\ "failure" \in RunStates \ {"running"} /\ "success" \in RunStates \ {"running"}
        /\ "skipped" \in RunStates \ {"running"}
    BY DEF RunStates
  <2> QED
    BY <1>9, <2>1, <2>2, <2>3, <2>4 DEF ControllerCheck, Go, JobT, JobActs
<1>9a. ASSUME ControllerPolicy
       PROVE  JobActs
  <2>1. job.run # None /\ job \in JobT /\ None \in Nat
    BY <1>9a DEF ControllerPolicy, At, Shapes, None
  <2>2. job.out \in Nat /\ Me.kind \in AllKinds
    BY <2>1, JobFields, RunFields DEF Me, Job
  <2>3. head[Me.kind] \in Nat
    BY <2>2 DEF Shapes
  <2>4. /\ "failure" \in RunStates \ {"running"} /\ "success" \in RunStates \ {"running"}
        /\ "skipped" \in RunStates \ {"running"}
    BY DEF RunStates
  <2> QED
    BY <1>9a, <2>1, <2>2, <2>3, <2>4 DEF ControllerPolicy, Go, JobT, JobActs
<1>9b. ASSUME ControllerMain
       PROVE  JobActs
  <2>1. job.run # None /\ job \in JobT /\ None \in Nat
    BY <1>9b DEF ControllerMain, At, Shapes, None
  <2>2. job.out \in Nat /\ Me.kind \in AllKinds
    BY <2>1, JobFields, RunFields DEF Me, Job
  <2>3. head[Me.kind] \in Nat
    BY <2>2 DEF Shapes
  <2>4. /\ "failure" \in RunStates \ {"running"} /\ "success" \in RunStates \ {"running"}
        /\ "skipped" \in RunStates \ {"running"}
    BY DEF RunStates
  <2> QED
    BY <1>9b, <2>1, <2>2, <2>3, <2>4 DEF ControllerMain, Go, JobT, JobActs
<1>10. ASSUME ControllerAgain
       PROVE  JobActs
  <2>1. job.run # None /\ job \in JobT /\ None \in Nat
    BY <1>10 DEF ControllerAgain, At, Shapes, None
  <2>2. job.out \in Nat /\ Me.kind \in AllKinds
    BY <2>1, JobFields, RunFields DEF Me, Job
  <2>3. head[Me.kind] \in Nat
    BY <2>2 DEF Shapes
  <2>4. /\ "failure" \in RunStates \ {"running"} /\ "success" \in RunStates \ {"running"}
        /\ "skipped" \in RunStates \ {"running"}
    BY DEF RunStates
  <2> QED
    BY <1>10, <2>1, <2>2, <2>3, <2>4 DEF ControllerAgain, Go, JobT, JobActs
<1>11. ASSUME ControllerMerge
       PROVE  JobActs
  <2>1. job.run # None /\ job \in JobT /\ None \in Nat
    BY <1>11 DEF ControllerMerge, At, Shapes, None
  <2>2. job.out \in Nat /\ Me.kind \in AllKinds
    BY <2>1, JobFields, RunFields DEF Me, Job
  <2>3. head[Me.kind] \in Nat
    BY <2>2 DEF Shapes
  <2>4. /\ "failure" \in RunStates \ {"running"} /\ "success" \in RunStates \ {"running"}
        /\ "skipped" \in RunStates \ {"running"}
    BY DEF RunStates
  <2> QED
    BY <1>11, <2>1, <2>2, <2>3, <2>4 DEF ControllerMerge, Go, JobT, JobActs
<1>12. ASSUME ControllerVerify
       PROVE  JobActs
  <2>1. job.run # None /\ job \in JobT /\ None \in Nat
    BY <1>12 DEF ControllerVerify, At, Shapes, None
  <2>2. job.out \in Nat /\ Me.kind \in AllKinds
    BY <2>1, JobFields, RunFields DEF Me, Job
  <2>3. head[Me.kind] \in Nat
    BY <2>2 DEF Shapes
  <2>4. /\ "failure" \in RunStates \ {"running"} /\ "success" \in RunStates \ {"running"}
        /\ "skipped" \in RunStates \ {"running"}
    BY DEF RunStates
  <2> QED
    BY <1>12, <2>1, <2>2, <2>3, <2>4 DEF ControllerVerify, Go, JobT, JobActs
<1>13. ASSUME ControllerTagCheck
       PROVE  JobActs
  <2>1. job.run # None /\ job \in JobT /\ None \in Nat
    BY <1>13 DEF ControllerTagCheck, At, Shapes, None
  <2>2. job.out \in Nat /\ Me.kind \in AllKinds
    BY <2>1, JobFields, RunFields DEF Me, Job
  <2>3. head[Me.kind] \in Nat
    BY <2>2 DEF Shapes
  <2>4. /\ "failure" \in RunStates \ {"running"} /\ "success" \in RunStates \ {"running"}
        /\ "skipped" \in RunStates \ {"running"}
    BY DEF RunStates
  <2> QED
    BY <1>13, <2>1, <2>2, <2>3, <2>4 DEF ControllerTagCheck, Go, JobT, JobActs
<1>14. ASSUME ControllerPushTags
       PROVE  JobActs
  <2>1. job.run # None /\ job \in JobT /\ None \in Nat
    BY <1>14 DEF ControllerPushTags, At, Shapes, None
  <2>2. job.out \in Nat /\ Me.kind \in AllKinds
    BY <2>1, JobFields, RunFields DEF Me, Job
  <2>3. head[Me.kind] \in Nat
    BY <2>2 DEF Shapes
  <2>4. /\ "failure" \in RunStates \ {"running"} /\ "success" \in RunStates \ {"running"}
        /\ "skipped" \in RunStates \ {"running"}
    BY DEF RunStates
  <2> QED
    BY <1>14, <2>1, <2>2, <2>3, <2>4 DEF ControllerPushTags, Go, JobT, JobActs
<1>15. ASSUME ControllerDispatchRelease
       PROVE  JobActs
  <2>1. job.run # None /\ job \in JobT /\ None \in Nat
    BY <1>15 DEF ControllerDispatchRelease, At, Shapes, None
  <2>2. job.out \in Nat /\ Me.kind \in AllKinds
    BY <2>1, JobFields, RunFields DEF Me, Job
  <2>3. head[Me.kind] \in Nat
    BY <2>2 DEF Shapes
  <2>4. /\ "failure" \in RunStates \ {"running"} /\ "success" \in RunStates \ {"running"}
        /\ "skipped" \in RunStates \ {"running"}
    BY DEF RunStates
  <2> QED
    BY <1>15, <2>1, <2>2, <2>3, <2>4 DEF ControllerDispatchRelease, Go, JobT, JobActs
<1> QED
  BY <1>1, <1>2, <1>3, <1>4, <1>4a, <1>5, <1>6, <1>7, <1>8, <1>9, <1>9a, <1>9b,
     <1>10, <1>11, <1>12, <1>13, <1>14, <1>15 DEF Writer, Controller

\* No step takes a run away or changes what it is for.
LEMMA RunsStep ==
  ASSUME Shapes, Holds, Job, Reconciling, Next
  PROVE  RunsKept
<1>1. ASSUME NEW k \in Kinds, Trigger(k)
      PROVE  RunsKept
  <2>1. Run("writer", k, None, None, FALSE, "schedule") \in RunT
    BY RunIs, KindsAssumption DEF None
  <2> QED
    BY <1>1, <2>1, RunsEnqueued DEF Trigger
<1>2. ASSUME NEW i \in DOMAIN runs, StartRun(i)
      PROVE  RunsKept
  <2>1. runs[i] \in RunT /\ runs \in Seq(RunT) /\ runs[i].st = "queued"
    BY <1>2 DEF Shapes, StartRun
  <2> DEFINE r == [runs[i] EXCEPT !.st = "running"]
  <2>2. r \in RunT
    BY <2>1 DEF RunT, RunStates
  <2>3. runs' = [runs EXCEPT ![i] = r]
    BY <1>2, <2>1 DEF StartRun
  <2> HIDE DEF r
  <2>4. /\ runs' \in Seq(RunT) /\ DOMAIN runs' = DOMAIN runs /\ runs'[i] = r
        /\ \A x \in DOMAIN runs : x # i => runs'[x] = runs[x]
    BY <2>1, <2>2, <2>3, ReplaceKeeps
  <2> QED
    BY <2>1, <2>4 DEF RunsKept, RunT, r
<1>3. ASSUME NEW j \in DOMAIN ci, CiWakes(j)
      PROVE  RunsKept
  <2>1. ci[j] \in CiT /\ j \in Nat
    BY DEF Shapes
  <2>2. Run("controller", ci[j].kind, j, None, ci[j].kind \in Automatic, "event") \in RunT
    BY <2>1, ControllerRunIs, CiFields DEF None
  <2> QED
    BY <1>3, <2>2, RunsEnqueued DEF CiWakes
<1>4. ASSUME NEW j \in DOMAIN ci, NEW s \in {"success", "failure"}, CiFinish(j, s)
      PROVE  RunsKept
  BY <1>4, RunsSame DEF CiFinish
<1>5. ASSUME Writer \/ Controller
      PROVE  RunsKept
  <2>1. JobActs
    BY <1>5, JobStepActs
  <2> QED
    BY <2>1, RunsSame, RunsEnd DEF JobActs
<1>6. ASSUME RecStart
      PROVE  RunsKept
  BY <1>6, RunsSame DEF RecStart, RecAt, RecGo, RecOrStop, Reads
<1>7. ASSUME RecMain
      PROVE  RunsKept
  BY <1>7, RunsSame DEF RecMain, RecAt, RecGo, RecOrStop, Reads
<1>8. ASSUME NEW l \in AllKinds, RecCandidate(l)
      PROVE  RunsKept
  BY <1>8, RunsSame DEF RecCandidate, RecAt, RecGo, RecOrStop, Reads
<1>9. ASSUME RecControllers
      PROVE  RunsKept
  BY <1>9, RunsSame DEF RecControllers, RecAt, RecGo, RecOrStop, Reads
<1>10. ASSUME RecRecheck
       PROVE  RunsKept
  BY <1>10, RunsSame DEF RecRecheck, RecAt, RecGo, RecOrStop, Reads
<1>11. ASSUME RecLast
       PROVE  RunsKept
  BY <1>11, RunsSame DEF RecLast, RecAt, RecGo, RecOrStop, Reads
<1>12. ASSUME RecLease
       PROVE  RunsKept
  BY <1>12, RunsSame DEF RecLease, RecAt, RecGo, RecOrStop, Reads
<1>13. ASSUME RecDispatch
       PROVE  RunsKept
  <2>1. rec \in RecT
    BY DEF Shapes
  <2>2. rec.pick \in AllKinds /\ Picked \in CandidateT
    BY <1>13, <2>1 DEF Reconciling, RecDispatch, RecAt, Picked, RecT
  <2>3. Run("controller", rec.pick, Picked.ci, Picked.pr, rec.pick \in Automatic, "reconcile")
          \in RunT
    BY <2>2, ControllerRunIs DEF CandidateT
  <2> QED
    BY <1>13, <2>3, RunsEnqueued DEF RecDispatch
<1>14. ASSUME NEW h \in Catalogs \cup {commits[main].cat}, HumanPushMain(h)
       PROVE  RunsKept
  BY <1>14, RunsSame DEF HumanPushMain, Chaos
<1>15. ASSUME NEW l \in AllKinds, HumanPushBranch(l)
       PROVE  RunsKept
  BY <1>15, RunsSame DEF HumanPushBranch, Chaos
<1>16. ASSUME NEW l \in AllKinds, HumanClosesPr(l)
       PROVE  RunsKept
  BY <1>16, RunsSame DEF HumanClosesPr, Chaos
<1>17. ASSUME ToggleProtection
       PROVE  RunsKept
  BY <1>17, RunsSame DEF ToggleProtection, Chaos
<1>18. ASSUME Crash
       PROVE  RunsKept
  <2>1. job.run # None
    BY <1>18 DEF Crash, Job, IInv, State
  <2>2. "failure" \in RunStates /\ job.out \in Nat
    BY DEF RunStates, Shapes, JobT
  <2> QED
    BY <1>18, <2>1, <2>2, RunsEnd DEF Crash
<1>19. ASSUME HumanTags
       PROVE  RunsKept
  BY <1>19, RunsSame DEF HumanTags, Chaos
<1>20. ASSUME NEW v \in dispatched, Publishes(v)
       PROVE  RunsKept
  BY <1>20, RunsSame DEF Publishes
<1> QED
  BY <1>1, <1>2, <1>3, <1>4, <1>5, <1>6, <1>7, <1>8, <1>9, <1>10, <1>11,
     <1>12, <1>13, <1>14, <1>15, <1>16, <1>17, <1>18, <1>19, <1>20
  DEF Next, Reconciler, GitHub, People


\* A commit that is there stays, and so does main's past.
CommitsKept ==
  /\ commits' \in Seq(CommitT) /\ main' \in Nat /\ trunk \subseteq trunk'
  /\ \A c \in DOMAIN commits : c \in DOMAIN commits' /\ commits'[c] = commits[c]

\* A pull request that is there stays.
PrsKept ==
  /\ head' \in [AllKinds -> Nat] /\ prs' \in Seq(PrT)
  /\ DOMAIN prs \subseteq DOMAIN prs'

\* A commit that is added is the next one.
LEMMA CommitsAppended ==
  ASSUME Shapes, NEW x \in CommitT, commits' = Append(commits, x)
  PROVE  /\ commits' \in Seq(CommitT)
         /\ NextCommit \in Nat /\ NextCommit \notin DOMAIN commits
         /\ \A c \in DOMAIN commits : c < NextCommit
         /\ DOMAIN commits' = DOMAIN commits \cup {NextCommit}
         /\ commits'[NextCommit] = x
         /\ \A c \in DOMAIN commits : c \in DOMAIN commits' /\ commits'[c] = commits[c]
<1>1. commits \in Seq(CommitT) /\ Len(commits) \in Nat /\ DOMAIN commits = 1..Len(commits)
  BY DEF Shapes
<1> QED
  BY <1>1, AppendKeeps DEF NextCommit

\* What a controller's run is bound to.
LEMMA BoundIs ==
  ASSUME Shapes, Checks, Runs, job.run \in DOMAIN runs, Me.what = "controller"
  PROVE  /\ Me.ci \in DOMAIN ci /\ Bound \in CiT /\ Me.kind = Bound.kind
         /\ Bound.kind \in AllKinds /\ Bound.st \in {"success", "failure"}
         /\ Bound.head \in DOMAIN commits /\ Bound.head \in Nat /\ Bound.base \in trunk
         /\ Version \in Nat /\ Version = commits[Bound.head].ver
         /\ Bound.st = "success" =>
              /\ commits[Bound.head].by = Bound.kind
              /\ commits[Bound.head].parent = Bound.base
<1>1. /\ Me.ci \in DOMAIN ci /\ Me.kind = ci[Me.ci].kind /\ ci[Me.ci].st # "running"
  BY DEF Runs, Fits, Me
<1>2. /\ ci[Me.ci] \in CiT /\ ci[Me.ci].kind \in AllKinds
      /\ ci[Me.ci].st \in {"running", "success", "failure"}
  BY <1>1, CiFields
<1>3. /\ ci[Me.ci].base \in trunk
      /\ Bot(ci[Me.ci].want, ci[Me.ci].kind, ci[Me.ci].base)
      /\ ci[Me.ci].head = ci[Me.ci].want \/ Human(ci[Me.ci].head)
      /\ ci[Me.ci].st = "success" => ci[Me.ci].head = ci[Me.ci].want
  BY <1>1 DEF Checks
<1>4. ci[Me.ci].head \in DOMAIN commits
  BY <1>3 DEF Bot, Human
<1>5. ci[Me.ci].head \in Nat /\ commits[ci[Me.ci].head].ver \in Nat
  BY <1>4, CommitFields
<1> QED
  BY <1>1, <1>2, <1>3, <1>4, <1>5 DEF Bound, Version, Bot

\* The tree of a merge takes each part from the head or from main.
LEMMA MergedTreeIs ==
  ASSUME Shapes, main \in DOMAIN commits, NEW h \in DOMAIN commits
  PROVE  /\ MergedTree(h) \in Pairs
         /\ MergedTree(h)[2] = IF Tree(h)[2] # Tree(commits[h].parent)[2]
                               THEN commits[h].ver ELSE commits[main].ver
<1>1. /\ Tree(h) = <<commits[h].cat, commits[h].ver>>
      /\ Tree(main) = <<commits[main].cat, commits[main].ver>>
      /\ commits[h].cat \in Nat /\ commits[h].ver \in Nat
      /\ commits[main].cat \in Nat /\ commits[main].ver \in Nat
  BY CommitFields
<1> QED
  BY <1>1 DEF MergedTree, Pairs

\* Every step keeps the commits and main's past.
LEMMA CommitsStep ==
  ASSUME Shapes, Holds, State, Next
  PROVE  CommitsKept
<1> USE DEF git, CommitsKept, Shapes
<1>1. ASSUME NEW k \in Kinds, Trigger(k)
      PROVE  CommitsKept
  BY <1>1 DEF Trigger
<1>2. ASSUME NEW i \in DOMAIN runs, StartRun(i)
      PROVE  CommitsKept
  BY <1>2 DEF StartRun
<1>3. ASSUME NEW j \in DOMAIN ci, CiWakes(j)
      PROVE  CommitsKept
  BY <1>3 DEF CiWakes
<1>4. ASSUME NEW j \in DOMAIN ci, NEW s \in {"success", "failure"}, CiFinish(j, s)
      PROVE  CommitsKept
  BY <1>4 DEF CiFinish
<1>5. ASSUME NEW c \in Catalogs \cup {x.cat : x \in {commits[y] : y \in DOMAIN commits}},
             WriterLease(c)
      PROVE  CommitsKept
  BY <1>5 DEF WriterLease, At, Go
<1>6. ASSUME \/ WriterBranch \/ WriterLeaseAgain \/ WriterVerify \/ WriterPr
             \/ WriterDispatch \/ ControllerSkip \/ ControllerResolve \/ ControllerCheck
             \/ ControllerPolicy \/ ControllerMain \/ ControllerAgain \/ ControllerVerify
      PROVE  CommitsKept
  BY <1>6 DEF WriterBranch, WriterLeaseAgain, At, Go, WriterVerify, WriterPr, AfterPr,
       WriterDispatch, ControllerSkip, ControllerResolve, ControllerCheck,
       ControllerPolicy, ControllerMain, ControllerAgain, ControllerVerify
<1>7. ASSUME \/ ControllerTagCheck \/ ControllerPushTags
             \/ ControllerDispatchRelease \/ RecStart \/ RecMain
             \/ RecControllers \/ RecRecheck \/ RecLast \/ RecLease
      PROVE  CommitsKept
  BY <1>7 DEF ControllerTagCheck, At, Go, ControllerPushTags,
       ControllerDispatchRelease, RecStart, RecAt, RecGo, RecOrStop, Reads, RecMain,
       RecControllers, RecRecheck, RecLast, RecLease
<1>8. ASSUME RecDispatch \/ ToggleProtection \/ Crash \/ HumanTags
      PROVE  CommitsKept
  BY <1>8 DEF RecDispatch, RecAt, RecGo, RecOrStop, Reads, ToggleProtection, Chaos,
       Crash, HumanTags
<1>9. ASSUME WriterCommit
      PROVE  CommitsKept
  <2>1. job.run # None /\ job.run \in DOMAIN runs
    BY <1>9 DEF WriterCommit, At, Holds
  <2>2. Me.kind \in AllKinds /\ Me.sha \in Nat /\ job.tree \in Pairs /\ None \in Nat
    BY <2>1, RunFields, JobFields DEF Me, None
  <2>3. Commit(Me.kind, Me.sha, None, job.tree) \in CommitT
    BY <2>2, CommitIs
  <2>4. \/ commits' = commits /\ main' = main /\ trunk' = trunk
        \/ /\ commits' = Append(commits, Commit(Me.kind, Me.sha, None, job.tree))
           /\ main' = main /\ trunk' = trunk
    BY <1>9 DEF WriterCommit, git
  <2> QED
    BY <2>3, <2>4, CommitsAppended DEF CommitsKept, Shapes
<1>10. ASSUME ControllerMerge
       PROVE  CommitsKept
  <2>1. job.run # None /\ job.run \in DOMAIN runs /\ Me.what = "controller"
    BY <1>10 DEF ControllerMerge, At, Holds
  <2>2. Bound.head \in DOMAIN commits /\ Bound.head \in Nat
    BY <2>1, BoundIs DEF State
  <2>3. main \in DOMAIN commits /\ main \in Nat
    BY DEF State, Shapes, Trunk
  <2>4. MergedTree(Bound.head) \in Pairs
    BY <2>2, <2>3, MergedTreeIs
  <2>5. Commit("merge", main, Bound.head, MergedTree(Bound.head)) \in CommitT
    BY <2>2, <2>3, <2>4, CommitIs
  <2>6. \/ commits' = commits /\ main' = main /\ trunk' = trunk
        \/ /\ commits' = Append(commits,
                            Commit("merge", main, Bound.head, MergedTree(Bound.head)))
           /\ main' = NextCommit /\ trunk' = trunk \cup {NextCommit}
    BY <1>10 DEF ControllerMerge, git
  <2> QED
    BY <2>3, <2>5, <2>6, CommitsAppended DEF CommitsKept, Shapes
<1>11. ASSUME NEW l \in AllKinds, RecCandidate(l) \/ HumanClosesPr(l)
       PROVE  CommitsKept
  BY <1>11 DEF RecCandidate, RecAt, RecGo, RecOrStop, Reads, HumanClosesPr, Chaos
<1>12. ASSUME NEW h \in Catalogs \cup {commits[main].cat}, HumanPushMain(h)
       PROVE  CommitsKept
  <2>1. main \in DOMAIN commits /\ main \in Nat
    BY DEF State, Shapes, Trunk
  <2>2. commits[main].cat \in Nat /\ commits[main].ver \in Nat /\ None \in Nat
    BY <2>1, CommitFields DEF None
  <2>3. h \in Nat
    BY <1>12, <2>2, CatalogsAssumption
  <2>4. <<h, commits[main].ver>> \in Pairs
    BY <2>2, <2>3 DEF Pairs
  <2>5. Commit("human", main, None, <<h, commits[main].ver>>) \in CommitT
    BY <2>1, <2>2, <2>4, CommitIs
  <2> QED
    BY <1>12, <2>5, CommitsAppended DEF CommitsKept, HumanPushMain
<1>13. ASSUME NEW l \in AllKinds, HumanPushBranch(l)
       PROVE  CommitsKept
  <2>1. head[l] \in DOMAIN commits
    BY <1>13 DEF HumanPushBranch, State, Pulls
  <2>2. commits[head[l]].parent \in Nat /\ Tree(head[l]) \in Pairs /\ None \in Nat
    BY <2>1, CommitFields DEF None
  <2>3. Commit("human", commits[head[l]].parent, None, Tree(head[l])) \in CommitT
    BY <2>2, CommitIs
  <2> QED
    BY <1>13, <2>3, CommitsAppended DEF CommitsKept, HumanPushBranch, Shapes
<1>14. ASSUME NEW v \in dispatched, Publishes(v)
       PROVE  CommitsKept
  BY <1>14 DEF Publishes
<1> QED
  BY <1>1, <1>2, <1>3, <1>4, <1>5, <1>6, <1>7, <1>8, <1>9, <1>10, <1>11,
     <1>12, <1>13, <1>14 DEF Next, Writer, Controller, Reconciler, GitHub, People

\* Every step keeps the pull requests.
LEMMA PrsStep ==
  ASSUME Shapes, Holds, State, Progress, Next
  PROVE  PrsKept
<1> USE DEF git, PrsKept, Shapes
<1>1. ASSUME NEW k \in Kinds, Trigger(k)
      PROVE  PrsKept
  BY <1>1 DEF Trigger
<1>2. ASSUME NEW i \in DOMAIN runs, StartRun(i)
      PROVE  PrsKept
  BY <1>2 DEF StartRun
<1>3. ASSUME NEW j \in DOMAIN ci, CiWakes(j)
      PROVE  PrsKept
  BY <1>3 DEF CiWakes
<1>4. ASSUME NEW j \in DOMAIN ci, NEW s \in {"success", "failure"}, CiFinish(j, s)
      PROVE  PrsKept
  BY <1>4 DEF CiFinish
<1>5. ASSUME NEW c \in Catalogs \cup {x.cat : x \in {commits[y] : y \in DOMAIN commits}},
             WriterLease(c)
      PROVE  PrsKept
  BY <1>5 DEF WriterLease, At, Go
<1>6. ASSUME \/ WriterBranch \/ WriterLeaseAgain \/ WriterVerify \/ WriterDispatch
             \/ ControllerSkip \/ ControllerResolve \/ ControllerCheck \/ ControllerPolicy
             \/ ControllerMain \/ ControllerAgain \/ ControllerVerify
             \/ ControllerTagCheck
      PROVE  PrsKept
  BY <1>6 DEF WriterBranch, WriterLeaseAgain, At, Go, WriterVerify, WriterDispatch,
       ControllerSkip, ControllerResolve, ControllerCheck, ControllerPolicy,
       ControllerMain, ControllerAgain, ControllerVerify, ControllerTagCheck
<1>7. ASSUME \/ ControllerPushTags \/ ControllerDispatchRelease \/ RecStart
             \/ RecMain \/ RecControllers \/ RecRecheck \/ RecLast \/ RecLease
             \/ RecDispatch
      PROVE  PrsKept
  BY <1>7 DEF ControllerPushTags, At, Go, ControllerDispatchRelease, RecStart, RecAt,
       RecGo, RecOrStop, Reads, RecMain, RecControllers, RecRecheck, RecLast,
       RecLease, RecDispatch
<1>8. ASSUME ToggleProtection \/ Crash \/ HumanTags
      PROVE  PrsKept
  BY <1>8 DEF ToggleProtection, Chaos, Crash, HumanTags
<1>9. ASSUME WriterCommit
      PROVE  PrsKept
  <2>1. job.run # None /\ job.run \in DOMAIN runs
    BY <1>9 DEF WriterCommit, At, Holds
  <2>2. Me.kind \in AllKinds /\ NextCommit \in Nat
    BY <2>1, RunFields DEF Me, NextCommit, Shapes
  <2>3. (head' = head /\ prs' = prs) \/ MoveBranch(Me.kind, NextCommit)
    BY <1>9 DEF WriterCommit, git
  <2> QED
    BY <2>2, <2>3, MoveBranchEffect DEF PrsKept, Shapes
<1>10. ASSUME WriterPr
       PROVE  PrsKept
  <2>1. job.run # None /\ job.run \in DOMAIN runs
    BY <1>10 DEF WriterPr, At, Holds
  <2>2. /\ Me.kind \in AllKinds /\ Me.sha \in Nat /\ job.tree \in Pairs /\ None \in Nat
        /\ main \in Nat
    BY <2>1, RunFields, JobFields DEF Me, None, Shapes
  <2>3. Body \in [base : Nat, tree : Pairs]
    BY <2>2 DEF Body
  <2> DEFINE x == [kind |-> Me.kind, head |-> None, base |-> main, st |-> "open",
                   body |-> Body, merge |-> None]
  <2>4. x \in PrT
    BY <2>2, <2>3 DEF PrT
  <2>5. job.pr # None => job.pr \in DOMAIN prs
    BY DEF State, Job
  <2>6. \A p \in DOMAIN prs : [prs[p] EXCEPT !.body = Body] \in PrT
    BY <2>3, PrFields DEF PrT
  <2>7. \/ prs' = prs
        \/ job.pr # None /\ prs' = [prs EXCEPT ![job.pr] = [prs[job.pr] EXCEPT !.body = Body]]
        \/ prs' = Append(prs, x)
    BY <1>10, <2>5 DEF WriterPr, Shapes
  <2>8. head' = head /\ prs \in Seq(PrT)
    BY <1>10 DEF WriterPr, Shapes
  <2> HIDE DEF x
  <2>9. Append(prs, x) \in Seq(PrT) /\ DOMAIN prs \subseteq DOMAIN Append(prs, x)
    BY <2>4, <2>8, AppendKeeps
  <2> DEFINE e == [prs EXCEPT ![job.pr] = [prs[job.pr] EXCEPT !.body = Body]]
  <2>10. job.pr # None => e \in Seq(PrT) /\ DOMAIN prs \subseteq DOMAIN e
    BY <2>5, <2>6, <2>8, ReplaceKeeps
  <2>11. prs' \in Seq(PrT) /\ DOMAIN prs \subseteq DOMAIN prs'
    BY <2>7, <2>8, <2>9, <2>10
  <2> QED
    BY <2>8, <2>11 DEF PrsKept, Shapes
<1>11. ASSUME ControllerMerge
       PROVE  PrsKept
  <2>1. job.run # None /\ job.run \in DOMAIN runs /\ Me.what = "controller"
    BY <1>11 DEF ControllerMerge, At, Holds
  <2>2. /\ Bound.head \in Nat /\ NextCommit \in Nat /\ head' = head
        /\ prs \in Seq(PrT)
    BY <1>11, <2>1, BoundIs DEF State, NextCommit, Shapes, ControllerMerge, git
  <2> DEFINE x == [prs[job.pr] EXCEPT !.st = "merged", !.head = Bound.head,
                                      !.merge = NextCommit]
  <2>3. job.pr \in DOMAIN prs => x \in PrT
    BY <2>2, PrFields DEF PrT
  <2>4. prs' = prs \/ (job.pr # None /\ prs' = [prs EXCEPT ![job.pr] = x])
    BY <1>11, <2>2 DEF ControllerMerge, git, State, Progress, Controlling, At, None
  <2>5. job.pr # None => job.pr \in DOMAIN prs
    BY DEF State, Job
  <2> HIDE DEF x
  <2> DEFINE e == [prs EXCEPT ![job.pr] = x]
  <2>6. job.pr # None => e \in Seq(PrT) /\ DOMAIN prs \subseteq DOMAIN e
    BY <2>2, <2>3, <2>5, ReplaceKeeps
  <2>7. prs' \in Seq(PrT) /\ DOMAIN prs \subseteq DOMAIN prs'
    BY <2>2, <2>4, <2>6
  <2> QED
    BY <2>2, <2>7 DEF PrsKept, Shapes
<1>12. ASSUME NEW l \in AllKinds, RecCandidate(l)
       PROVE  PrsKept
  BY <1>12 DEF RecCandidate, RecAt, RecGo, RecOrStop, Reads
<1>13. ASSUME NEW h \in Catalogs \cup {commits[main].cat}, HumanPushMain(h)
       PROVE  PrsKept
  BY <1>13 DEF HumanPushMain, Chaos
<1>14. ASSUME NEW l \in AllKinds, HumanPushBranch(l)
       PROVE  PrsKept
  <2>1. NextCommit \in Nat
    BY DEF NextCommit, Shapes
  <2>2. MoveBranch(l, NextCommit)
    BY <1>14 DEF HumanPushBranch
  <2> QED
    BY <2>1, <2>2, MoveBranchEffect DEF PrsKept, Shapes
<1>15. ASSUME NEW l \in AllKinds, HumanClosesPr(l)
       PROVE  PrsKept
  <2>1. /\ OpenPr(l) \in DOMAIN prs /\ head[l] \in Nat /\ head' = head
        /\ prs \in Seq(PrT)
    BY <1>15, OpenPrIs DEF HumanClosesPr, Shapes
  <2> DEFINE x == [prs[OpenPr(l)] EXCEPT !.st = "closed", !.head = head[l]]
  <2>2. x \in PrT
    BY <2>1, PrFields DEF PrT
  <2>3. prs' = [prs EXCEPT ![OpenPr(l)] = x]
    BY <1>15, <2>1 DEF HumanClosesPr
  <2> HIDE DEF x
  <2> QED
    BY <2>1, <2>2, <2>3, ReplaceKeeps DEF PrsKept
<1>16. ASSUME NEW v \in dispatched, Publishes(v)
       PROVE  PrsKept
  BY <1>16 DEF Publishes
<1> QED
  BY <1>1, <1>2, <1>3, <1>4, <1>5, <1>6, <1>7, <1>8, <1>9, <1>10, <1>11,
     <1>12, <1>13, <1>14, <1>15, <1>16
  DEF Next, Writer, Controller, Reconciler, GitHub, People


\* A CI run keeps what it is for, and one that ended its result.
CiKept ==
  /\ ci' \in Seq(CiT)
  /\ \A i \in DOMAIN ci :
       /\ i \in DOMAIN ci'
       /\ ci'[i].kind = ci[i].kind /\ ci'[i].head = ci[i].head
       /\ ci'[i].want = ci[i].want /\ ci'[i].base = ci[i].base
       /\ ci[i].st # "running" => ci'[i].st = ci[i].st

\* Tags and publications are never taken back.
ReleaseKept ==
  /\ tags' \subseteq [ver : Nat, commit : Nat]
  /\ tags \subseteq tags' /\ published \subseteq published' /\ dispatched \subseteq dispatched'

\* Every step keeps the CI runs.
LEMMA CiStep ==
  ASSUME Shapes, Holds, Next
  PROVE  CiKept
<1> USE DEF git, CiKept, Shapes
<1>1. ASSUME NEW k \in Kinds, Trigger(k)
      PROVE  CiKept
  BY <1>1 DEF Trigger
<1>2. ASSUME NEW i \in DOMAIN runs, StartRun(i)
      PROVE  CiKept
  BY <1>2 DEF StartRun
<1>3. ASSUME NEW j \in DOMAIN ci, CiWakes(j)
      PROVE  CiKept
  <2> DEFINE x == [ci[j] EXCEPT !.told = TRUE]
  <2>1. ci \in Seq(CiT) /\ x \in CiT
    BY CiFields DEF CiT, Shapes
  <2>2. ci' = [ci EXCEPT ![j] = x]
    BY <1>3 DEF CiWakes
  <2>3. /\ x.kind = ci[j].kind /\ x.head = ci[j].head /\ x.want = ci[j].want
        /\ x.base = ci[j].base /\ x.st = ci[j].st
    BY CiFields DEF CiT
  <2> HIDE DEF x
  <2> QED
    BY <2>1, <2>2, <2>3, ReplaceKeeps DEF CiKept
<1>4. ASSUME NEW j \in DOMAIN ci, NEW s \in {"success", "failure"}, CiFinish(j, s)
      PROVE  CiKept
  <2> DEFINE x == [ci[j] EXCEPT !.st = s]
  <2>1. ci \in Seq(CiT) /\ x \in CiT /\ ci[j].st = "running"
    BY <1>4, CiFields DEF CiT, CiFinish, Shapes
  <2>2. ci' = [ci EXCEPT ![j] = x]
    BY <1>4 DEF CiFinish
  <2>3. /\ x.kind = ci[j].kind /\ x.head = ci[j].head /\ x.want = ci[j].want
        /\ x.base = ci[j].base
    BY CiFields DEF CiT
  <2> HIDE DEF x
  <2> QED
    BY <2>1, <2>2, <2>3, ReplaceKeeps DEF CiKept
<1>5. ASSUME NEW c \in Catalogs \cup {x.cat : x \in {commits[y] : y \in DOMAIN commits}},
             WriterLease(c)
      PROVE  CiKept
  BY <1>5 DEF WriterLease, At, Go
<1>6. ASSUME \/ WriterBranch \/ WriterLeaseAgain \/ WriterCommit \/ WriterVerify
             \/ WriterPr \/ ControllerSkip \/ ControllerResolve \/ ControllerCheck
             \/ ControllerPolicy \/ ControllerMain \/ ControllerAgain \/ ControllerMerge
      PROVE  CiKept
  BY <1>6 DEF WriterBranch, WriterLeaseAgain, At, Go, WriterCommit, WriterVerify,
       WriterPr, AfterPr, ControllerSkip, ControllerResolve, ControllerCheck,
       ControllerPolicy, ControllerMain, ControllerAgain, ControllerMerge
<1>7. ASSUME \/ ControllerVerify \/ ControllerTagCheck \/ ControllerPushTags
             \/ ControllerDispatchRelease \/ RecStart \/ RecMain
             \/ RecControllers \/ RecRecheck \/ RecLast
      PROVE  CiKept
  BY <1>7 DEF ControllerVerify, At, Go, ControllerTagCheck, ControllerPushTags,
       ControllerDispatchRelease, RecStart, RecAt, RecGo, RecOrStop, Reads, RecMain,
       RecControllers, RecRecheck, RecLast
<1>8. ASSUME RecLease \/ RecDispatch \/ ToggleProtection \/ Crash \/ HumanTags
      PROVE  CiKept
  BY <1>8 DEF RecLease, RecAt, RecGo, RecOrStop, Reads, RecDispatch, ToggleProtection,
       Chaos, Crash, HumanTags
<1>9. ASSUME WriterDispatch
      PROVE  CiKept
  <2> DEFINE x == [kind |-> Me.kind, head |-> head[Me.kind], want |-> job.out,
                   base |-> Me.sha, st |-> "running", told |-> FALSE]
  <2>1. job.run # None /\ job.run \in DOMAIN runs
    BY <1>9 DEF WriterDispatch, At, Holds
  <2>2. Me.kind \in AllKinds /\ Me.sha \in Nat /\ job.out \in Nat
    BY <2>1, RunFields, JobFields DEF Me
  <2>3. head[Me.kind] \in Nat /\ ci \in Seq(CiT)
    BY <2>2 DEF Shapes
  <2>4. x \in CiT
    BY <2>2, <2>3 DEF CiT
  <2>5. ci' = ci \/ ci' = Append(ci, x)
    BY <1>9 DEF WriterDispatch
  <2> HIDE DEF x
  <2>6. /\ Append(ci, x) \in Seq(CiT)
        /\ \A i \in DOMAIN ci : i \in DOMAIN Append(ci, x) /\ Append(ci, x)[i] = ci[i]
    BY <2>3, <2>4, AppendKeeps
  <2> QED
    BY <2>3, <2>5, <2>6 DEF CiKept
<1>10. ASSUME NEW l \in AllKinds,
              RecCandidate(l) \/ HumanPushBranch(l) \/ HumanClosesPr(l)
       PROVE  CiKept
  BY <1>10 DEF RecCandidate, RecAt, RecGo, RecOrStop, Reads, HumanPushBranch, Chaos,
       HumanClosesPr
<1>11. ASSUME NEW h \in Catalogs \cup {commits[main].cat}, HumanPushMain(h)
       PROVE  CiKept
  BY <1>11 DEF HumanPushMain, Chaos
<1>12. ASSUME NEW v \in dispatched, Publishes(v)
       PROVE  CiKept
  BY <1>12 DEF Publishes
<1> QED
  BY <1>1, <1>2, <1>3, <1>4, <1>5, <1>6, <1>7, <1>8, <1>9, <1>10, <1>11,
     <1>12 DEF Next, Writer, Controller, Reconciler, GitHub, People

\* Every step keeps the tags and the publications.
LEMMA ReleaseStep ==
  ASSUME Shapes, Holds, State, Next
  PROVE  ReleaseKept
<1> USE DEF release, ReleaseKept, Shapes
<1>1. ASSUME NEW k \in Kinds, Trigger(k)
      PROVE  ReleaseKept
  BY <1>1 DEF Trigger
<1>2. ASSUME NEW i \in DOMAIN runs, StartRun(i)
      PROVE  ReleaseKept
  BY <1>2 DEF StartRun
<1>3. ASSUME NEW j \in DOMAIN ci, CiWakes(j)
      PROVE  ReleaseKept
  BY <1>3 DEF CiWakes
<1>4. ASSUME NEW j \in DOMAIN ci, NEW s \in {"success", "failure"}, CiFinish(j, s)
      PROVE  ReleaseKept
  BY <1>4 DEF CiFinish
<1>5. ASSUME NEW c \in Catalogs \cup {x.cat : x \in {commits[y] : y \in DOMAIN commits}},
             WriterLease(c)
      PROVE  ReleaseKept
  BY <1>5 DEF WriterLease, At, Go
<1>6. ASSUME \/ WriterBranch \/ WriterLeaseAgain \/ WriterCommit \/ WriterVerify
             \/ WriterPr \/ WriterDispatch \/ ControllerSkip \/ ControllerResolve
             \/ ControllerCheck \/ ControllerPolicy \/ ControllerMain \/ ControllerAgain
      PROVE  ReleaseKept
  BY <1>6 DEF WriterBranch, WriterLeaseAgain, At, Go, WriterCommit, WriterVerify,
       WriterPr, AfterPr, WriterDispatch, ControllerSkip, ControllerResolve,
       ControllerCheck, ControllerPolicy, ControllerMain, ControllerAgain
<1>7. ASSUME \/ ControllerMerge \/ ControllerVerify \/ ControllerTagCheck
             \/ ControllerDispatchRelease \/ RecStart \/ RecMain
             \/ RecControllers \/ RecRecheck \/ RecLast
      PROVE  ReleaseKept
  BY <1>7 DEF ControllerMerge, At, Go, ControllerVerify, ControllerTagCheck,
       ControllerDispatchRelease, RecStart, RecAt, RecGo, RecOrStop, Reads, RecMain,
       RecControllers, RecRecheck, RecLast
<1>8. ASSUME RecLease \/ RecDispatch \/ ToggleProtection \/ Crash
      PROVE  ReleaseKept
  BY <1>8 DEF RecLease, RecAt, RecGo, RecOrStop, Reads, RecDispatch, ToggleProtection,
       Chaos, Crash
<1>9. ASSUME ControllerPushTags
      PROVE  ReleaseKept
  <2>1. job.run \in DOMAIN runs /\ Me.what = "controller" /\ job.out \in Nat
    BY <1>9, JobFields DEF ControllerPushTags, At, Holds
  <2>2. Version \in Nat
    BY <2>1, BoundIs DEF State
  <2> QED
    BY <1>9, <2>1, <2>2 DEF ControllerPushTags, ReleaseKept, Shapes
<1>10. ASSUME NEW l \in AllKinds,
              RecCandidate(l) \/ HumanPushBranch(l) \/ HumanClosesPr(l)
       PROVE  ReleaseKept
  BY <1>10 DEF RecCandidate, RecAt, RecGo, RecOrStop, Reads, HumanPushBranch, Chaos,
       HumanClosesPr
<1>11. ASSUME NEW h \in Catalogs \cup {commits[main].cat}, HumanPushMain(h)
       PROVE  ReleaseKept
  BY <1>11 DEF HumanPushMain, Chaos
<1>12. ASSUME HumanTags
       PROVE  ReleaseKept
  <2>1. main \in Nat /\ main \in DOMAIN commits
    BY DEF State, Trunk, Shapes
  <2>2. commits[main].ver \in Nat
    BY <2>1, CommitFields
  <2> QED
    BY <1>12, <2>1, <2>2 DEF HumanTags, ReleaseKept, Shapes
<1>13. ASSUME NEW v \in dispatched, Publishes(v)
       PROVE  ReleaseKept
  BY <1>13 DEF Publishes
<1> QED
  BY <1>1, <1>2, <1>3, <1>4, <1>5, <1>6, <1>7, <1>8, <1>9, <1>10, <1>11,
     <1>12, <1>13 DEF Next, Writer, Controller, Reconciler, GitHub, People

\* The record of the job keeps its shape.
LEMMA JobShapeStep ==
  ASSUME Shapes, Holds, State, Next
  PROVE  job' \in JobT
<1> USE DEF Shapes
<1>1. ASSUME NEW k \in Kinds, Trigger(k)
      PROVE  job' \in JobT
  BY <1>1 DEF Trigger
<1>2. ASSUME NEW i \in DOMAIN runs, StartRun(i)
      PROVE  job' \in JobT
  <2>1. i \in Nat
    BY DEF Shapes
  <2> QED
    BY <1>2, <2>1 DEF StartRun, JobT, NoJob, Pcs, Pairs, None
<1>3. ASSUME NEW j \in DOMAIN ci, CiWakes(j)
      PROVE  job' \in JobT
  BY <1>3 DEF CiWakes
<1>4. ASSUME NEW j \in DOMAIN ci, NEW s \in {"success", "failure"}, CiFinish(j, s)
      PROVE  job' \in JobT
  BY <1>4 DEF CiFinish
<1>5. ASSUME NEW c \in Catalogs \cup {x.cat : x \in {commits[y] : y \in DOMAIN commits}},
             WriterLease(c)
      PROVE  job' \in JobT
  <2>1. job.run # None /\ job.run \in DOMAIN runs /\ job \in JobT /\ NoJob \in JobT
    BY <1>5 DEF WriterLease, At, Shapes, Holds, NoJob, JobT, Pcs, Pairs, None
  <2>3. Me.sha \in DOMAIN commits /\ Me.sha \in Nat
    BY <2>1, CommitFields DEF State, Runs, Fits, Trunk, Me
  <2>4. c \in Nat
    BY CommitFields, CatalogsAssumption
  <2>5. commits[Me.sha].ver \in Nat /\ commits[Me.sha].cat \in Nat
    BY <2>3, CommitFields
  <2>6. LatestTag.ver + 1 \in Nat
    BY LatestTagIs DEF State, Shapes
  <2>7. Candidate(Me.kind, Me.sha, c) \in Pairs
    BY <2>4, <2>5, <2>6 DEF Candidate, Pairs
  <2> QED
    BY <1>5, <2>1, <2>7 DEF WriterLease, End, Go, JobT, Pcs
<1>6. ASSUME WriterBranch
      PROVE  job' \in JobT
  <2>1. job.run # None /\ job.run \in DOMAIN runs /\ job \in JobT /\ NoJob \in JobT
    BY <1>6 DEF WriterBranch, At, Shapes, Holds, NoJob, JobT, Pcs, Pairs, None
  <2>2. /\ head[Me.kind] \in Nat /\ OpenPr(Me.kind) \in Nat /\ None \in Nat
    BY <2>1, OpenPrNumber, RunFields DEF Me, Shapes, None
  <2> QED
    BY <1>6, <2>1, <2>2 DEF WriterBranch, End, Go, JobT, Pcs
<1>7. ASSUME WriterCommit
      PROVE  job' \in JobT
  <2>1. job.run # None /\ job.run \in DOMAIN runs /\ job \in JobT /\ NoJob \in JobT
    BY <1>7 DEF WriterCommit, At, Shapes, Holds, NoJob, JobT, Pcs, Pairs, None
  <2>2. NextCommit \in Nat
    BY DEF NextCommit, Shapes
  <2> QED
    BY <1>7, <2>1, <2>2 DEF WriterCommit, End, Go, JobT, Pcs
<1>8. ASSUME WriterVerify
      PROVE  job' \in JobT
  <2>1. job.run # None /\ job.run \in DOMAIN runs /\ job \in JobT /\ NoJob \in JobT
    BY <1>8 DEF WriterVerify, At, Shapes, Holds, NoJob, JobT, Pcs, Pairs, None
  <2>2. OpenPr("data") \in Nat
    BY <2>1, OpenPrNumber
  <2> QED
    BY <1>8, <2>1, <2>2 DEF WriterVerify, End, Go, JobT, Pcs
<1>9. ASSUME WriterPr
      PROVE  job' \in JobT
  <2>1. job.run # None /\ job.run \in DOMAIN runs /\ job \in JobT /\ NoJob \in JobT
    BY <1>9 DEF WriterPr, At, Shapes, Holds, NoJob, JobT, Pcs, Pairs, None
  <2> QED
    BY <1>9, <2>1 DEF WriterPr, AfterPr, End, Go, JobT, Pcs
<1>9a. ASSUME WriterLeaseAgain
       PROVE  job' \in JobT
  <2>1. job.run # None /\ job.run \in DOMAIN runs /\ job \in JobT /\ NoJob \in JobT
    BY <1>9a DEF WriterLeaseAgain, At, Shapes, Holds, NoJob, JobT, Pcs, Pairs, None
  <2> QED
    BY <1>9a, <2>1 DEF WriterLeaseAgain, End, Go, JobT, Pcs
<1>10. ASSUME WriterDispatch
       PROVE  job' \in JobT
  <2>1. job.run # None /\ job.run \in DOMAIN runs /\ job \in JobT /\ NoJob \in JobT
    BY <1>10 DEF WriterDispatch, At, Shapes, Holds, NoJob, JobT, Pcs, Pairs, None
  <2> QED
    BY <1>10, <2>1 DEF WriterDispatch, End, Go, JobT, Pcs
<1>11. ASSUME ControllerSkip
       PROVE  job' \in JobT
  <2>1. job.run # None /\ job.run \in DOMAIN runs /\ job \in JobT /\ NoJob \in JobT
    BY <1>11 DEF ControllerSkip, At, Shapes, Holds, NoJob, JobT, Pcs, Pairs, None
  <2> QED
    BY <1>11, <2>1 DEF ControllerSkip, End, Go, JobT, Pcs
<1>12. ASSUME ControllerResolve
       PROVE  job' \in JobT
  <2>1. job.run # None /\ job.run \in DOMAIN runs /\ job \in JobT /\ NoJob \in JobT
    BY <1>12 DEF ControllerResolve, At, Shapes, Holds, NoJob, JobT, Pcs, Pairs, None
  <2>2. Me.pr \in Nat /\ OpenPr(Bound.kind) \in Nat
    BY <2>1, OpenPrNumber, RunFields DEF Me
  <2> QED
    BY <1>12, <2>1, <2>2 DEF ControllerResolve, End, Go, JobT, Pcs
<1>13. ASSUME ControllerCheck
       PROVE  job' \in JobT
  <2>1. job.run # None /\ job.run \in DOMAIN runs /\ job \in JobT /\ NoJob \in JobT
    BY <1>13 DEF ControllerCheck, At, Shapes, Holds, NoJob, JobT, Pcs, Pairs, None
  <2> QED
    BY <1>13, <2>1 DEF ControllerCheck, End, Go, JobT, Pcs
<1>13a. ASSUME ControllerPolicy
        PROVE  job' \in JobT
  <2>1. job.run # None /\ job.run \in DOMAIN runs /\ job \in JobT /\ NoJob \in JobT
    BY <1>13a DEF ControllerPolicy, At, Shapes, Holds, NoJob, JobT, Pcs, Pairs, None
  <2> QED
    BY <1>13a, <2>1 DEF ControllerPolicy, End, Go, JobT, Pcs
<1>13b. ASSUME ControllerMain
        PROVE  job' \in JobT
  <2>1. job.run # None /\ job.run \in DOMAIN runs /\ job \in JobT /\ NoJob \in JobT
    BY <1>13b DEF ControllerMain, At, Shapes, Holds, NoJob, JobT, Pcs, Pairs, None
  <2> QED
    BY <1>13b, <2>1 DEF ControllerMain, End, Go, JobT, Pcs
<1>14. ASSUME ControllerAgain
       PROVE  job' \in JobT
  <2>1. job.run # None /\ job.run \in DOMAIN runs /\ job \in JobT /\ NoJob \in JobT
    BY <1>14 DEF ControllerAgain, At, Shapes, Holds, NoJob, JobT, Pcs, Pairs, None
  <2> QED
    BY <1>14, <2>1 DEF ControllerAgain, End, Go, JobT, Pcs
<1>15. ASSUME ControllerMerge
       PROVE  job' \in JobT
  <2>1. job.run # None /\ job.run \in DOMAIN runs /\ job \in JobT /\ NoJob \in JobT
    BY <1>15 DEF ControllerMerge, At, Shapes, Holds, NoJob, JobT, Pcs, Pairs, None
  <2>2. NextCommit \in Nat
    BY DEF NextCommit, Shapes
  <2> QED
    BY <1>15, <2>1, <2>2 DEF ControllerMerge, End, Go, JobT, Pcs
<1>16. ASSUME ControllerVerify
       PROVE  job' \in JobT
  <2>1. job.run # None /\ job.run \in DOMAIN runs /\ job \in JobT /\ NoJob \in JobT
    BY <1>16 DEF ControllerVerify, At, Shapes, Holds, NoJob, JobT, Pcs, Pairs, None
  <2> QED
    BY <1>16, <2>1 DEF ControllerVerify, End, Go, JobT, Pcs
<1>17. ASSUME ControllerTagCheck
       PROVE  job' \in JobT
  <2>1. job.run # None /\ job.run \in DOMAIN runs /\ job \in JobT /\ NoJob \in JobT
    BY <1>17 DEF ControllerTagCheck, At, Shapes, Holds, NoJob, JobT, Pcs, Pairs, None
  <2> QED
    BY <1>17, <2>1 DEF ControllerTagCheck, End, Go, JobT, Pcs
<1>18. ASSUME ControllerPushTags
       PROVE  job' \in JobT
  <2>1. job.run # None /\ job.run \in DOMAIN runs /\ job \in JobT /\ NoJob \in JobT
    BY <1>18 DEF ControllerPushTags, At, Shapes, Holds, NoJob, JobT, Pcs, Pairs, None
  <2> QED
    BY <1>18, <2>1 DEF ControllerPushTags, End, Go, JobT, Pcs
<1>19. ASSUME ControllerDispatchRelease
       PROVE  job' \in JobT
  <2>1. job.run # None /\ job.run \in DOMAIN runs /\ job \in JobT /\ NoJob \in JobT
    BY <1>19 DEF ControllerDispatchRelease, At, Shapes, Holds, NoJob, JobT, Pcs, Pairs, None
  <2> QED
    BY <1>19, <2>1 DEF ControllerDispatchRelease, End, Go, JobT, Pcs
<1>20. ASSUME \/ RecStart \/ RecMain \/ RecControllers \/ RecRecheck \/ RecLast
              \/ RecLease \/ RecDispatch \/ ToggleProtection \/ HumanTags
       PROVE  job' \in JobT
  BY <1>20 DEF RecStart, RecAt, RecGo, RecOrStop, Reads, RecMain, RecControllers,
       RecRecheck, RecLast, RecLease, RecDispatch, ToggleProtection, Chaos, HumanTags
<1>21. ASSUME NEW l \in AllKinds,
              RecCandidate(l) \/ HumanPushBranch(l) \/ HumanClosesPr(l)
       PROVE  job' \in JobT
  BY <1>21 DEF RecCandidate, RecAt, RecGo, RecOrStop, Reads, HumanPushBranch, Chaos,
       HumanClosesPr
<1>22. ASSUME NEW h \in Catalogs \cup {commits[main].cat}, HumanPushMain(h)
       PROVE  job' \in JobT
  BY <1>22 DEF HumanPushMain, Chaos
<1>23. ASSUME Crash
       PROVE  job' \in JobT
  <2> QED
    BY <1>23 DEF Crash, End, NoJob, JobT, Pcs, Pairs, None
<1>24. ASSUME NEW v \in dispatched, Publishes(v)
       PROVE  job' \in JobT
  BY <1>24 DEF Publishes
<1> QED
  BY <1>1, <1>2, <1>3, <1>4, <1>5, <1>6, <1>7, <1>8, <1>9, <1>9a, <1>10, <1>11,
     <1>12, <1>13, <1>13a, <1>13b, <1>14, <1>15, <1>16, <1>17, <1>18, <1>19, <1>20,
     <1>21, <1>22, <1>23, <1>24 DEF Next, Writer, Controller, Reconciler, GitHub, People

\* The record of the reconciler keeps its shape.
LEMMA RecShapeStep ==
  ASSUME Shapes, Next
  PROVE  rec' \in RecT
<1> USE DEF Shapes
<1>1. ASSUME NEW k \in Kinds, Trigger(k)
      PROVE  rec' \in RecT
  BY <1>1 DEF Trigger
<1>2. ASSUME NEW i \in DOMAIN runs, StartRun(i)
      PROVE  rec' \in RecT
  BY <1>2 DEF StartRun
<1>3. ASSUME NEW j \in DOMAIN ci, CiWakes(j)
      PROVE  rec' \in RecT
  BY <1>3 DEF CiWakes
<1>4. ASSUME NEW j \in DOMAIN ci, NEW s \in {"success", "failure"}, CiFinish(j, s)
      PROVE  rec' \in RecT
  BY <1>4 DEF CiFinish
<1>5. ASSUME NEW c \in Catalogs \cup {x.cat : x \in {commits[y] : y \in DOMAIN commits}},
             WriterLease(c)
      PROVE  rec' \in RecT
  BY <1>5 DEF WriterLease, At, Go
<1>6. ASSUME \/ WriterBranch \/ WriterLeaseAgain \/ WriterCommit \/ WriterVerify
             \/ WriterPr \/ WriterDispatch \/ ControllerSkip \/ ControllerResolve
             \/ ControllerCheck \/ ControllerPolicy \/ ControllerMain \/ ControllerAgain
      PROVE  rec' \in RecT
  BY <1>6 DEF WriterBranch, WriterLeaseAgain, At, Go, WriterCommit, WriterVerify,
       WriterPr, AfterPr, WriterDispatch, ControllerSkip, ControllerResolve,
       ControllerCheck, ControllerPolicy, ControllerMain, ControllerAgain
<1>7. ASSUME \/ ControllerMerge \/ ControllerVerify \/ ControllerTagCheck
             \/ ControllerPushTags \/ ControllerDispatchRelease
             \/ ToggleProtection \/ Crash \/ HumanTags
      PROVE  rec' \in RecT
  BY <1>7 DEF ControllerMerge, At, Go, ControllerVerify, ControllerTagCheck,
       ControllerPushTags, ControllerDispatchRelease, ToggleProtection, Chaos, Crash,
       HumanTags
<1>8. ASSUME RecStart
      PROVE  rec' \in RecT
  <2>1. NoCandidate \in CandidateT /\ None \in Nat /\ rec \in RecT /\ main \in Nat
    BY DEF NoCandidate, CandidateT, None, Shapes
  <2>2. IdleRec \in RecT
    BY <2>1 DEF IdleRec, RecT, RecPcs
  <2> QED
    BY <1>8, <2>1, <2>2 DEF RecStart, RecAt, RecGo, RecOrStop, Reads, RecT, RecPcs, IdleRec
<1>9. ASSUME RecMain
      PROVE  rec' \in RecT
  <2>1. NoCandidate \in CandidateT /\ None \in Nat /\ rec \in RecT /\ main \in Nat
    BY DEF NoCandidate, CandidateT, None, Shapes
  <2>2. IdleRec \in RecT
    BY <2>1 DEF IdleRec, RecT, RecPcs
  <2> QED
    BY <1>9, <2>1, <2>2 DEF RecMain, RecAt, RecGo, RecOrStop, Reads, RecT, RecPcs
<1>10. ASSUME NEW l \in AllKinds, RecCandidate(l)
       PROVE  rec' \in RecT
  <2>1. CandidateOf(l, rec.sha) \in CandidateT /\ rec \in RecT
    BY CandidateIs DEF Shapes
  <2> QED
    BY <1>10, <2>1 DEF RecCandidate, RecT, RecPcs
<1>11. ASSUME RecControllers
       PROVE  rec' \in RecT
  <2>1. NoCandidate \in CandidateT /\ None \in Nat /\ rec \in RecT /\ main \in Nat
    BY DEF NoCandidate, CandidateT, None, Shapes
  <2>2. IdleRec \in RecT
    BY <2>1 DEF IdleRec, RecT, RecPcs
  <2>3. Choice \in AllKinds \cup {"none"}
    BY DEF Choice, AllKinds
  <2> QED
    BY <1>11, <2>1, <2>2, <2>3 DEF RecControllers, RecT, RecPcs
<1>12. ASSUME RecRecheck
       PROVE  rec' \in RecT
  <2>1. NoCandidate \in CandidateT /\ None \in Nat /\ rec \in RecT /\ main \in Nat
    BY DEF NoCandidate, CandidateT, None, Shapes
  <2>2. IdleRec \in RecT
    BY <2>1 DEF IdleRec, RecT, RecPcs
  <2> QED
    BY <1>12, <2>1, <2>2 DEF RecRecheck, RecAt, RecGo, RecOrStop, Reads, RecT, RecPcs
<1>13. ASSUME RecLast
       PROVE  rec' \in RecT
  <2>1. NoCandidate \in CandidateT /\ None \in Nat /\ rec \in RecT /\ main \in Nat
    BY DEF NoCandidate, CandidateT, None, Shapes
  <2>2. IdleRec \in RecT
    BY <2>1 DEF IdleRec, RecT, RecPcs
  <2> QED
    BY <1>13, <2>1, <2>2 DEF RecLast, RecAt, RecGo, RecOrStop, Reads, RecT, RecPcs
<1>14. ASSUME RecLease
       PROVE  rec' \in RecT
  <2>1. NoCandidate \in CandidateT /\ None \in Nat /\ rec \in RecT /\ main \in Nat
    BY DEF NoCandidate, CandidateT, None, Shapes
  <2>2. IdleRec \in RecT
    BY <2>1 DEF IdleRec, RecT, RecPcs
  <2> QED
    BY <1>14, <2>1, <2>2 DEF RecLease, RecAt, RecGo, RecOrStop, Reads, RecT, RecPcs
<1>15. ASSUME RecDispatch
       PROVE  rec' \in RecT
  <2>1. NoCandidate \in CandidateT /\ None \in Nat /\ rec \in RecT /\ main \in Nat
    BY DEF NoCandidate, CandidateT, None, Shapes
  <2>2. IdleRec \in RecT
    BY <2>1 DEF IdleRec, RecT, RecPcs
  <2> QED
    BY <1>15, <2>1, <2>2 DEF RecDispatch, RecAt, RecGo, RecOrStop, Reads, RecT, RecPcs
<1>16. ASSUME NEW h \in Catalogs \cup {commits[main].cat}, HumanPushMain(h)
       PROVE  rec' \in RecT
  BY <1>16 DEF HumanPushMain, Chaos
<1>17. ASSUME NEW l \in AllKinds, HumanPushBranch(l) \/ HumanClosesPr(l)
       PROVE  rec' \in RecT
  BY <1>17 DEF HumanPushBranch, Chaos, HumanClosesPr
<1>18. ASSUME NEW v \in dispatched, Publishes(v)
       PROVE  rec' \in RecT
  BY <1>18 DEF Publishes
<1> QED
  BY <1>1, <1>2, <1>3, <1>4, <1>5, <1>6, <1>7, <1>8, <1>9, <1>10, <1>11,
     <1>12, <1>13, <1>14, <1>15, <1>16, <1>17, <1>18
  DEF Next, Writer, Controller, Reconciler, GitHub, People


Kept == RunsKept /\ CommitsKept /\ PrsKept /\ CiKept /\ ReleaseKept

\* The running run holds the group.
LEMMA RunHolds ==
  ASSUME Job, Runs
  PROVE  Holds
BY DEF Job, Runs, Holds

\* Every step keeps everything that is kept, and the shape of the state.
LEMMA KeptStep ==
  ASSUME State, Progress, Next
  PROVE  Kept /\ Shapes'
<1>1. Shapes /\ Holds /\ Job /\ Reconciling
  BY RunHolds DEF State, Progress
<1>2. RunsKept
  BY <1>1, RunsStep
<1>3. CommitsKept
  BY <1>1, CommitsStep
<1>4. PrsKept
  BY <1>1, PrsStep
<1>5. CiKept
  BY <1>1, CiStep
<1>6. ReleaseKept
  BY <1>1, ReleaseStep
<1>7. job' \in JobT
  BY <1>1, JobShapeStep
<1>8. rec' \in RecT
  BY <1>1, RecShapeStep
<1>9. Shapes'
  BY <1>2, <1>3, <1>4, <1>5, <1>6, <1>7, <1>8
     DEF Shapes, RunsKept, CommitsKept, PrsKept, CiKept, ReleaseKept
<1> QED
  BY <1>2, <1>3, <1>4, <1>5, <1>6, <1>9 DEF Kept

-------------------------------------------------------------------------------
(* The invariant, part by part.                                            *)

\* What a merge ships is not behind main, and at most one version ahead of the tags.
LEMMA MergeVersion ==
  ASSUME State, Controlling, job.run # None, Me.what = "controller", job.pc = "merge"
  PROVE  /\ Bound.head \in DOMAIN commits /\ MergedTree(Bound.head) \in Pairs
         /\ commits[main].ver <= MergedTree(Bound.head)[2]
         /\ \E t \in tags : MergedTree(Bound.head)[2] <= t.ver + 1
<1> DEFINE h == Bound.head
<1>1. /\ Shapes /\ Checks /\ Runs /\ Trunk /\ Tags /\ job.run \in DOMAIN runs
      /\ main \in DOMAIN commits
  BY DEF State, Job, Trunk
<1>2. /\ h \in DOMAIN commits /\ Bound.kind = Me.kind /\ Me.kind \in AllKinds
      /\ Version = commits[h].ver
      /\ Bound.st = "success" => commits[h].by = Bound.kind
  BY <1>1, BoundIs
<1>3. /\ Bound.st = "success"
      /\ Release => /\ commits[main].ver <= Version
                    /\ \E t \in tags : Version <= t.ver + 1
  BY DEF Controlling
<1>4. /\ MergedTree(h) \in Pairs
      /\ MergedTree(h)[2] = IF Tree(h)[2] # Tree(commits[h].parent)[2]
                            THEN commits[h].ver ELSE commits[main].ver
  BY <1>1, <1>2, MergedTreeIs
<1>5. commits[main].ver \in Nat /\ \E t \in tags : commits[main].ver <= t.ver + 1
  BY <1>1, CommitFields DEF Tags
<1>6. CASE Release
  BY <1>2, <1>3, <1>4, <1>5, <1>6
<1>7. CASE ~Release
  <2>1. commits[h].by = "data"
    BY <1>2, <1>3, <1>7 DEF AllKinds, Release
  <2>2. commits[commits[h].parent].ver = commits[h].ver
    BY <1>1, <1>2, <2>1 DEF Trunk
  <2>3. Tree(h)[2] = Tree(commits[h].parent)[2]
    BY <2>2 DEF Tree
  <2> QED
    BY <1>2, <1>4, <1>5, <2>3
<1> QED
  BY <1>6, <1>7

\* Main and the past of main, when a commit is added on main or elsewhere.
LEMMA TrunkAppended ==
  ASSUME Shapes, Trunk, NEW x \in CommitT, commits' = Append(commits, x),
         x.parent < NextCommit, x.second < NextCommit,
         x.by = "data" => x.parent \in trunk /\ commits[x.parent].ver = x.ver,
         \/ main' = main /\ trunk' = trunk
         \/ /\ main' = NextCommit /\ trunk' = trunk \cup {NextCommit}
            /\ commits[main].ver <= x.ver
  PROVE  Trunk'
<1>1. /\ NextCommit \in Nat /\ NextCommit \notin DOMAIN commits
      /\ \A c \in DOMAIN commits : c < NextCommit
      /\ DOMAIN commits' = DOMAIN commits \cup {NextCommit}
      /\ commits'[NextCommit] = x
      /\ \A c \in DOMAIN commits : c \in DOMAIN commits' /\ commits'[c] = commits[c]
  BY CommitsAppended
<1>2. /\ main \in trunk /\ trunk \subseteq DOMAIN commits
      /\ \A a \in trunk : a <= main
      /\ \A a, b \in trunk : a <= b => commits[a].ver <= commits[b].ver
  BY DEF Trunk
<1>3. \A c \in DOMAIN commits : c \in Nat /\ commits[c].ver \in Nat
  BY CommitFields
<1>4. main' \in trunk' /\ trunk' \subseteq DOMAIN commits' /\ \A a \in trunk' : a <= main'
  BY <1>1, <1>2, <1>3
<1>5. \A a, b \in trunk' : a <= b => commits'[a].ver <= commits'[b].ver
  <2>1. CASE main' = main /\ trunk' = trunk
    BY <1>1, <1>2, <2>1
  <2>2. CASE /\ main' = NextCommit /\ trunk' = trunk \cup {NextCommit}
             /\ commits[main].ver <= x.ver
    <3>1. \A a \in trunk : a < NextCommit /\ commits[a].ver <= x.ver
      BY <1>1, <1>2, <1>3, <2>2 DEF CommitT
    <3>2. x.ver \in Nat
      BY DEF CommitT
    <3> QED
      BY <1>1, <1>2, <1>3, <2>2, <3>1, <3>2
  <2> QED
    BY <2>1, <2>2
<1>6. \A c \in DOMAIN commits' :
        /\ commits'[c].parent < c /\ commits'[c].second < c
        /\ commits'[c].by = "data" =>
             commits'[c].parent \in trunk' /\ commits'[commits'[c].parent].ver = commits'[c].ver
  <2>1. \A c \in DOMAIN commits :
          /\ commits[c].parent < c /\ commits[c].second < c
          /\ commits[c].by = "data" =>
               commits[c].parent \in trunk /\ commits[commits[c].parent].ver = commits[c].ver
    BY DEF Trunk
  <2>2. trunk \subseteq trunk' /\ trunk \subseteq DOMAIN commits
    BY <1>2
  <2> QED
    BY <1>1, <2>1, <2>2
<1> QED
  BY <1>4, <1>5, <1>6 DEF Trunk

\* The tags, when a commit is added on main or elsewhere.
LEMMA TagsAppended ==
  ASSUME Shapes, Trunk, Tags, NEW x \in CommitT, commits' = Append(commits, x),
         UNCHANGED release,
         \/ main' = main /\ trunk' = trunk
         \/ /\ main' = NextCommit /\ trunk' = trunk \cup {NextCommit}
            /\ \E t \in tags : x.ver <= t.ver + 1
  PROVE  Tags'
<1>1. /\ NextCommit \in Nat /\ NextCommit \notin DOMAIN commits
      /\ DOMAIN commits' = DOMAIN commits \cup {NextCommit}
      /\ commits'[NextCommit] = x
      /\ \A c \in DOMAIN commits : c \in DOMAIN commits' /\ commits'[c] = commits[c]
  BY CommitsAppended
<1>2. main \in trunk /\ trunk \subseteq DOMAIN commits /\ trunk \subseteq trunk'
  BY DEF Trunk
<1>3. tags' = tags /\ published' = published /\ dispatched' = dispatched
  BY DEF release
<1>4. \A t \in tags' : t.commit \in trunk' /\ commits'[t.commit].ver = t.ver
  BY <1>1, <1>2, <1>3 DEF Tags
<1>5. \E t \in tags' : commits'[main'].ver <= t.ver + 1
  BY <1>1, <1>2, <1>3 DEF Tags
<1>6. \A v \in dispatched' : \E c \in DOMAIN commits' : commits'[c].ver = v
  BY <1>1, <1>3 DEF Tags
<1> QED
  BY <1>3, <1>4, <1>5, <1>6 DEF Tags

\* Main only moves to a new commit whose version is not behind its own.
LEMMA TrunkStep ==
  ASSUME State, Progress, Shapes, Next
  PROVE  Trunk'
<1> USE DEF git, Trunk, State
<1>1. ASSUME NEW k \in Kinds, Trigger(k)
      PROVE  Trunk'
  BY <1>1 DEF Trigger
<1>2. ASSUME NEW i \in DOMAIN runs, StartRun(i)
      PROVE  Trunk'
  BY <1>2 DEF StartRun
<1>3. ASSUME NEW j \in DOMAIN ci, CiWakes(j)
      PROVE  Trunk'
  BY <1>3 DEF CiWakes
<1>4. ASSUME NEW j \in DOMAIN ci, NEW s \in {"success", "failure"}, CiFinish(j, s)
      PROVE  Trunk'
  BY <1>4 DEF CiFinish
<1>5. ASSUME NEW c \in Catalogs \cup {x.cat : x \in {commits[y] : y \in DOMAIN commits}},
             WriterLease(c)
      PROVE  Trunk'
  BY <1>5 DEF WriterLease, At, Go
<1>6. ASSUME \/ WriterBranch \/ WriterLeaseAgain \/ WriterVerify \/ WriterPr
             \/ WriterDispatch \/ ControllerSkip \/ ControllerResolve \/ ControllerCheck
             \/ ControllerPolicy \/ ControllerMain \/ ControllerAgain \/ ControllerVerify
      PROVE  Trunk'
  BY <1>6 DEF WriterBranch, WriterLeaseAgain, At, Go, WriterVerify, WriterPr, AfterPr,
       WriterDispatch, ControllerSkip, ControllerResolve, ControllerCheck,
       ControllerPolicy, ControllerMain, ControllerAgain, ControllerVerify
<1>7. ASSUME \/ ControllerTagCheck \/ ControllerPushTags
             \/ ControllerDispatchRelease \/ RecStart \/ RecMain
             \/ RecControllers \/ RecRecheck \/ RecLast \/ RecLease
      PROVE  Trunk'
  BY <1>7 DEF ControllerTagCheck, At, Go, ControllerPushTags,
       ControllerDispatchRelease, RecStart, RecAt, RecGo, RecOrStop, Reads, RecMain,
       RecControllers, RecRecheck, RecLast, RecLease
<1>8. ASSUME RecDispatch \/ ToggleProtection \/ Crash \/ HumanTags
      PROVE  Trunk'
  BY <1>8 DEF RecDispatch, RecAt, RecGo, RecOrStop, Reads, ToggleProtection, Chaos,
       Crash, HumanTags
<1>9. ASSUME WriterCommit
      PROVE  Trunk'
  <2>1. job.run # None /\ job.run \in DOMAIN runs /\ Me.what = "writer" /\ job.pc = "commit"
    BY <1>9 DEF WriterCommit, At, State, Job
  <2>2. /\ Me.kind \in AllKinds /\ Me.sha \in trunk /\ Me.sha \in Nat /\ job.tree \in Pairs
        /\ None \in Nat
    BY <2>1, RunFields, JobFields DEF State, Runs, Fits, Me, None
  <2> DEFINE x == Commit(Me.kind, Me.sha, None, job.tree)
  <2>3. /\ x \in CommitT /\ x.by = Me.kind /\ x.parent = Me.sha /\ x.second = None
        /\ x.ver = job.tree[2]
    BY <2>2, CommitIs DEF Commit
  <2>4. \/ commits' = commits /\ main' = main /\ trunk' = trunk
        \/ commits' = Append(commits, x) /\ main' = main /\ trunk' = trunk
    BY <1>9 DEF WriterCommit, git
  <2>9. NextCommit \in Nat /\ None < NextCommit /\ \A c \in DOMAIN commits : c < NextCommit
    BY DEF NextCommit, None, State, Shapes
  <2>5. Me.sha < NextCommit
    BY <2>2, <2>9 DEF State, Trunk
  <2>6. Me.kind = "data" => job.tree[2] = commits[Me.sha].ver
    BY <2>1 DEF Progress, Writing
  <2> HIDE DEF x
  <2> QED
    BY <2>2, <2>3, <2>4, <2>5, <2>6, <2>9, TrunkAppended DEF State, Trunk
<1>10. ASSUME ControllerMerge
       PROVE  Trunk'
  <2>1. job.run # None /\ Me.what = "controller" /\ job.pc = "merge"
    BY <1>10 DEF ControllerMerge, At
  <2>2. /\ Bound.head \in DOMAIN commits /\ MergedTree(Bound.head) \in Pairs
        /\ commits[main].ver <= MergedTree(Bound.head)[2]
        /\ \E t \in tags : MergedTree(Bound.head)[2] <= t.ver + 1
    BY <2>1, MergeVersion DEF Progress
  <2>3. main \in DOMAIN commits /\ main \in Nat /\ Bound.head \in Nat
    BY <2>2, CommitFields DEF State, Trunk, Shapes
  <2> DEFINE x == Commit("merge", main, Bound.head, MergedTree(Bound.head))
  <2>4. /\ x \in CommitT /\ x.by = "merge" /\ x.parent = main /\ x.second = Bound.head
        /\ x.ver = MergedTree(Bound.head)[2]
    BY <2>2, <2>3, CommitIs DEF Commit
  <2>5. \/ commits' = commits /\ main' = main /\ trunk' = trunk
        \/ /\ commits' = Append(commits, x) /\ main' = NextCommit
           /\ trunk' = trunk \cup {NextCommit}
    BY <1>10 DEF ControllerMerge, git
  <2>9. NextCommit \in Nat /\ None < NextCommit /\ \A c \in DOMAIN commits : c < NextCommit
    BY DEF NextCommit, None, State, Shapes
  <2> HIDE DEF x
  <2> QED
    BY <2>2, <2>3, <2>4, <2>5, <2>9, TrunkAppended DEF State, Trunk
<1>11. ASSUME NEW l \in AllKinds, RecCandidate(l) \/ HumanClosesPr(l)
       PROVE  Trunk'
  BY <1>11 DEF RecCandidate, RecAt, RecGo, RecOrStop, Reads, HumanClosesPr, Chaos
<1>12. ASSUME NEW h \in Catalogs \cup {commits[main].cat}, HumanPushMain(h)
       PROVE  Trunk'
  <2>1. main \in DOMAIN commits /\ main \in Nat
    BY DEF State, Shapes, Trunk
  <2>2. commits[main].cat \in Nat /\ commits[main].ver \in Nat /\ None \in Nat
    BY <2>1, CommitFields DEF None, State
  <2>3. h \in Nat /\ <<h, commits[main].ver>> \in Pairs
    BY <1>12, <2>2, CatalogsAssumption DEF Pairs
  <2> DEFINE x == Commit("human", main, None, <<h, commits[main].ver>>)
  <2>4. /\ x \in CommitT /\ x.by = "human" /\ x.parent = main /\ x.second = None
        /\ x.ver = commits[main].ver
    BY <2>1, <2>2, <2>3, CommitIs DEF Commit
  <2>5. commits' = Append(commits, x) /\ main' = NextCommit /\ trunk' = trunk \cup {NextCommit}
    BY <1>12 DEF HumanPushMain
  <2>9. NextCommit \in Nat /\ None < NextCommit /\ \A c \in DOMAIN commits : c < NextCommit
    BY DEF NextCommit, None, State, Shapes
  <2> HIDE DEF x
  <2> QED
    BY <2>1, <2>2, <2>4, <2>5, <2>9, TrunkAppended DEF State
<1>13. ASSUME NEW l \in AllKinds, HumanPushBranch(l)
       PROVE  Trunk'
  <2>1. head[l] \in DOMAIN commits
    BY <1>13 DEF HumanPushBranch, State, Pulls
  <2>2. /\ commits[head[l]].parent \in Nat /\ Tree(head[l]) \in Pairs /\ None \in Nat
        /\ head[l] \in Nat
    BY <2>1, CommitFields DEF None, State
  <2> DEFINE x == Commit("human", commits[head[l]].parent, None, Tree(head[l]))
  <2>3. /\ x \in CommitT /\ x.by = "human" /\ x.parent = commits[head[l]].parent
        /\ x.second = None
    BY <2>2, CommitIs DEF Commit
  <2>4. commits' = Append(commits, x) /\ main' = main /\ trunk' = trunk
    BY <1>13 DEF HumanPushBranch
  <2>9. NextCommit \in Nat /\ None < NextCommit /\ \A c \in DOMAIN commits : c < NextCommit
    BY DEF NextCommit, None, State, Shapes
  <2>5. commits[head[l]].parent < NextCommit
    BY <2>1, <2>2, <2>9 DEF State, Trunk
  <2> HIDE DEF x
  <2> QED
    BY <2>3, <2>4, <2>5, <2>9, TrunkAppended DEF State
<1>14. ASSUME NEW v \in dispatched, Publishes(v)
       PROVE  Trunk'
  BY <1>14 DEF Publishes
<1> QED
  BY <1>1, <1>2, <1>3, <1>4, <1>5, <1>6, <1>7, <1>8, <1>9, <1>10, <1>11,
     <1>12, <1>13, <1>14 DEF Next, Writer, Controller, Reconciler, GitHub, People

\* Tags stay those of main, and main stays one version ahead of them at most.
LEMMA TagsStep ==
  ASSUME State, Progress, Shapes, Next
  PROVE  Tags'
<1> USE DEF git, release, Tags, State
<1>1. ASSUME NEW k \in Kinds, Trigger(k)
      PROVE  Tags'
  BY <1>1 DEF Trigger
<1>2. ASSUME NEW i \in DOMAIN runs, StartRun(i)
      PROVE  Tags'
  BY <1>2 DEF StartRun
<1>3. ASSUME NEW j \in DOMAIN ci, CiWakes(j)
      PROVE  Tags'
  BY <1>3 DEF CiWakes
<1>4. ASSUME NEW j \in DOMAIN ci, NEW s \in {"success", "failure"}, CiFinish(j, s)
      PROVE  Tags'
  BY <1>4 DEF CiFinish
<1>5. ASSUME NEW c \in Catalogs \cup {x.cat : x \in {commits[y] : y \in DOMAIN commits}},
             WriterLease(c)
      PROVE  Tags'
  BY <1>5 DEF WriterLease, At, Go
<1>6. ASSUME \/ WriterBranch \/ WriterLeaseAgain \/ WriterVerify \/ WriterPr
             \/ WriterDispatch \/ ControllerSkip \/ ControllerResolve \/ ControllerCheck
             \/ ControllerPolicy \/ ControllerMain \/ ControllerAgain \/ ControllerVerify
      PROVE  Tags'
  BY <1>6 DEF WriterBranch, WriterLeaseAgain, At, Go, WriterVerify, WriterPr, AfterPr,
       WriterDispatch, ControllerSkip, ControllerResolve, ControllerCheck,
       ControllerPolicy, ControllerMain, ControllerAgain, ControllerVerify
<1>7. ASSUME \/ ControllerTagCheck \/ RecStart \/ RecMain \/ RecControllers
             \/ RecRecheck \/ RecLast \/ RecLease \/ RecDispatch
             \/ ToggleProtection
      PROVE  Tags'
  BY <1>7 DEF ControllerTagCheck, At, Go, RecStart, RecAt, RecGo, RecOrStop, Reads,
       RecMain, RecControllers, RecRecheck, RecLast, RecLease, RecDispatch,
       ToggleProtection, Chaos
<1>8. ASSUME Crash
      PROVE  Tags'
  BY <1>8 DEF Crash, Chaos
<1>9. ASSUME WriterCommit
      PROVE  Tags'
  <2>1. job.run # None /\ job.run \in DOMAIN runs /\ Me.what = "writer" /\ job.pc = "commit"
    BY <1>9 DEF WriterCommit, At, State, Job
  <2>2. /\ Me.kind \in AllKinds /\ Me.sha \in trunk /\ Me.sha \in Nat /\ job.tree \in Pairs
        /\ None \in Nat
    BY <2>1, RunFields, JobFields DEF State, Runs, Fits, Me, None
  <2> DEFINE x == Commit(Me.kind, Me.sha, None, job.tree)
  <2>3. /\ x \in CommitT /\ x.by = Me.kind /\ x.parent = Me.sha /\ x.second = None
        /\ x.ver = job.tree[2]
    BY <2>2, CommitIs DEF Commit
  <2>4. \/ commits' = commits /\ main' = main /\ trunk' = trunk
        \/ commits' = Append(commits, x) /\ main' = main /\ trunk' = trunk
    BY <1>9 DEF WriterCommit, git
  <2>5. UNCHANGED release
    BY <1>9 DEF WriterCommit
  <2> HIDE DEF x
  <2> QED
    BY <2>3, <2>4, <2>5, TagsAppended DEF State, Tags, release
<1>10. ASSUME ControllerMerge
       PROVE  Tags'
  <2>1. job.run # None /\ Me.what = "controller" /\ job.pc = "merge"
    BY <1>10 DEF ControllerMerge, At
  <2>2. /\ Bound.head \in DOMAIN commits /\ MergedTree(Bound.head) \in Pairs
        /\ commits[main].ver <= MergedTree(Bound.head)[2]
        /\ \E t \in tags : MergedTree(Bound.head)[2] <= t.ver + 1
    BY <2>1, MergeVersion DEF Progress
  <2>3. main \in DOMAIN commits /\ main \in Nat /\ Bound.head \in Nat
    BY <2>2, CommitFields DEF State, Trunk, Shapes
  <2> DEFINE x == Commit("merge", main, Bound.head, MergedTree(Bound.head))
  <2>4. /\ x \in CommitT /\ x.by = "merge" /\ x.parent = main /\ x.second = Bound.head
        /\ x.ver = MergedTree(Bound.head)[2]
    BY <2>2, <2>3, CommitIs DEF Commit
  <2>5. \/ commits' = commits /\ main' = main /\ trunk' = trunk
        \/ /\ commits' = Append(commits, x) /\ main' = NextCommit
           /\ trunk' = trunk \cup {NextCommit}
    BY <1>10 DEF ControllerMerge, git
  <2>6. UNCHANGED release
    BY <1>10 DEF ControllerMerge
  <2> HIDE DEF x
  <2> QED
    BY <2>2, <2>4, <2>5, <2>6, TagsAppended DEF State, Tags, release
<1>11. ASSUME ControllerPushTags
       PROVE  Tags'
  <2>1. /\ job.run # None /\ job.run \in DOMAIN runs /\ Me.what = "controller"
        /\ job.pc = "push"
    BY <1>11 DEF ControllerPushTags, At, State, Job
  <2>2. Bound.head \in DOMAIN commits /\ Version \in Nat /\ Version = commits[Bound.head].ver
    BY <2>1, BoundIs DEF State
  <2>3. job.out \in trunk /\ Tree(job.out) = Tree(Bound.head)
    BY <2>1 DEF Progress, Controlling
  <2>4. job.out \in DOMAIN commits
    BY <2>3 DEF State, Trunk
  <2>5. commits[job.out].ver = Version
    BY <2>2, <2>3 DEF Tree
  <2>6. /\ commits' = commits /\ main' = main /\ trunk' = trunk
        /\ published' = published /\ dispatched' = dispatched
    BY <1>11 DEF ControllerPushTags, git
  <2>7. \/ tags' = tags
        \/ /\ tags' = tags \cup {[ver |-> Version, commit |-> job.out]}
           /\ \A t \in tags : t.ver # Version
    BY <1>11 DEF ControllerPushTags, Tagged
  <2>8. PICK t0 \in tags : \A u \in tags : u.ver <= t0.ver
    BY DEF State, Tags
  <2>9. \A t \in tags : t.ver \in Nat
    BY DEF State, Shapes
  <2>10. \E t \in tags' : \A u \in tags' : u.ver <= t.ver
    <3>1. CASE Version <= t0.ver
      BY <2>7, <2>8, <3>1
    <3>2. CASE ~ (Version <= t0.ver)
      <4>1. \A u \in tags : u.ver <= Version
        BY <2>2, <2>8, <2>9, <3>2
      <4> QED
        BY <2>2, <2>7, <2>8, <4>1
    <3> QED
      BY <3>1, <3>2
  <2> QED
    BY <2>2, <2>3, <2>5, <2>6, <2>7, <2>10 DEF State, Tags
<1>12. ASSUME ControllerDispatchRelease
       PROVE  Tags'
  <2>1. job.run # None /\ job.run \in DOMAIN runs /\ Me.what = "controller"
    BY <1>12 DEF ControllerDispatchRelease, At, State, Job
  <2>2. Bound.head \in DOMAIN commits /\ Version = commits[Bound.head].ver
    BY <2>1, BoundIs DEF State
  <2> QED
    BY <1>12, <2>2 DEF ControllerDispatchRelease, State, Tags
<1>13. ASSUME NEW l \in AllKinds, RecCandidate(l) \/ HumanClosesPr(l)
       PROVE  Tags'
  BY <1>13 DEF RecCandidate, RecAt, RecGo, RecOrStop, Reads, HumanClosesPr, Chaos
<1>14. ASSUME NEW h \in Catalogs \cup {commits[main].cat}, HumanPushMain(h)
       PROVE  Tags'
  <2>1. main \in DOMAIN commits /\ main \in Nat
    BY DEF State, Shapes, Trunk
  <2>2. commits[main].cat \in Nat /\ commits[main].ver \in Nat /\ None \in Nat
    BY <2>1, CommitFields DEF None, State
  <2>3. h \in Nat /\ <<h, commits[main].ver>> \in Pairs
    BY <1>14, <2>2, CatalogsAssumption DEF Pairs
  <2> DEFINE x == Commit("human", main, None, <<h, commits[main].ver>>)
  <2>4. /\ x \in CommitT /\ x.by = "human" /\ x.parent = main /\ x.second = None
        /\ x.ver = commits[main].ver
    BY <2>1, <2>2, <2>3, CommitIs DEF Commit
  <2>5. commits' = Append(commits, x) /\ main' = NextCommit /\ trunk' = trunk \cup {NextCommit}
    BY <1>14 DEF HumanPushMain
  <2>6. UNCHANGED release /\ \E t \in tags : x.ver <= t.ver + 1
    BY <1>14, <2>4 DEF HumanPushMain, State, Tags
  <2> HIDE DEF x
  <2> QED
    BY <2>4, <2>5, <2>6, TagsAppended DEF State
<1>15. ASSUME NEW l \in AllKinds, HumanPushBranch(l)
       PROVE  Tags'
  <2>1. head[l] \in DOMAIN commits
    BY <1>15 DEF HumanPushBranch, State, Pulls
  <2>2. /\ commits[head[l]].parent \in Nat /\ Tree(head[l]) \in Pairs /\ None \in Nat
        /\ head[l] \in Nat
    BY <2>1, CommitFields DEF None, State
  <2> DEFINE x == Commit("human", commits[head[l]].parent, None, Tree(head[l]))
  <2>3. /\ x \in CommitT /\ x.by = "human" /\ x.parent = commits[head[l]].parent
        /\ x.second = None
    BY <2>2, CommitIs DEF Commit
  <2>4. commits' = Append(commits, x) /\ main' = main /\ trunk' = trunk
    BY <1>15 DEF HumanPushBranch
  <2>5. UNCHANGED release
    BY <1>15 DEF HumanPushBranch
  <2> HIDE DEF x
  <2> QED
    BY <2>3, <2>4, <2>5, TagsAppended DEF State
<1>16. ASSUME HumanTags
       PROVE  Tags'
  <2> DEFINE v == commits[main].ver
  <2>1. main \in trunk /\ main \in DOMAIN commits
    BY DEF State, Trunk
  <2>2. v \in Nat
    BY <2>1, CommitFields
  <2>6. /\ commits' = commits /\ main' = main /\ trunk' = trunk
        /\ published' = published /\ dispatched' = dispatched \cup {v}
    BY <1>16 DEF HumanTags, git
  <2>7. /\ tags' = tags \cup {[ver |-> v, commit |-> main]}
        /\ \A t \in tags : t.ver # v
    BY <1>16 DEF HumanTags, Tagged
  <2>8. PICK t0 \in tags : \A u \in tags : u.ver <= t0.ver
    BY DEF State, Tags
  <2>9. \A t \in tags : t.ver \in Nat
    BY DEF State, Shapes
  <2>10. \E t \in tags' : \A u \in tags' : u.ver <= t.ver
    <3>1. CASE v <= t0.ver
      BY <2>7, <2>8, <3>1
    <3>2. CASE ~ (v <= t0.ver)
      <4>1. \A u \in tags : u.ver <= v
        BY <2>2, <2>8, <2>9, <3>2
      <4> QED
        BY <2>2, <2>7, <2>8, <4>1
    <3> QED
      BY <3>1, <3>2
  <2> QED
    BY <2>1, <2>6, <2>7, <2>10 DEF State, Tags
<1>17. ASSUME NEW v \in dispatched, Publishes(v)
       PROVE  Tags'
  BY <1>17 DEF Publishes, Tags, git, State
<1> QED
  BY <1>1, <1>2, <1>3, <1>4, <1>5, <1>6, <1>7, <1>8, <1>9, <1>10, <1>11,
     <1>12, <1>13, <1>14, <1>15, <1>16, <1>17
  DEF Next, Writer, Controller, Reconciler, GitHub, People


\* The pull requests, when a branch moves to a new commit.
LEMMA PullsMoved ==
  ASSUME State, Kept, NEW k \in AllKinds, MoveBranch(k, NextCommit),
         NextCommit \in DOMAIN commits'
  PROVE  Pulls'
<1>1. /\ head' \in [AllKinds -> Nat] /\ head'[k] = NextCommit
      /\ \A l \in AllKinds : l # k => head'[l] = head[l]
      /\ DOMAIN prs' = DOMAIN prs
      /\ \A p \in DOMAIN prs : \/ prs'[p] = prs[p]
                               \/ /\ prs[p].st = "open" /\ prs[p].kind = k
                                  /\ prs'[p] = [prs[p] EXCEPT !.base = main]
  BY MoveBranchEffect DEF State, NextCommit, Shapes
<1>2. NextCommit # None
  BY DEF NextCommit, None, State, Shapes
<1>3. /\ main \in trunk /\ trunk \subseteq trunk'
      /\ \A c \in DOMAIN commits : c \in DOMAIN commits'
  BY DEF State, Trunk, Kept, CommitsKept
<1>4. \A l \in AllKinds : head'[l] \in DOMAIN commits' \cup {None}
  BY <1>1, <1>3 DEF State, Pulls
<1>5. ASSUME NEW p \in DOMAIN prs
      PROVE  /\ prs'[p].base \in trunk' /\ prs'[p].kind = prs[p].kind
             /\ prs'[p].st = prs[p].st /\ prs'[p].head = prs[p].head
             /\ prs'[p].merge = prs[p].merge
  <2>1. prs[p] \in PrT /\ prs[p].base \in trunk
    BY PrFields DEF State, Pulls
  <2> QED
    BY <1>1, <1>3, <2>1 DEF PrT
<1>6. \A p \in DOMAIN prs : prs[p].kind \in AllKinds
  BY PrFields DEF State
<1> QED
  BY <1>1, <1>2, <1>3, <1>4, <1>5, <1>6 DEF State, Pulls

\* The pull requests, when one of them changes or is opened and no branch moves.
LEMMA PullsReplaced ==
  ASSUME State, Kept, head' = head, NEW p \in Nat, NEW x,
         \/ p \in DOMAIN prs /\ prs' = [prs EXCEPT ![p] = x]
         \/ p = Len(prs) + 1 /\ prs' = Append(prs, x),
         x \in PrT, x.base \in trunk,
         IF x.st = "open" THEN head[x.kind] # None ELSE x.head \in DOMAIN commits,
         IF x.st = "merged" THEN x.merge \in trunk' ELSE x.merge = None
  PROVE  Pulls'
<1>1. prs \in Seq(PrT)
  BY DEF State, Shapes
<1>2. /\ DOMAIN prs' = DOMAIN prs \cup {p} /\ prs'[p] = x
      /\ \A q \in DOMAIN prs : q # p => prs'[q] = prs[q]
  <2>1. CASE p \in DOMAIN prs /\ prs' = [prs EXCEPT ![p] = x]
    <3> DEFINE e == [prs EXCEPT ![p] = x]
    <3>1. /\ DOMAIN e = DOMAIN prs /\ e[p] = x
          /\ \A q \in DOMAIN prs : q # p => e[q] = prs[q]
      BY <1>1, <2>1, ReplaceKeeps
    <3> HIDE DEF e
    <3>2. prs' = e /\ p \in DOMAIN prs
      BY <2>1 DEF e
    <3> QED
      BY <3>1, <3>2
  <2>2. CASE p = Len(prs) + 1 /\ prs' = Append(prs, x)
    BY <1>1, <2>2, AppendKeeps
  <2> QED
    BY <2>1, <2>2
<1>3. trunk \subseteq trunk' /\ \A c \in DOMAIN commits : c \in DOMAIN commits'
  BY DEF Kept, CommitsKept
<1> QED
  BY <1>2, <1>3 DEF State, Pulls

\* Pull requests and branches stay in step.
LEMMA PullsStep ==
  ASSUME State, Progress, Kept, Next
  PROVE  Pulls'
<1> USE DEF git, Pulls, State, Kept, CommitsKept
<1>1. ASSUME NEW k \in Kinds, Trigger(k)
      PROVE  Pulls'
  BY <1>1 DEF Trigger
<1>2. ASSUME NEW i \in DOMAIN runs, StartRun(i)
      PROVE  Pulls'
  BY <1>2 DEF StartRun
<1>3. ASSUME NEW j \in DOMAIN ci, CiWakes(j)
      PROVE  Pulls'
  BY <1>3 DEF CiWakes
<1>4. ASSUME NEW j \in DOMAIN ci, NEW s \in {"success", "failure"}, CiFinish(j, s)
      PROVE  Pulls'
  BY <1>4 DEF CiFinish
<1>5. ASSUME NEW c \in Catalogs \cup {x.cat : x \in {commits[y] : y \in DOMAIN commits}},
             WriterLease(c)
      PROVE  Pulls'
  BY <1>5 DEF WriterLease, At, Go
<1>6. ASSUME \/ WriterBranch \/ WriterLeaseAgain \/ WriterVerify \/ WriterDispatch
             \/ ControllerSkip \/ ControllerResolve \/ ControllerCheck \/ ControllerPolicy
             \/ ControllerMain \/ ControllerAgain \/ ControllerVerify
             \/ ControllerTagCheck
      PROVE  Pulls'
  BY <1>6 DEF WriterBranch, WriterLeaseAgain, At, Go, WriterVerify, WriterDispatch,
       ControllerSkip, ControllerResolve, ControllerCheck, ControllerPolicy,
       ControllerMain, ControllerAgain, ControllerVerify, ControllerTagCheck
<1>7. ASSUME \/ ControllerPushTags \/ ControllerDispatchRelease \/ RecStart
             \/ RecMain \/ RecControllers \/ RecRecheck \/ RecLast \/ RecLease
             \/ RecDispatch
      PROVE  Pulls'
  BY <1>7 DEF ControllerPushTags, At, Go, ControllerDispatchRelease, RecStart, RecAt,
       RecGo, RecOrStop, Reads, RecMain, RecControllers, RecRecheck, RecLast,
       RecLease, RecDispatch
<1>8. ASSUME ToggleProtection \/ Crash \/ HumanTags
      PROVE  Pulls'
  BY <1>8 DEF ToggleProtection, Chaos, Crash, HumanTags
<1>9. ASSUME WriterCommit
      PROVE  Pulls'
  <2>1. job.run # None /\ job.run \in DOMAIN runs /\ Me.what = "writer" /\ job.pc = "commit"
    BY <1>9 DEF WriterCommit, At, State, Job
  <2>2. /\ Me.kind \in AllKinds /\ Me.sha \in trunk /\ Me.sha \in Nat /\ job.tree \in Pairs
        /\ None \in Nat
    BY <2>1, RunFields, JobFields DEF State, Runs, Fits, Me, None
  <2> DEFINE x == Commit(Me.kind, Me.sha, None, job.tree)
  <2>3. /\ x \in CommitT /\ x.by = Me.kind /\ x.parent = Me.sha /\ x.second = None
        /\ x.ver = job.tree[2]
    BY <2>2, CommitIs DEF Commit
  <2>4. \/ commits' = commits /\ main' = main /\ trunk' = trunk
        \/ commits' = Append(commits, x) /\ main' = main /\ trunk' = trunk
    BY <1>9 DEF WriterCommit, git
  <2>5. CASE head' = head /\ prs' = prs
    BY <2>5 DEF State, Pulls, Kept, CommitsKept
  <2>6. CASE MoveBranch(Me.kind, NextCommit) /\ commits' = Append(commits, x)
    <3>1. NextCommit \in DOMAIN commits'
      BY <2>3, <2>6, CommitsAppended DEF State
    <3> QED
      BY <2>2, <2>6, <3>1, PullsMoved
  <2> QED
    BY <1>9, <2>5, <2>6 DEF WriterCommit, git
<1>10. ASSUME WriterPr
       PROVE  Pulls'
  <2>1. job.run # None /\ job.run \in DOMAIN runs /\ Me.what = "writer" /\ job.pc = "pr"
    BY <1>10 DEF WriterPr, At, State, Job
  <2>2. /\ Me.kind \in AllKinds /\ Me.sha \in Nat /\ job.tree \in Pairs /\ None \in Nat
        /\ main \in Nat /\ main \in trunk
    BY <2>1, RunFields, JobFields DEF State, Me, None, Shapes, Trunk
  <2>3. Body \in [base : Nat, tree : Pairs]
    BY <2>2 DEF Body
  <2>4. head[Me.kind] # None
    <3>1. \A c \in DOMAIN commits : c # None
      BY DEF State, Shapes, None
    <3> QED
      BY <2>1, <3>1 DEF Progress, Writing, Bot, Human
  <2>5. head' = head
    BY <1>10 DEF WriterPr
  <2> DEFINE x == [kind |-> Me.kind, head |-> None, base |-> main, st |-> "open",
                   body |-> Body, merge |-> None]
             y == [prs[job.pr] EXCEPT !.body = Body]
  <2>6. CASE prs' = prs
    BY <2>5, <2>6 DEF State, Pulls, Kept, CommitsKept
  <2>7. CASE prs' = Append(prs, x)
    <3>1. /\ x \in PrT /\ x.base = main /\ x.st = "open" /\ x.kind = Me.kind
          /\ x.merge = None
      BY <2>2, <2>3 DEF PrT
    <3>2. Len(prs) + 1 \in Nat
      BY DEF State, Shapes
    <3> HIDE DEF x
    <3> QED
      BY <2>2, <2>4, <2>5, <2>7, <3>1, <3>2, PullsReplaced
  <2>8. CASE job.pr # None /\ prs' = [prs EXCEPT ![job.pr] = y]
    <3>1. job.pr \in DOMAIN prs /\ job.pr \in Nat
      BY <2>8, JobFields DEF State, Job
    <3>2. prs[job.pr] \in PrT
      BY <3>1, PrFields DEF State
    <3>3. /\ y \in PrT /\ y.base = prs[job.pr].base /\ y.st = prs[job.pr].st
          /\ y.kind = prs[job.pr].kind /\ y.head = prs[job.pr].head
          /\ y.merge = prs[job.pr].merge
      BY <2>3, <3>2 DEF PrT
    <3>4. trunk \subseteq trunk'
      BY DEF Kept, CommitsKept
    <3>5. /\ prs[job.pr].base \in trunk
          /\ IF prs[job.pr].st = "open" THEN head[prs[job.pr].kind] # None
                                        ELSE prs[job.pr].head \in DOMAIN commits
          /\ IF prs[job.pr].st = "merged" THEN prs[job.pr].merge \in trunk
                                          ELSE prs[job.pr].merge = None
      BY <3>1 DEF State, Pulls
    <3> HIDE DEF y
    <3> QED
      BY <2>5, <2>8, <3>1, <3>3, <3>4, <3>5, PullsReplaced
  <2> QED
    BY <1>10, <2>6, <2>7, <2>8 DEF WriterPr, State, Shapes
<1>11. ASSUME ControllerMerge
       PROVE  Pulls'
  <2>1. job.run # None /\ Me.what = "controller" /\ job.pc = "merge"
    BY <1>11 DEF ControllerMerge, At
  <2>2. /\ Bound.head \in DOMAIN commits /\ MergedTree(Bound.head) \in Pairs
        /\ commits[main].ver <= MergedTree(Bound.head)[2]
        /\ \E t \in tags : MergedTree(Bound.head)[2] <= t.ver + 1
    BY <2>1, MergeVersion DEF Progress
  <2>3. main \in DOMAIN commits /\ main \in Nat /\ Bound.head \in Nat
    BY <2>2, CommitFields DEF State, Trunk, Shapes
  <2> DEFINE x == Commit("merge", main, Bound.head, MergedTree(Bound.head))
  <2>4. /\ x \in CommitT /\ x.by = "merge" /\ x.parent = main /\ x.second = Bound.head
        /\ x.ver = MergedTree(Bound.head)[2]
    BY <2>2, <2>3, CommitIs DEF Commit
  <2>5. \/ commits' = commits /\ main' = main /\ trunk' = trunk
        \/ /\ commits' = Append(commits, x) /\ main' = NextCommit
           /\ trunk' = trunk \cup {NextCommit}
    BY <1>11 DEF ControllerMerge, git
  <2>6. job.pr \in DOMAIN prs /\ job.pr \in Nat
    BY <2>1, JobFields DEF State, Job, Progress, Controlling
  <2>7. prs[job.pr] \in PrT /\ prs[job.pr].base \in trunk
    BY <2>6, PrFields DEF State, Pulls
  <2> DEFINE y == [prs[job.pr] EXCEPT !.st = "merged", !.head = Bound.head,
                                      !.merge = NextCommit]
  <2>8. CASE prs' = prs /\ head' = head
    BY <2>8 DEF State, Pulls, Kept, CommitsKept
  <2>9. CASE /\ prs' = [prs EXCEPT ![job.pr] = y] /\ head' = head
             /\ trunk' = trunk \cup {NextCommit}
    <3>1. NextCommit \in Nat
      BY DEF NextCommit, State, Shapes
    <3>2. /\ y \in PrT /\ y.base = prs[job.pr].base /\ y.st = "merged"
          /\ y.head = Bound.head /\ y.merge = NextCommit
      BY <2>3, <2>7, <3>1 DEF PrT
    <3> HIDE DEF y
    <3> QED
      BY <2>2, <2>6, <2>7, <2>9, <3>2, PullsReplaced
  <2> QED
    BY <1>11, <2>6, <2>7, <2>8, <2>9 DEF ControllerMerge, git, PrT
<1>12. ASSUME NEW l \in AllKinds, RecCandidate(l)
       PROVE  Pulls'
  BY <1>12 DEF RecCandidate, RecAt, RecGo, RecOrStop, Reads
<1>13. ASSUME NEW h \in Catalogs \cup {commits[main].cat}, HumanPushMain(h)
       PROVE  Pulls'
  BY <1>13 DEF HumanPushMain, Chaos
<1>14. ASSUME NEW l \in AllKinds, HumanPushBranch(l)
       PROVE  Pulls'
  <2>1. head[l] \in DOMAIN commits
    BY <1>14 DEF HumanPushBranch, State, Pulls
  <2>2. /\ commits[head[l]].parent \in Nat /\ Tree(head[l]) \in Pairs /\ None \in Nat
        /\ head[l] \in Nat
    BY <2>1, CommitFields DEF None, State
  <2> DEFINE x == Commit("human", commits[head[l]].parent, None, Tree(head[l]))
  <2>3. /\ x \in CommitT /\ x.by = "human" /\ x.parent = commits[head[l]].parent
        /\ x.second = None
    BY <2>2, CommitIs DEF Commit
  <2>4. commits' = Append(commits, x) /\ main' = main /\ trunk' = trunk
    BY <1>14 DEF HumanPushBranch
  <2>5. NextCommit \in DOMAIN commits'
    BY <2>3, <2>4, CommitsAppended DEF State
  <2> QED
    BY <1>14, <2>5, PullsMoved DEF HumanPushBranch
<1>15. ASSUME NEW l \in AllKinds, HumanClosesPr(l)
       PROVE  Pulls'
  <2>1. /\ OpenPr(l) \in DOMAIN prs /\ head' = head
        /\ prs[OpenPr(l)].kind = l
    BY <1>15, OpenPrIs DEF HumanClosesPr, State
  <2>2. prs[OpenPr(l)] \in PrT /\ prs[OpenPr(l)].base \in trunk /\ OpenPr(l) \in Nat
    BY <2>1, PrFields DEF State, Pulls
  <2>3. prs[OpenPr(l)].st = "open" /\ prs[OpenPr(l)].merge = None
    BY <1>15, <2>1, OpenPrIs DEF HumanClosesPr, State, Pulls
  <2>4. head[l] \in DOMAIN commits /\ head[l] \in Nat
    BY <2>1, <2>3 DEF State, Pulls, Shapes
  <2> DEFINE x == [prs[OpenPr(l)] EXCEPT !.st = "closed", !.head = head[l]]
  <2>5. /\ x \in PrT /\ x.base = prs[OpenPr(l)].base /\ x.st = "closed" /\ x.head = head[l]
        /\ x.merge = None
    BY <2>2, <2>3, <2>4 DEF PrT
  <2>6. prs' = [prs EXCEPT ![OpenPr(l)] = x]
    BY <1>15, <2>1, <2>2 DEF HumanClosesPr, PrT
  <2> HIDE DEF x
  <2> QED
    BY <2>1, <2>2, <2>4, <2>5, <2>6, PullsReplaced
<1>16. ASSUME NEW v \in dispatched, Publishes(v)
       PROVE  Pulls'
  BY <1>16 DEF Publishes
<1> QED
  BY <1>1, <1>2, <1>3, <1>4, <1>5, <1>6, <1>7, <1>8, <1>9, <1>10, <1>11,
     <1>12, <1>13, <1>14, <1>15, <1>16
  DEF Next, Writer, Controller, Reconciler, GitHub, People


\* The CI runs, when none of them changes.
LEMMA ChecksSame ==
  ASSUME State, Kept, ci' = ci
  PROVE  Checks'
<1>1. /\ trunk \subseteq trunk'
      /\ \A c \in DOMAIN commits : c \in DOMAIN commits' /\ commits'[c] = commits[c]
  BY DEF Kept, CommitsKept
<1> QED
  BY <1>1 DEF State, Checks, Bot, Human

\* A CI run stays one of the bot's commit, or of what a person put in its place.
LEMMA ChecksStep ==
  ASSUME State, Progress, Kept, Next
  PROVE  Checks'
<1> USE DEF git
<1>1. ASSUME NEW k \in Kinds, Trigger(k)
      PROVE  Checks'
  BY <1>1, ChecksSame DEF Trigger
<1>2. ASSUME NEW i \in DOMAIN runs, StartRun(i)
      PROVE  Checks'
  BY <1>2, ChecksSame DEF StartRun
<1>3. ASSUME NEW j \in DOMAIN ci, CiWakes(j)
      PROVE  Checks'
  <2>1. ci \in Seq(CiT) /\ ci[j] \in CiT
    BY CiFields DEF State, Shapes
  <2>2. \A i \in DOMAIN ci' :
          /\ i \in DOMAIN ci /\ ci'[i].kind = ci[i].kind /\ ci'[i].base = ci[i].base
          /\ ci'[i].head = ci[i].head /\ ci'[i].want = ci[i].want
          /\ ci'[i].st = "success" => ci[i].st = "success" \/ ci[i].head = ci[i].want
    BY <1>3, <2>1 DEF CiWakes, CiT
  <2>3. commits' = commits /\ trunk' = trunk
    BY <1>3 DEF CiWakes, git
  <2> QED
    BY <2>2, <2>3 DEF State, Checks, Bot, Human
<1>4. ASSUME NEW j \in DOMAIN ci, NEW s \in {"success", "failure"}, CiFinish(j, s)
      PROVE  Checks'
  <2>1. ci \in Seq(CiT) /\ ci[j] \in CiT
    BY CiFields DEF State, Shapes
  <2>2. \A i \in DOMAIN ci' :
          /\ i \in DOMAIN ci /\ ci'[i].kind = ci[i].kind /\ ci'[i].base = ci[i].base
          /\ ci'[i].head = ci[i].head /\ ci'[i].want = ci[i].want
          /\ ci'[i].st = "success" => ci[i].st = "success" \/ ci[i].head = ci[i].want
    BY <1>4, <2>1 DEF CiFinish, CiT
  <2>3. commits' = commits /\ trunk' = trunk
    BY <1>4 DEF CiFinish, git
  <2> QED
    BY <2>2, <2>3 DEF State, Checks, Bot, Human
<1>5. ASSUME NEW c \in Catalogs \cup {x.cat : x \in {commits[y] : y \in DOMAIN commits}},
             WriterLease(c)
      PROVE  Checks'
  BY <1>5, ChecksSame DEF WriterLease, At, Go
<1>6. ASSUME \/ WriterBranch \/ WriterLeaseAgain \/ WriterCommit \/ WriterVerify
             \/ WriterPr \/ ControllerSkip \/ ControllerResolve \/ ControllerCheck
             \/ ControllerPolicy \/ ControllerMain \/ ControllerAgain \/ ControllerMerge
      PROVE  Checks'
  BY <1>6, ChecksSame DEF WriterBranch, WriterLeaseAgain, At, Go, WriterCommit,
       WriterVerify, WriterPr, AfterPr, ControllerSkip, ControllerResolve,
       ControllerCheck, ControllerPolicy, ControllerMain, ControllerAgain, ControllerMerge
<1>7. ASSUME \/ ControllerVerify \/ ControllerTagCheck \/ ControllerPushTags
             \/ ControllerDispatchRelease \/ RecStart \/ RecMain
             \/ RecControllers \/ RecRecheck \/ RecLast
      PROVE  Checks'
  BY <1>7, ChecksSame DEF ControllerVerify, At, Go, ControllerTagCheck,
       ControllerPushTags, ControllerDispatchRelease, RecStart, RecAt, RecGo,
       RecOrStop, Reads, RecMain, RecControllers, RecRecheck, RecLast
<1>8. ASSUME RecLease \/ RecDispatch \/ ToggleProtection \/ Crash \/ HumanTags
      PROVE  Checks'
  BY <1>8, ChecksSame DEF RecLease, RecAt, RecGo, RecOrStop, Reads, RecDispatch,
       ToggleProtection, Chaos, Crash, HumanTags
<1>9. ASSUME WriterDispatch
      PROVE  Checks'
  <2>1. /\ job.run # None /\ job.run \in DOMAIN runs /\ Me.what = "writer"
        /\ job.pc = "dispatch"
    BY <1>9 DEF WriterDispatch, At, State, Job
  <2>2. Me.kind \in AllKinds /\ Me.sha \in trunk /\ Me.sha \in Nat /\ job.out \in Nat
    BY <2>1, RunFields, JobFields DEF State, Runs, Fits, Me
  <2>3. /\ Bot(job.out, Me.kind, Me.sha)
        /\ head[Me.kind] = job.out \/ Human(head[Me.kind])
    BY <2>1 DEF Progress, Writing
  <2> DEFINE x == [kind |-> Me.kind, head |-> head[Me.kind], want |-> job.out,
                   base |-> Me.sha, st |-> "running", told |-> FALSE]
  <2>4. head[Me.kind] \in Nat /\ ci \in Seq(CiT)
    BY <2>2 DEF State, Shapes
  <2>5. /\ x \in CiT /\ x.kind = Me.kind /\ x.head = head[Me.kind] /\ x.want = job.out
        /\ x.base = Me.sha /\ x.st = "running"
    BY <2>2, <2>4 DEF CiT
  <2>6. commits' = commits /\ trunk' = trunk /\ (ci' = ci \/ ci' = Append(ci, x))
    BY <1>9 DEF WriterDispatch, git
  <2> HIDE DEF x
  <2>7. /\ DOMAIN Append(ci, x) = DOMAIN ci \cup {Len(ci) + 1} /\ Append(ci, x)[Len(ci) + 1] = x
        /\ \A i \in DOMAIN ci : Append(ci, x)[i] = ci[i]
    BY <2>4, <2>5, AppendKeeps
  <2>8. CASE ci' = ci
    BY <2>6, <2>8 DEF State, Checks, Bot, Human
  <2>9. CASE ci' = Append(ci, x)
    <3>1. ASSUME NEW i \in DOMAIN ci'
          PROVE  /\ ci'[i].base \in trunk /\ Bot(ci'[i].want, ci'[i].kind, ci'[i].base)
                 /\ ci'[i].head = ci'[i].want \/ Human(ci'[i].head)
                 /\ ci'[i].st = "success" => ci'[i].head = ci'[i].want
      <4>1. CASE i \in DOMAIN ci
        BY <2>7, <2>9, <4>1 DEF State, Checks
      <4>2. CASE i = Len(ci) + 1
        BY <2>2, <2>3, <2>5, <2>7, <2>9, <4>2
      <4> QED
        BY <2>7, <2>9, <4>1, <4>2
    <3> QED
      BY <2>6, <3>1 DEF Checks, Bot, Human
  <2> QED
    BY <2>6, <2>8, <2>9
<1>10. ASSUME NEW l \in AllKinds,
              RecCandidate(l) \/ HumanPushBranch(l) \/ HumanClosesPr(l)
       PROVE  Checks'
  BY <1>10, ChecksSame DEF RecCandidate, RecAt, RecGo, RecOrStop, Reads,
       HumanPushBranch, Chaos, HumanClosesPr
<1>11. ASSUME NEW h \in Catalogs \cup {commits[main].cat}, HumanPushMain(h)
       PROVE  Checks'
  BY <1>11, ChecksSame DEF HumanPushMain, Chaos
<1>12. ASSUME NEW v \in dispatched, Publishes(v)
       PROVE  Checks'
  BY <1>12, ChecksSame DEF Publishes
<1> QED
  BY <1>1, <1>2, <1>3, <1>4, <1>5, <1>6, <1>7, <1>8, <1>9, <1>10, <1>11,
     <1>12 DEF Next, Writer, Controller, Reconciler, GitHub, People


\* What a run is for does not go stale: CI results, main's past and pull requests stay.
LEMMA FitsKept ==
  ASSUME Kept, NEW r, Fits(r, trunk, prs, ci)
  PROVE  Fits(r, trunk', prs', ci')
BY DEF Kept, CommitsKept, PrsKept, CiKept, Fits

\* Nor when the run takes its next state, unless it is skipped.
LEMMA FitsNext ==
  ASSUME NEW r \in RunT, NEW st, NEW out, Fits(r, trunk, prs, ci),
         st = "skipped" /\ r.what = "controller" => ci[r.ci].st # "success"
  PROVE  Fits([r EXCEPT !.st = st, !.out = out], trunk, prs, ci)
BY DEF Fits, RunT

\* The runs, when none of them changes and none starts.
LEMMA RunsUnchanged ==
  ASSUME State, Kept, runs' = runs, job'.run = job.run
  PROVE  Runs'
BY FitsKept DEF State, Runs

\* The runs, when the running one ends.
LEMMA RunsEnded ==
  ASSUME State, Kept, job.run # None, NEW st \in RunStates \ {"running"}, NEW out \in Nat,
         End(st, out), st = "skipped" /\ Me.what = "controller" => Bound.st # "success"
  PROVE  Runs'
<1>1. job.run \in DOMAIN runs /\ Shapes
  BY DEF State, Job
<1>2. /\ DOMAIN runs' = DOMAIN runs /\ job' = NoJob
      /\ runs'[job.run] = [runs[job.run] EXCEPT !.st = st, !.out = out]
      /\ \A i \in DOMAIN runs : i # job.run => runs'[i] = runs[i]
  BY <1>1, EndEffect
<1>3. Fits(runs'[job.run], trunk, prs, ci) /\ runs'[job.run].st = st
  <2>1. runs[job.run] \in RunT /\ Fits(runs[job.run], trunk, prs, ci)
    BY <1>1, RunFields DEF State, Runs
  <2>2. st = "skipped" /\ runs[job.run].what = "controller" =>
          ci[runs[job.run].ci].st # "success"
    BY DEF Me, Bound
  <2>3. Fits([runs[job.run] EXCEPT !.st = st, !.out = out], trunk, prs, ci)
    BY <2>1, <2>2, FitsNext
  <2> QED
    BY <1>2, <2>1, <2>3 DEF RunT
<1>4. \A i \in DOMAIN runs : i # None
  BY <1>1 DEF Shapes, None
<1>5. ASSUME NEW i \in DOMAIN runs'
      PROVE  Fits(runs'[i], trunk, prs, ci) /\ runs'[i].st # "running"
  BY <1>1, <1>2, <1>3 DEF State, Runs
<1> QED
  BY <1>2, <1>4, <1>5, FitsKept DEF Runs, NoJob

\* The runs, when one is queued.
LEMMA RunsQueued ==
  ASSUME State, Kept, NEW r \in RunT, Enqueue(r), job' = job,
         r.st = "queued", Fits(r, trunk, prs, ci)
  PROVE  Runs'
<1>1. /\ DOMAIN runs' = DOMAIN runs \cup {Len(runs) + 1} /\ Len(runs) + 1 \notin DOMAIN runs
      /\ runs'[Len(runs) + 1] = r
      /\ \A i \in DOMAIN runs :
           runs'[i] = IF runs[i].st = "queued" THEN [runs[i] EXCEPT !.st = "cancelled"]
                      ELSE runs[i]
  BY EnqueueEffect DEF State
<1>2. \A i \in DOMAIN runs : runs[i] \in RunT
  BY RunFields DEF State
<1>3. job.run # Len(runs) + 1
  BY <1>1 DEF State, Job, NoJob, None, Shapes
<1>4. ASSUME NEW i \in DOMAIN runs
      PROVE  /\ Fits(runs'[i], trunk, prs, ci)
             /\ runs'[i].st = "running" <=> job.run = i
  <2>1. Fits(runs[i], trunk, prs, ci) /\ (runs[i].st = "running" <=> job.run = i)
    BY DEF State, Runs
  <2>2. Fits([runs[i] EXCEPT !.st = "cancelled"], trunk, prs, ci)
    BY <1>2, <2>1 DEF Fits, RunT
  <2> QED
    BY <1>1, <1>2, <2>1, <2>2 DEF RunT
<1>5. ASSUME NEW i \in DOMAIN runs'
      PROVE  /\ Fits(runs'[i], trunk, prs, ci)
             /\ runs'[i].st = "running" <=> job'.run = i
  BY <1>1, <1>3, <1>4
<1> QED
  BY <1>5, FitsKept DEF Runs

\* A run stays one of a CI run that has ended.
LEMMA RunsFitStep ==
  ASSUME State, Progress, Kept, Next
  PROVE  Runs'
<1>1. ASSUME NEW k \in Kinds, Trigger(k)
      PROVE  Runs'
  <2> DEFINE r == Run("writer", k, None, None, FALSE, "schedule")
  <2>1. r \in RunT
    BY RunIs, KindsAssumption DEF None, State
  <2>2. r.st = "queued" /\ Fits(r, trunk, prs, ci)
    BY DEF Run, Fits, State, Trunk
  <2> HIDE DEF r
  <2> QED
    BY <1>1, <2>1, <2>2, RunsQueued DEF Trigger, r
<1>2. ASSUME NEW i \in DOMAIN runs, StartRun(i)
      PROVE  Runs'
  <2>1. runs[i] \in RunT /\ runs \in Seq(RunT) /\ runs[i].st = "queued"
    BY <1>2, RunFields DEF State, Shapes, StartRun
  <2> DEFINE r == [runs[i] EXCEPT !.st = "running"]
  <2>2. r \in RunT /\ r.st = "running" /\ Fits(r, trunk, prs, ci)
    BY <2>1 DEF RunT, RunStates, Fits, State, Runs
  <2>3. runs' = [runs EXCEPT ![i] = r] /\ job.run = None /\ job'.run = i
    BY <1>2, <2>1 DEF StartRun, NoJob
  <2> HIDE DEF r
  <2>4. /\ DOMAIN runs' = DOMAIN runs /\ runs'[i] = r
        /\ \A x \in DOMAIN runs : x # i => runs'[x] = runs[x]
    BY <2>1, <2>2, <2>3, ReplaceKeeps
  <2>5. \A x \in DOMAIN runs : x # None
    BY DEF State, Shapes, None
  <2>6. ASSUME NEW x \in DOMAIN runs'
        PROVE  Fits(runs'[x], trunk, prs, ci) /\ (runs'[x].st = "running" <=> job'.run = x)
    BY <2>2, <2>3, <2>4, <2>5 DEF State, Runs
  <2> QED
    BY <2>6, FitsKept DEF Runs
<1>3. ASSUME NEW j \in DOMAIN ci, CiWakes(j)
      PROVE  Runs'
  <2> DEFINE r == Run("controller", ci[j].kind, j, None, ci[j].kind \in Automatic, "event")
  <2>1. r \in RunT
    BY ControllerRunIs, CiFields DEF None, State
  <2>2. r.st = "queued" /\ Fits(r, trunk, prs, ci)
    BY <1>3 DEF CiWakes, Run, Fits, State, Trunk
  <2>3. Enqueue(r) /\ job' = job
    BY <1>3 DEF CiWakes
  <2> HIDE DEF r
  <2> QED
    BY <2>1, <2>2, <2>3, RunsQueued
<1>4. ASSUME NEW j \in DOMAIN ci, NEW s \in {"success", "failure"}, CiFinish(j, s)
      PROVE  Runs'
  BY <1>4, RunsUnchanged DEF CiFinish
<1>5. ASSUME Writer \/ Controller
      PROVE  Runs'
  <2>1. JobActs
    BY <1>5, JobStepActs DEF State
  <2> QED
    BY <2>1, RunsUnchanged, RunsEnded DEF JobActs
<1>6. ASSUME \/ RecStart \/ RecMain \/ RecControllers \/ RecRecheck \/ RecLast
             \/ RecLease \/ ToggleProtection \/ HumanTags
      PROVE  Runs'
  BY <1>6, RunsUnchanged DEF RecStart, RecAt, RecGo, RecOrStop, Reads, RecMain,
       RecControllers, RecRecheck, RecLast, RecLease, ToggleProtection, Chaos,
       HumanTags
<1>7. ASSUME NEW l \in AllKinds,
             RecCandidate(l) \/ HumanPushBranch(l) \/ HumanClosesPr(l)
      PROVE  Runs'
  BY <1>7, RunsUnchanged DEF RecCandidate, RecAt, RecGo, RecOrStop, Reads,
       HumanPushBranch, Chaos, HumanClosesPr
<1>8. ASSUME RecDispatch
      PROVE  Runs'
  <2> DEFINE r == Run("controller", rec.pick, Picked.ci, Picked.pr, rec.pick \in Automatic,
                       "reconcile")
  <2>1. rec.pick \in AllKinds /\ Picked \in CandidateT /\ Picked # NoCandidate
    BY <1>8 DEF Progress, Reconciling, RecDispatch, RecAt, Picked, State, Shapes, RecT
  <2>2. r \in RunT
    BY <2>1, ControllerRunIs DEF CandidateT, State
  <2>3. /\ Picked.pr \in DOMAIN prs /\ Picked.ci \in DOMAIN ci
        /\ ci[Picked.ci].kind = rec.pick /\ ci[Picked.ci].st = "success"
    BY <2>1 DEF Progress, Reconciling, Picked
  <2>4. r.st = "queued" /\ Fits(r, trunk, prs, ci)
    BY <2>3 DEF Run, Fits, State, Trunk
  <2>5. Enqueue(r) /\ job' = job
    BY <1>8 DEF RecDispatch
  <2> HIDE DEF r
  <2> QED
    BY <2>2, <2>4, <2>5, RunsQueued
<1>9. ASSUME NEW h \in Catalogs \cup {commits[main].cat}, HumanPushMain(h)
      PROVE  Runs'
  BY <1>9, RunsUnchanged DEF HumanPushMain, Chaos
<1>10. ASSUME Crash
       PROVE  Runs'
  <2>1. job.run # None /\ job.out \in Nat
    BY <1>10, JobFields DEF Crash, State, Job
  <2>2. "failure" \in RunStates \ {"running"} /\ "failure" # "skipped"
    BY DEF RunStates
  <2> QED
    BY <1>10, <2>1, <2>2, RunsEnded DEF Crash
<1>11. ASSUME NEW v \in dispatched, Publishes(v)
       PROVE  Runs'
  BY <1>11, RunsUnchanged DEF Publishes
<1> QED
  BY <1>1, <1>2, <1>3, <1>4, <1>5, <1>6, <1>7, <1>8, <1>9, <1>10, <1>11
  DEF Next, Reconciler, GitHub, People


\* The job, when its run ends.
LEMMA JobEnded ==
  ASSUME job' = NoJob
  PROVE  Job'
BY DEF Job, NoJob, None

\* The job, when its run goes on.
LEMMA JobGoesOn ==
  ASSUME State, Kept, job.run # None, job'.run = job.run,
         Me.what = "writer" => job'.pc \in WriterPcs,
         Me.what = "controller" => job'.pc \in ControllerPcs,
         job'.old \in DOMAIN commits' \cup {None}, job'.out \in DOMAIN commits' \cup {None},
         job'.pr \in DOMAIN prs' \cup {None}
  PROVE  Job'
BY DEF State, Job, Me, Kept, RunsKept

\* The job, when other people move.
LEMMA JobUnchanged ==
  ASSUME State, Kept, job' = job
  PROVE  Job'
BY DEF State, Job, Me, Kept, RunsKept, CommitsKept, PrsKept


\* A commit that is added is there.
LEMMA NextIsThere ==
  ASSUME Shapes, NEW x, commits' = Append(commits, x)
  PROVE  NextCommit \in DOMAIN commits'
BY DEF Shapes, NextCommit


\* Where a step of the job leaves it: its run has ended, or it is at the next place.
JobMoves ==
  /\ job.run # None
  /\ \/ job' = NoJob
     \/ /\ job'.run = job.run
        /\ Me.what = "writer" => job'.pc \in WriterPcs
        /\ Me.what = "controller" => job'.pc \in ControllerPcs
        /\ job'.old \in DOMAIN commits' \cup {None}
        /\ job'.out \in DOMAIN commits' \cup {None}
        /\ job'.pr \in DOMAIN prs' \cup {None}

\* The job stays that of a run, at a place of its kind of run, or its run ends.
LEMMA JobStepMoves ==
  ASSUME State, Kept, Writer \/ Controller
  PROVE  JobMoves
<1>a. /\ job.old \in DOMAIN commits' \cup {None} /\ job.out \in DOMAIN commits' \cup {None}
      /\ job.pr \in DOMAIN prs' \cup {None} /\ None \in DOMAIN commits' \cup {None}
      /\ None \in DOMAIN prs' \cup {None} /\ job \in JobT
  BY DEF State, Job, Shapes, Kept, CommitsKept, PrsKept
<1>b. \A p \in AllKinds : /\ head[p] \in DOMAIN commits' \cup {None}
                          /\ OpenPr(p) \in DOMAIN prs' \cup {None}
  BY OpenPrIs DEF State, Pulls, Kept, CommitsKept, PrsKept
<1>1. ASSUME NEW c \in Catalogs \cup {x.cat : x \in {commits[y] : y \in DOMAIN commits}},
             WriterLease(c)
      PROVE  JobMoves
  <2> QED
    BY <1>1, <1>a
       DEF WriterLease, At, Go, End, JobT, JobMoves, WriterPcs, ControllerPcs
<1>2. ASSUME WriterBranch
      PROVE  JobMoves
  <2>1. Me.kind \in AllKinds
    BY <1>2, RunFields DEF WriterBranch, At, State, Job, Me
  <2> QED
    BY <1>2, <1>a, <1>b, <2>1 DEF WriterBranch, At, Go, End, JobT, JobMoves, WriterPcs, ControllerPcs
<1>3. ASSUME WriterCommit
      PROVE  JobMoves
  <2>1. \/ job' = NoJob
        \/ /\ NextCommit \in DOMAIN commits'
           /\ job' = [job EXCEPT !.pc = "verify", !.out = NextCommit]
    BY <1>3, NextIsThere DEF WriterCommit, End, State
  <2> QED
    BY <1>3, <1>a, <2>1 DEF WriterCommit, At, JobT, JobMoves, WriterPcs, ControllerPcs
<1>4. ASSUME WriterVerify
      PROVE  JobMoves
  <2>1. "data" \in AllKinds
    BY DEF AllKinds
  <2> QED
    BY <1>4, <1>a, <1>b, <2>1 DEF WriterVerify, At, Go, End, JobT, JobMoves, WriterPcs, ControllerPcs
<1>5. ASSUME WriterPr
      PROVE  JobMoves
  <2> QED
    BY <1>5, <1>a
       DEF WriterPr, AfterPr, At, Go, End, JobT, JobMoves, WriterPcs, ControllerPcs
<1>5a. ASSUME WriterLeaseAgain
       PROVE  JobMoves
  <2> QED
    BY <1>5a, <1>a
       DEF WriterLeaseAgain, At, Go, End, JobT, JobMoves, WriterPcs, ControllerPcs
<1>6. ASSUME WriterDispatch
      PROVE  JobMoves
  <2> QED
    BY <1>6, <1>a
       DEF WriterDispatch, At, Go, End, JobT, JobMoves, WriterPcs, ControllerPcs
<1>7. ASSUME ControllerSkip
      PROVE  JobMoves
  <2> QED
    BY <1>7, <1>a
       DEF ControllerSkip, At, Go, End, JobT, JobMoves, WriterPcs, ControllerPcs
<1>8. ASSUME ControllerResolve
      PROVE  JobMoves
  <2>1. Me.pr \in DOMAIN prs' \cup {None} /\ Bound.kind \in AllKinds
    BY <1>8, BoundIs DEF ControllerResolve, At, State, Job, Me, Runs, Fits, Kept, PrsKept
  <2> QED
    BY <1>8, <1>a, <1>b, <2>1 DEF ControllerResolve, At, Go, End, JobT, JobMoves, WriterPcs, ControllerPcs
<1>9. ASSUME ControllerCheck
      PROVE  JobMoves
  <2> QED
    BY <1>9, <1>a
       DEF ControllerCheck, At, Go, End, JobT, JobMoves, WriterPcs, ControllerPcs
<1>9a. ASSUME ControllerPolicy
       PROVE  JobMoves
  <2> QED
    BY <1>9a, <1>a
       DEF ControllerPolicy, At, Go, End, JobT, JobMoves, WriterPcs, ControllerPcs
<1>9b. ASSUME ControllerMain
       PROVE  JobMoves
  <2> QED
    BY <1>9b, <1>a
       DEF ControllerMain, At, Go, End, JobT, JobMoves, WriterPcs, ControllerPcs
<1>10. ASSUME ControllerAgain
       PROVE  JobMoves
  <2> QED
    BY <1>10, <1>a
       DEF ControllerAgain, At, Go, End, JobT, JobMoves, WriterPcs, ControllerPcs
<1>11. ASSUME ControllerMerge
       PROVE  JobMoves
  <2>1. \/ job' = NoJob
        \/ /\ NextCommit \in DOMAIN commits'
           /\ job' = [job EXCEPT !.pc = "verify", !.out = NextCommit]
    BY <1>11, NextIsThere DEF ControllerMerge, End, State
  <2> QED
    BY <1>11, <1>a, <2>1 DEF ControllerMerge, At, JobT, JobMoves, WriterPcs, ControllerPcs
<1>12. ASSUME ControllerVerify
       PROVE  JobMoves
  <2> QED
    BY <1>12, <1>a
       DEF ControllerVerify, At, Go, End, JobT, JobMoves, WriterPcs, ControllerPcs
<1>13. ASSUME ControllerTagCheck
       PROVE  JobMoves
  <2> QED
    BY <1>13, <1>a
       DEF ControllerTagCheck, At, Go, End, JobT, JobMoves, WriterPcs, ControllerPcs
<1>14. ASSUME ControllerPushTags
       PROVE  JobMoves
  <2> QED
    BY <1>14, <1>a
       DEF ControllerPushTags, At, Go, End, JobT, JobMoves, WriterPcs, ControllerPcs
<1>15. ASSUME ControllerDispatchRelease
       PROVE  JobMoves
  <2> QED
    BY <1>15, <1>a
       DEF ControllerDispatchRelease, At, Go, End, JobT, JobMoves, WriterPcs, ControllerPcs
<1> QED
  BY <1>1, <1>2, <1>3, <1>4, <1>5, <1>5a, <1>6, <1>7, <1>8, <1>9, <1>9a, <1>9b,
     <1>10, <1>11, <1>12, <1>13, <1>14, <1>15 DEF Writer, Controller

\* The job stays that of a run, at a place of its kind of run.
LEMMA JobStep ==
  ASSUME State, Progress, Kept, Next
  PROVE  Job'
<1>1. ASSUME NEW k \in Kinds, Trigger(k)
      PROVE  Job'
  BY <1>1, JobUnchanged DEF Trigger
<1>2. ASSUME NEW i \in DOMAIN runs, StartRun(i)
      PROVE  Job'
  <2>1. i # None /\ i \in DOMAIN runs' /\ runs'[i].what = runs[i].what
    BY DEF State, Shapes, None, Kept, RunsKept
  <2>2. /\ job'.run = i /\ job'.old = None /\ job'.out = None /\ job'.pr = None
        /\ job'.pc = IF runs[i].what = "writer" THEN "lease" ELSE "resolve"
    BY <1>2 DEF StartRun, NoJob
  <2> QED
    BY <2>1, <2>2 DEF Job, Me, WriterPcs, ControllerPcs
<1>3. ASSUME NEW j \in DOMAIN ci, CiWakes(j)
      PROVE  Job'
  BY <1>3, JobUnchanged DEF CiWakes
<1>4. ASSUME NEW j \in DOMAIN ci, NEW s \in {"success", "failure"}, CiFinish(j, s)
      PROVE  Job'
  BY <1>4, JobUnchanged DEF CiFinish
<1>5. ASSUME Writer \/ Controller
      PROVE  Job'
  <2>1. JobMoves
    BY <1>5, JobStepMoves
  <2> QED
    BY <2>1, JobEnded, JobGoesOn DEF JobMoves
<1>6. ASSUME \/ RecStart \/ RecMain \/ RecControllers \/ RecRecheck \/ RecLast
             \/ RecLease \/ RecDispatch \/ ToggleProtection \/ HumanTags
      PROVE  Job'
  BY <1>6, JobUnchanged DEF RecStart, RecAt, RecGo, RecOrStop, Reads, RecMain,
       RecControllers, RecRecheck, RecLast, RecLease, RecDispatch, ToggleProtection,
       Chaos, HumanTags
<1>7. ASSUME NEW l \in AllKinds,
             RecCandidate(l) \/ HumanPushBranch(l) \/ HumanClosesPr(l)
      PROVE  Job'
  BY <1>7, JobUnchanged DEF RecCandidate, RecAt, RecGo, RecOrStop, Reads,
       HumanPushBranch, Chaos, HumanClosesPr
<1>8. ASSUME NEW h \in Catalogs \cup {commits[main].cat}, HumanPushMain(h)
      PROVE  Job'
  BY <1>8, JobUnchanged DEF HumanPushMain, Chaos
<1>9. ASSUME Crash
      PROVE  Job'
  <2> QED
    BY <1>9, JobEnded DEF Crash, End
<1>10. ASSUME NEW v \in dispatched, Publishes(v)
       PROVE  Job'
  BY <1>10, JobUnchanged DEF Publishes
<1> QED
  BY <1>1, <1>2, <1>3, <1>4, <1>5, <1>6, <1>7, <1>8, <1>9, <1>10
  DEF Next, Reconciler, GitHub, People

\* The bounds are kept.
LEMMA BoundsStep ==
  ASSUME State, Next
  PROVE  Bounds'
<1> USE DEF Bounds, State
<1>1. ASSUME NEW k \in Kinds, Trigger(k)
      PROVE  Bounds'
  BY <1>1 DEF Trigger
<1>2. ASSUME NEW i \in DOMAIN runs, StartRun(i)
      PROVE  Bounds'
  BY <1>2 DEF StartRun
<1>3. ASSUME NEW j \in DOMAIN ci, CiWakes(j)
      PROVE  Bounds'
  BY <1>3 DEF CiWakes
<1>4. ASSUME NEW j \in DOMAIN ci, NEW s \in {"success", "failure"}, CiFinish(j, s)
      PROVE  Bounds'
  BY <1>4 DEF CiFinish
<1>5. ASSUME NEW c \in Catalogs \cup {x.cat : x \in {commits[y] : y \in DOMAIN commits}},
             WriterLease(c)
      PROVE  Bounds'
  BY <1>5 DEF WriterLease, At, Go
<1>6. ASSUME \/ WriterBranch \/ WriterLeaseAgain \/ WriterCommit \/ WriterVerify
             \/ WriterPr \/ WriterDispatch \/ ControllerSkip \/ ControllerResolve
             \/ ControllerCheck \/ ControllerPolicy \/ ControllerMain \/ ControllerAgain
      PROVE  Bounds'
  BY <1>6 DEF WriterBranch, WriterLeaseAgain, At, Go, WriterCommit, WriterVerify,
       WriterPr, AfterPr, WriterDispatch, ControllerSkip, ControllerResolve,
       ControllerCheck, ControllerPolicy, ControllerMain, ControllerAgain
<1>7. ASSUME \/ ControllerMerge \/ ControllerVerify \/ ControllerTagCheck
             \/ ControllerPushTags \/ ControllerDispatchRelease \/ RecStart
             \/ RecMain \/ RecControllers \/ RecRecheck
      PROVE  Bounds'
  BY <1>7 DEF ControllerMerge, At, Go, ControllerVerify, ControllerTagCheck,
       ControllerPushTags, ControllerDispatchRelease, RecStart, RecAt, RecGo,
       RecOrStop, Reads, RecMain, RecControllers, RecRecheck
<1>8. ASSUME RecLast \/ RecLease \/ RecDispatch
      PROVE  Bounds'
  BY <1>8 DEF RecLast, RecAt, RecGo, RecOrStop, Reads, RecLease, RecDispatch
<1>9. ASSUME NEW l \in AllKinds, RecCandidate(l)
      PROVE  Bounds'
  BY <1>9 DEF RecCandidate, RecAt, RecGo, RecOrStop, Reads
<1>10. ASSUME NEW h \in Catalogs \cup {commits[main].cat}, HumanPushMain(h)
       PROVE  Bounds'
  <2> QED
    BY <1>10, BoundsAssumption DEF HumanPushMain, Chaos
<1>11. ASSUME NEW l \in AllKinds, HumanPushBranch(l)
       PROVE  Bounds'
  <2> QED
    BY <1>11, BoundsAssumption DEF HumanPushBranch, Chaos
<1>12. ASSUME NEW l \in AllKinds, HumanClosesPr(l)
       PROVE  Bounds'
  <2> QED
    BY <1>12, BoundsAssumption DEF HumanClosesPr, Chaos
<1>13. ASSUME ToggleProtection
       PROVE  Bounds'
  <2> QED
    BY <1>13, BoundsAssumption DEF ToggleProtection, Chaos
<1>14. ASSUME Crash
       PROVE  Bounds'
  <2> QED
    BY <1>14, BoundsAssumption DEF Crash, Chaos
<1>15. ASSUME HumanTags
       PROVE  Bounds'
  <2> QED
    BY <1>15, BoundsAssumption DEF HumanTags, Chaos
<1>16. ASSUME NEW v \in dispatched, Publishes(v)
       PROVE  Bounds'
  BY <1>16 DEF Publishes
<1> QED
  BY <1>1, <1>2, <1>3, <1>4, <1>5, <1>6, <1>7, <1>8, <1>9, <1>10, <1>11,
     <1>12, <1>13, <1>14, <1>15, <1>16
  DEF Next, Writer, Controller, Reconciler, GitHub, People


\* The state stays one the program can be in.
LEMMA StateStep ==
  ASSUME State, Progress, Next
  PROVE  Kept /\ State'
<1>1. Kept /\ Shapes'
  BY KeptStep
<1>2. Shapes
  BY DEF State
<1>3. Trunk' /\ Tags' /\ Bounds'
  BY <1>2, TrunkStep, TagsStep, BoundsStep
<1>4. Pulls' /\ Checks' /\ Runs' /\ Job'
  BY <1>1, PullsStep, ChecksStep, RunsFitStep, JobStep
<1> QED
  BY <1>1, <1>3, <1>4 DEF State

\* What the job's run is for stays while the job goes on.
LEMMA MeKept ==
  ASSUME State, Kept, job.run # None, job'.run = job.run
  PROVE  /\ job.run \in DOMAIN runs
         /\ Me'.what = Me.what /\ Me'.kind = Me.kind /\ Me'.sha = Me.sha
         /\ Me'.ci = Me.ci /\ Me'.apply = Me.apply /\ Me'.pr = Me.pr
         /\ Release' <=> Release
BY DEF State, Job, Me, Release, Kept, RunsKept

\* What a writer has established stays while nobody but a person moves a branch.
LEMMA WritingKept ==
  ASSUME State, Progress, Kept, job' = job,
         \A k \in AllKinds : head'[k] = head[k] \/ Human(head[k])'
  PROVE  Writing'
<1> SUFFICES ASSUME job.run # None, Me'.what = "writer"
             PROVE  Writing'
  BY DEF Writing
<1>1. /\ job.run \in DOMAIN runs /\ Me.what = "writer"
      /\ Me'.kind = Me.kind /\ Me'.sha = Me.sha
  BY MeKept
<1>2. Me.kind \in AllKinds /\ Me.sha \in DOMAIN commits
  BY <1>1, RunFields DEF State, Runs, Fits, Trunk, Me
<1>3. \A c \in DOMAIN commits : c \in DOMAIN commits' /\ commits'[c] = commits[c]
  BY DEF Kept, CommitsKept
<1>4. job.old = None \/ job.old \in DOMAIN commits
  BY DEF State, Job
<1> QED
  BY <1>1, <1>2, <1>3, <1>4 DEF Progress, Writing, Bot, Human

\* Nothing is asked of a job that has ended, or of the job of a controller.
LEMMA WritingOver ==
  ASSUME State, Kept, job' = NoJob \/ (Me.what = "controller" /\ job'.run = job.run)
  PROVE  Writing'
BY MeKept DEF Writing, NoJob

\* What a writer relies on stays true while it works.
LEMMA WritingStep ==
  ASSUME State, Progress, Kept, Next
  PROVE  Writing'
<1> USE DEF git
<1>1. ASSUME NEW k \in Kinds, Trigger(k)
      PROVE  Writing'
  BY <1>1, WritingKept DEF Trigger
<1>2. ASSUME NEW i \in DOMAIN runs, StartRun(i)
      PROVE  Writing'
  <2> QED
    BY <1>2 DEF StartRun, Writing, NoJob, Me
<1>3. ASSUME NEW j \in DOMAIN ci, CiWakes(j)
      PROVE  Writing'
  BY <1>3, WritingKept DEF CiWakes
<1>4. ASSUME NEW j \in DOMAIN ci, NEW s \in {"success", "failure"}, CiFinish(j, s)
      PROVE  Writing'
  BY <1>4, WritingKept DEF CiFinish
<1>5. ASSUME NEW c \in Catalogs \cup {x.cat : x \in {commits[y] : y \in DOMAIN commits}},
             WriterLease(c)
      PROVE  Writing'
  <2>1. job.run # None /\ Me.what = "writer" /\ job.pc = "lease" /\ job \in JobT
    BY <1>5 DEF WriterLease, At, State, Shapes
  <2>2. /\ job.run \in DOMAIN runs /\ Me.kind \in AllKinds /\ Me.sha \in trunk
        /\ Me.sha \in DOMAIN commits
    BY <2>1, RunFields DEF State, Job, Runs, Fits, Trunk, Me
  <2>3. job'.run = job.run => Me'.kind = Me.kind /\ Me'.sha = Me.sha
    BY <2>1, MeKept
  <2>4. \A y \in DOMAIN commits : y \in DOMAIN commits' /\ commits'[y] = commits[y]
    BY DEF Kept, CommitsKept
  <2>5. CASE job' = NoJob
    BY <2>5, WritingOver
  <2>6. CASE job' = [job EXCEPT !.pc = "branch", !.tree = Candidate(Me.kind, Me.sha, c)]
    <3>1. job'.pc = "branch" /\ job'.run = job.run /\ job'.tree = Candidate(Me.kind, Me.sha, c)
      BY <2>1, <2>6 DEF JobT
    <3>2. Me.kind = "data" => job'.tree[2] = commits[Me.sha].ver
      BY <3>1 DEF Candidate
    <3> QED
      BY <2>2, <2>3, <2>4, <3>1, <3>2 DEF Writing
  <2> QED
    BY <1>5, <2>5, <2>6 DEF WriterLease, End
<1>6. ASSUME WriterBranch
      PROVE  Writing'
  <2>1. job.run # None /\ Me.what = "writer" /\ job.pc = "branch" /\ job \in JobT
    BY <1>6 DEF WriterBranch, At, State, Shapes
  <2>2. /\ job.run \in DOMAIN runs /\ Me.kind \in AllKinds /\ Me.sha \in trunk
        /\ Me.sha \in DOMAIN commits
    BY <2>1, RunFields DEF State, Job, Runs, Fits, Trunk, Me
  <2>3. job'.run = job.run => Me'.kind = Me.kind /\ Me'.sha = Me.sha
    BY <2>1, MeKept
  <2>4. \A y \in DOMAIN commits : y \in DOMAIN commits' /\ commits'[y] = commits[y]
    BY DEF Kept, CommitsKept
  <2>5. CASE job' = NoJob
    BY <2>5, WritingOver
  <2> DEFINE old == head[Me.kind]
             same == Matches(Me.kind, old, Me.sha, job.tree)
  <2>6. CASE /\ old # None => Owned(Me.kind, old, Me.sha)
             /\ job'.run = job.run /\ job'.old = old /\ job'.tree = job.tree
             /\ \/ same /\ job'.out = old /\ job'.pc \in {"dispatchlease", "verify"}
                \/ ~same /\ job'.pc \in {"commitlease", "commit"}
    <3>1. old = None \/ old \in DOMAIN commits
      BY <2>2 DEF State, Pulls
    <3>2. old = None \/ commits[old].by # "human"
      BY <2>2, <2>6 DEF Owned, LegacyHandoff, ManagedBy, AllKinds
    <3>3. same => old \in DOMAIN commits /\ commits[old].by = Me.kind /\ commits[old].parent = Me.sha
      BY <3>1 DEF Matches, ManagedBy
    <3>4. Me.kind = "data" => job.tree[2] = commits[Me.sha].ver
      BY <2>1 DEF Progress, Writing
    <3>5. head' = head
      BY <1>6 DEF WriterBranch, git
    <3> HIDE DEF same
    <3> QED
      BY <2>2, <2>3, <2>4, <2>6, <3>1, <3>2, <3>3, <3>4, <3>5 DEF Writing, Bot
  <2>7. \/ job' = NoJob
        \/ /\ old # None => Owned(Me.kind, old, Me.sha)
           /\ job' = [job EXCEPT
                  !.pc = IF ~same THEN (IF Me.kind = "release" THEN "commitlease" ELSE "commit")
                         ELSE IF Me.kind = "release" /\ OpenPr(Me.kind) # None
                              THEN "dispatchlease" ELSE "verify",
                  !.old = old, !.out = IF same THEN old ELSE None,
                  !.pr = IF Me.kind = "release" THEN OpenPr(Me.kind) ELSE None]
    BY <1>6 DEF WriterBranch, End
  <2>8. ASSUME job' # NoJob
        PROVE  /\ old # None => Owned(Me.kind, old, Me.sha)
               /\ job'.run = job.run /\ job'.old = old /\ job'.tree = job.tree
               /\ \/ same /\ job'.out = old /\ job'.pc \in {"dispatchlease", "verify"}
                  \/ ~same /\ job'.pc \in {"commitlease", "commit"}
    <3> HIDE DEF same, old
    <3> QED
      BY <2>1, <2>7, <2>8 DEF JobT
  <2> QED
    BY <2>5, <2>6, <2>8
<1>7. ASSUME WriterCommit
      PROVE  Writing'
  <2>1. job.run # None /\ Me.what = "writer" /\ job.pc = "commit" /\ job \in JobT
    BY <1>7 DEF WriterCommit, At, State, Shapes
  <2>2. /\ job.run \in DOMAIN runs /\ Me.kind \in AllKinds /\ Me.sha \in trunk
        /\ Me.sha \in DOMAIN commits
    BY <2>1, RunFields DEF State, Job, Runs, Fits, Trunk, Me
  <2>3. job'.run = job.run => Me'.kind = Me.kind /\ Me'.sha = Me.sha
    BY <2>1, MeKept
  <2>4. \A y \in DOMAIN commits : y \in DOMAIN commits' /\ commits'[y] = commits[y]
    BY DEF Kept, CommitsKept
  <2>5. CASE job' = NoJob
    BY <2>5, WritingOver
  <2> DEFINE x == Commit(Me.kind, Me.sha, None, job.tree)
  <2>6. CASE /\ commits' = Append(commits, x) /\ MoveBranch(Me.kind, NextCommit)
             /\ job' = [job EXCEPT !.pc = "verify", !.out = NextCommit]
    <3>1. x \in CommitT
      BY <2>1, <2>2, RunFields, JobFields, CommitIs DEF Me, None, State
    <3>2. NextCommit \in DOMAIN commits' /\ commits'[NextCommit] = x
      BY <2>6, <3>1, CommitsAppended DEF State
    <3>3. head'[Me.kind] = NextCommit
      BY <2>2, <2>6 DEF MoveBranch, State, Shapes
    <3>4. job'.pc = "verify" /\ job'.run = job.run /\ job'.out = NextCommit
      BY <2>1, <2>6 DEF JobT
    <3>5. x.by = Me.kind /\ x.parent = Me.sha
      BY DEF Commit
    <3> HIDE DEF x
    <3> QED
      BY <2>2, <2>3, <3>2, <3>3, <3>4, <3>5 DEF Writing, Bot
  <2> QED
    BY <1>7, <2>5, <2>6 DEF WriterCommit, End
<1>8. ASSUME WriterVerify
      PROVE  Writing'
  <2>1. job.run # None /\ Me.what = "writer" /\ job.pc = "verify" /\ job \in JobT
    BY <1>8 DEF WriterVerify, At, State, Shapes
  <2>2. /\ job.run \in DOMAIN runs /\ Me.kind \in AllKinds /\ Me.sha \in trunk
        /\ Me.sha \in DOMAIN commits
    BY <2>1, RunFields DEF State, Job, Runs, Fits, Trunk, Me
  <2>3. job'.run = job.run => Me'.kind = Me.kind /\ Me'.sha = Me.sha
    BY <2>1, MeKept
  <2>4. \A y \in DOMAIN commits : y \in DOMAIN commits' /\ commits'[y] = commits[y]
    BY DEF Kept, CommitsKept
  <2>5. CASE job' = NoJob
    BY <2>5, WritingOver
  <2>6. CASE job'.run = job.run /\ job'.out = job.out /\ job'.pc = "pr"
    <3>1. /\ Bot(job.out, Me.kind, Me.sha)
          /\ head[Me.kind] = job.out \/ Human(head[Me.kind])
      BY <2>1 DEF Progress, Writing
    <3>2. head' = head
      BY <1>8 DEF WriterVerify, git
    <3> QED
      BY <2>3, <2>4, <2>6, <3>1, <3>2 DEF Writing, Bot, Human
  <2> QED
    BY <1>8, <2>1, <2>5, <2>6 DEF WriterVerify, End, Go, JobT
<1>8a. ASSUME WriterLeaseAgain
       PROVE  Writing'
  <2>1. /\ job.run # None /\ Me.what = "writer" /\ job.pc \in {"commitlease", "dispatchlease"}
        /\ job \in JobT
    BY <1>8a DEF WriterLeaseAgain, At, State, Shapes
  <2>2. /\ job.run \in DOMAIN runs /\ Me.kind \in AllKinds /\ Me.sha \in trunk
        /\ Me.sha \in DOMAIN commits
    BY <2>1, RunFields DEF State, Job, Runs, Fits, Trunk, Me
  <2>3. job'.run = job.run => Me'.kind = Me.kind /\ Me'.sha = Me.sha
    BY <2>1, MeKept
  <2>4. \A y \in DOMAIN commits : y \in DOMAIN commits' /\ commits'[y] = commits[y]
    BY DEF Kept, CommitsKept
  <2>5. CASE job' = NoJob
    BY <2>5, WritingOver
  <2>6. CASE job.pc = "commitlease" /\ job' = [job EXCEPT !.pc = "commit"]
    <3>1. job'.pc = "commit" /\ job'.run = job.run /\ job'.old = job.old /\ job'.tree = job.tree
      BY <2>1, <2>6 DEF JobT
    <3>2. /\ job.old = None \/ commits[job.old].by # "human"
          /\ Me.kind = "data" => job.tree[2] = commits[Me.sha].ver
      BY <2>1, <2>6 DEF Progress, Writing
    <3>3. job.old = None \/ job.old \in DOMAIN commits
      BY DEF State, Job
    <3> QED
      BY <2>2, <2>3, <2>4, <3>1, <3>2, <3>3 DEF Writing
  <2>7. CASE job.pc = "dispatchlease" /\ job' = [job EXCEPT !.pc = "dispatch"]
    <3>1. job'.pc = "dispatch" /\ job'.run = job.run /\ job'.out = job.out
      BY <2>1, <2>7 DEF JobT
    <3>2. /\ Bot(job.out, Me.kind, Me.sha)
          /\ head[Me.kind] = job.out \/ Human(head[Me.kind])
      BY <2>1, <2>7 DEF Progress, Writing
    <3>3. head' = head
      BY <1>8a DEF WriterLeaseAgain, git
    <3> QED
      BY <2>3, <2>4, <3>1, <3>2, <3>3 DEF Writing, Bot, Human
  <2> QED
    BY <1>8a, <2>1, <2>5, <2>6, <2>7 DEF WriterLeaseAgain, End, Go
<1>9. ASSUME WriterPr
      PROVE  Writing'
  <2>1. job.run # None /\ Me.what = "writer" /\ job.pc = "pr" /\ job \in JobT
    BY <1>9 DEF WriterPr, At, State, Shapes
  <2>2. /\ job.run \in DOMAIN runs /\ Me.kind \in AllKinds /\ Me.sha \in trunk
        /\ Me.sha \in DOMAIN commits
    BY <2>1, RunFields DEF State, Job, Runs, Fits, Trunk, Me
  <2>3. job'.run = job.run => Me'.kind = Me.kind /\ Me'.sha = Me.sha
    BY <2>1, MeKept
  <2>4. \A y \in DOMAIN commits : y \in DOMAIN commits' /\ commits'[y] = commits[y]
    BY DEF Kept, CommitsKept
  <2>5. CASE job' = NoJob
    BY <2>5, WritingOver
  <2>6. CASE job'.run = job.run /\ job'.out = job.out /\ job'.pc \in {"dispatchlease", "dispatch"}
    <3>1. /\ Bot(job.out, Me.kind, Me.sha)
          /\ head[Me.kind] = job.out \/ Human(head[Me.kind])
      BY <2>1 DEF Progress, Writing
    <3>2. head' = head
      BY <1>9 DEF WriterPr, git
    <3> QED
      BY <2>3, <2>4, <2>6, <3>1, <3>2 DEF Writing, Bot, Human
  <2> QED
    BY <1>9, <2>1, <2>5, <2>6 DEF WriterPr, AfterPr, End, Go, JobT
<1>10. ASSUME WriterDispatch
       PROVE  Writing'
  <2> QED
    BY <1>10, WritingOver DEF WriterDispatch, End
<1>11. ASSUME ControllerSkip
       PROVE  Writing'
  <2>1. job.run # None /\ Me.what = "controller" /\ job \in JobT
    BY <1>11 DEF ControllerSkip, At, State, Shapes
  <2>2. job' = NoJob \/ job'.run = job.run
    BY <1>11, <2>1 DEF ControllerSkip, Go, End, JobT
  <2> QED
    BY <2>1, <2>2, WritingOver
<1>12. ASSUME ControllerResolve
       PROVE  Writing'
  <2>1. job.run # None /\ Me.what = "controller" /\ job \in JobT
    BY <1>12 DEF ControllerResolve, At, State, Shapes
  <2>2. job' = NoJob \/ job'.run = job.run
    BY <1>12, <2>1 DEF ControllerResolve, Go, End, JobT
  <2> QED
    BY <2>1, <2>2, WritingOver
<1>13. ASSUME ControllerCheck
       PROVE  Writing'
  <2>1. job.run # None /\ Me.what = "controller" /\ job \in JobT
    BY <1>13 DEF ControllerCheck, At, State, Shapes
  <2>2. job' = NoJob \/ job'.run = job.run
    BY <1>13, <2>1 DEF ControllerCheck, Go, End, JobT
  <2> QED
    BY <2>1, <2>2, WritingOver
<1>13a. ASSUME ControllerPolicy
        PROVE  Writing'
  <2>1. job.run # None /\ Me.what = "controller" /\ job \in JobT
    BY <1>13a DEF ControllerPolicy, At, State, Shapes
  <2>2. job' = NoJob \/ job'.run = job.run
    BY <1>13a, <2>1 DEF ControllerPolicy, Go, End, JobT
  <2> QED
    BY <2>1, <2>2, WritingOver
<1>13b. ASSUME ControllerMain
        PROVE  Writing'
  <2>1. job.run # None /\ Me.what = "controller" /\ job \in JobT
    BY <1>13b DEF ControllerMain, At, State, Shapes
  <2>2. job' = NoJob \/ job'.run = job.run
    BY <1>13b, <2>1 DEF ControllerMain, Go, End, JobT
  <2> QED
    BY <2>1, <2>2, WritingOver
<1>14. ASSUME ControllerAgain
       PROVE  Writing'
  <2>1. job.run # None /\ Me.what = "controller" /\ job \in JobT
    BY <1>14 DEF ControllerAgain, At, State, Shapes
  <2>2. job' = NoJob \/ job'.run = job.run
    BY <1>14, <2>1 DEF ControllerAgain, Go, End, JobT
  <2> QED
    BY <2>1, <2>2, WritingOver
<1>15. ASSUME ControllerMerge
       PROVE  Writing'
  <2>1. job.run # None /\ Me.what = "controller" /\ job \in JobT
    BY <1>15 DEF ControllerMerge, At, State, Shapes
  <2>2. job' = NoJob \/ job'.run = job.run
    BY <1>15, <2>1 DEF ControllerMerge, Go, End, JobT
  <2> QED
    BY <2>1, <2>2, WritingOver
<1>16. ASSUME ControllerVerify
       PROVE  Writing'
  <2>1. job.run # None /\ Me.what = "controller" /\ job \in JobT
    BY <1>16 DEF ControllerVerify, At, State, Shapes
  <2>2. job' = NoJob \/ job'.run = job.run
    BY <1>16, <2>1 DEF ControllerVerify, Go, End, JobT
  <2> QED
    BY <2>1, <2>2, WritingOver
<1>17. ASSUME ControllerTagCheck
       PROVE  Writing'
  <2>1. job.run # None /\ Me.what = "controller" /\ job \in JobT
    BY <1>17 DEF ControllerTagCheck, At, State, Shapes
  <2>2. job' = NoJob \/ job'.run = job.run
    BY <1>17, <2>1 DEF ControllerTagCheck, Go, End, JobT
  <2> QED
    BY <2>1, <2>2, WritingOver
<1>18. ASSUME ControllerPushTags
       PROVE  Writing'
  <2>1. job.run # None /\ Me.what = "controller" /\ job \in JobT
    BY <1>18 DEF ControllerPushTags, At, State, Shapes
  <2>2. job' = NoJob \/ job'.run = job.run
    BY <1>18, <2>1 DEF ControllerPushTags, Go, End, JobT
  <2> QED
    BY <2>1, <2>2, WritingOver
<1>19. ASSUME ControllerDispatchRelease
       PROVE  Writing'
  <2>1. job.run # None /\ Me.what = "controller" /\ job \in JobT
    BY <1>19 DEF ControllerDispatchRelease, At, State, Shapes
  <2>2. job' = NoJob \/ job'.run = job.run
    BY <1>19, <2>1 DEF ControllerDispatchRelease, Go, End, JobT
  <2> QED
    BY <2>1, <2>2, WritingOver
<1>20. ASSUME \/ RecStart \/ RecMain \/ RecControllers \/ RecRecheck \/ RecLast
              \/ RecLease \/ RecDispatch \/ ToggleProtection \/ HumanTags
       PROVE  Writing'
  BY <1>20, WritingKept DEF RecStart, RecAt, RecGo, RecOrStop, Reads, RecMain,
       RecControllers, RecRecheck, RecLast, RecLease, RecDispatch, ToggleProtection,
       Chaos, HumanTags
<1>21. ASSUME NEW l \in AllKinds, RecCandidate(l) \/ HumanClosesPr(l)
       PROVE  Writing'
  BY <1>21, WritingKept DEF RecCandidate, RecAt, RecGo, RecOrStop, Reads,
       HumanClosesPr, Chaos
<1>22. ASSUME NEW h \in Catalogs \cup {commits[main].cat}, HumanPushMain(h)
       PROVE  Writing'
  BY <1>22, WritingKept DEF HumanPushMain, Chaos
<1>23. ASSUME NEW l \in AllKinds, HumanPushBranch(l)
       PROVE  Writing'
  <2>1. head[l] \in DOMAIN commits
    BY <1>23 DEF HumanPushBranch, State, Pulls
  <2>2. /\ commits[head[l]].parent \in Nat /\ Tree(head[l]) \in Pairs /\ None \in Nat
        /\ head[l] \in Nat
    BY <2>1, CommitFields DEF None, State
  <2> DEFINE x == Commit("human", commits[head[l]].parent, None, Tree(head[l]))
  <2>3. /\ x \in CommitT /\ x.by = "human" /\ x.parent = commits[head[l]].parent
        /\ x.second = None
    BY <2>2, CommitIs DEF Commit
  <2>4. commits' = Append(commits, x) /\ main' = main /\ trunk' = trunk
    BY <1>23 DEF HumanPushBranch
  <2>5. NextCommit \in DOMAIN commits' /\ commits'[NextCommit] = x
    BY <2>3, <2>4, CommitsAppended DEF State
  <2>6. \A k \in AllKinds : head'[k] = head[k] \/ head'[k] = NextCommit
    BY <1>23 DEF HumanPushBranch, MoveBranch, State, Shapes
  <2>7. \A k \in AllKinds : head'[k] = head[k] \/ Human(head[k])'
    BY <2>3, <2>5, <2>6 DEF Human
  <2> QED
    BY <1>23, <2>7, WritingKept DEF HumanPushBranch
<1>24. ASSUME Crash
       PROVE  Writing'
  <2> QED
    BY <1>24, WritingOver DEF Crash, End
<1>25. ASSUME NEW v \in dispatched, Publishes(v)
       PROVE  Writing'
  BY <1>25, WritingKept DEF Publishes
<1> QED
  BY <1>1, <1>2, <1>3, <1>4, <1>5, <1>6, <1>7, <1>8, <1>8a, <1>9, <1>10, <1>11,
     <1>12, <1>13, <1>13a, <1>13b, <1>14, <1>15, <1>16, <1>17, <1>18, <1>19, <1>20,
     <1>21, <1>22, <1>23, <1>24, <1>25 DEF Next, Writer, Controller, Reconciler, GitHub, People


\* What a controller is bound to stays while it goes on.
LEMMA BoundKept ==
  ASSUME State, Kept, job.run # None, job'.run = job.run, Me.what = "controller"
  PROVE  /\ Bound'.st = Bound.st /\ Bound'.head = Bound.head /\ Bound'.base = Bound.base
         /\ Bound'.kind = Bound.kind /\ Version' = Version
         /\ commits'[Bound.head] = commits[Bound.head]
<1>1. job.run \in DOMAIN runs /\ Me'.ci = Me.ci
  BY MeKept
<1>2. /\ Me.ci \in DOMAIN ci /\ Bound.st # "running" /\ Bound.head \in DOMAIN commits
  BY <1>1, BoundIs DEF State
<1>3. /\ ci'[Me.ci].head = ci[Me.ci].head /\ ci'[Me.ci].base = ci[Me.ci].base
      /\ ci'[Me.ci].kind = ci[Me.ci].kind /\ ci'[Me.ci].st = ci[Me.ci].st
  BY <1>2 DEF Kept, CiKept, Bound
<1>4. commits'[Bound.head] = commits[Bound.head]
  BY <1>2 DEF Kept, CommitsKept
<1> QED
  BY <1>1, <1>3, <1>4 DEF Bound, Version

\* What a controller has established, when it goes on to a place whose facts hold.
LEMMA ControllingOn ==
  ASSUME State, Progress, Kept, job.run # None, job'.run = job.run, Me.what = "controller",
         job.pc # "resolve",
         main' = main \/ commits'[main'].ver = commits[main].ver
           \/ job'.pc \notin {"check", "policy", "main", "again", "merge"},
         job'.pc \in {"check", "policy", "main", "again", "merge"} =>
           job.pc \in {"check", "policy", "main", "again", "merge"} /\ job'.pr = job.pr,
         job'.pc \in {"verify", "tagcheck", "push", "release"} => job'.out \in trunk',
         job'.pc \in {"tagcheck", "push", "release"} =>
           /\ Release /\ job'.out \in DOMAIN commits
           /\ commits[job'.out].parent = Bound.base /\ commits[job'.out].second = Bound.head
           /\ Tree(job'.out) = Tree(Bound.head),
         job'.pc = "release" => [ver |-> Version, commit |-> job'.out] \in tags'
  PROVE  Controlling'
<1>1. /\ Bound'.st = Bound.st /\ Bound'.head = Bound.head /\ Bound'.base = Bound.base
      /\ Version' = Version /\ commits'[Bound.head] = commits[Bound.head]
  BY BoundKept
<1>2. Me'.apply = Me.apply /\ (Release' <=> Release)
  BY MeKept
<1>3. /\ Me.apply /\ Bound.st = "success"
      /\ Release => Version - 1 \in published
      /\ job.pc \in {"check", "policy", "main", "again", "merge"} =>
           /\ job.pr # None
           /\ Release => /\ commits[main].ver <= Version
                         /\ \E t \in tags : Version <= t.ver + 1
  BY DEF Progress, Controlling
<1>4. /\ \A y \in DOMAIN commits : commits'[y] = commits[y]
      /\ main \in DOMAIN commits /\ tags \subseteq tags' /\ published \subseteq published'
  BY DEF Kept, CommitsKept, ReleaseKept, State, Trunk
<1>5. job'.pc \in {"tagcheck", "push", "release"} =>
           /\ commits'[job'.out].parent = Bound.base /\ commits'[job'.out].second = Bound.head
           /\ Tree(job.out)' = Tree(Bound.head)'
  BY <1>1, <1>4 DEF Tree
<1> QED
  BY <1>1, <1>2, <1>3, <1>4, <1>5 DEF Controlling

\* What a controller has established stays while the version of main does.
LEMMA ControllingKept ==
  ASSUME State, Progress, Kept, job' = job,
         main' = main \/ commits'[main'].ver = commits[main].ver
  PROVE  Controlling'
<1>1. CASE job.run = None \/ Me.what # "controller" \/ job.pc = "resolve"
  BY <1>1, MeKept DEF Controlling
<1>2. CASE job.run # None /\ Me.what = "controller" /\ job.pc # "resolve"
  <2>1. trunk \subseteq trunk' /\ tags \subseteq tags' /\ trunk \subseteq DOMAIN commits
    BY DEF Kept, CommitsKept, ReleaseKept, State, Trunk
  <2>2. /\ job.pc \in {"verify", "tagcheck", "push", "release"} => job.out \in trunk
        /\ job.pc \in {"tagcheck", "push", "release"} =>
             /\ Release
             /\ commits[job.out].parent = Bound.base /\ commits[job.out].second = Bound.head
             /\ Tree(job.out) = Tree(Bound.head)
        /\ job.pc = "release" => [ver |-> Version, commit |-> job.out] \in tags
    BY <1>2 DEF Progress, Controlling
  <2> QED
    BY <1>2, <2>1, <2>2, ControllingOn
<1> QED
  BY <1>1, <1>2

\* Nothing is asked of a job that has ended, or of the job of a writer.
LEMMA ControllingOver ==
  ASSUME State, Kept, job' = NoJob \/ (Me.what = "writer" /\ job'.run = job.run)
  PROVE  Controlling'
BY MeKept DEF Controlling, NoJob

\* What a controller relies on stays true while it works.
LEMMA ControllingStep ==
  ASSUME State, Progress, Kept, Next
  PROVE  Controlling'
<1> USE DEF git
<1>1. ASSUME NEW k \in Kinds, Trigger(k)
      PROVE  Controlling'
  BY <1>1, ControllingKept DEF Trigger
<1>2. ASSUME NEW i \in DOMAIN runs, StartRun(i)
      PROVE  Controlling'
  <2>1. i \in DOMAIN runs' /\ runs'[i].what = runs[i].what
    BY DEF Kept, RunsKept
  <2>2. job'.run = i /\ job'.pc = IF runs[i].what = "writer" THEN "lease" ELSE "resolve"
    BY <1>2 DEF StartRun, NoJob
  <2> QED
    BY <2>1, <2>2 DEF Controlling, Me
<1>3. ASSUME NEW j \in DOMAIN ci, CiWakes(j)
      PROVE  Controlling'
  BY <1>3, ControllingKept DEF CiWakes
<1>4. ASSUME NEW j \in DOMAIN ci, NEW s \in {"success", "failure"}, CiFinish(j, s)
      PROVE  Controlling'
  BY <1>4, ControllingKept DEF CiFinish
<1>5. ASSUME NEW c \in Catalogs \cup {x.cat : x \in {commits[y] : y \in DOMAIN commits}},
             WriterLease(c)
      PROVE  Controlling'
  <2>1. job.run # None /\ Me.what = "writer" /\ job \in JobT
    BY <1>5 DEF WriterLease, At, State, Shapes
  <2>2. job' = NoJob \/ job'.run = job.run
    BY <1>5, <2>1 DEF WriterLease, Go, End, JobT
  <2> QED
    BY <2>1, <2>2, ControllingOver
<1>6. ASSUME WriterBranch
      PROVE  Controlling'
  <2>1. job.run # None /\ Me.what = "writer" /\ job \in JobT
    BY <1>6 DEF WriterBranch, At, State, Shapes
  <2>2. job' = NoJob \/ job'.run = job.run
    BY <1>6, <2>1 DEF WriterBranch, Go, End, JobT
  <2> QED
    BY <2>1, <2>2, ControllingOver
<1>7. ASSUME WriterCommit
      PROVE  Controlling'
  <2>1. job.run # None /\ Me.what = "writer" /\ job \in JobT
    BY <1>7 DEF WriterCommit, At, State, Shapes
  <2>2. job' = NoJob \/ job'.run = job.run
    BY <1>7, <2>1 DEF WriterCommit, Go, End, JobT
  <2> QED
    BY <2>1, <2>2, ControllingOver
<1>8. ASSUME WriterVerify
      PROVE  Controlling'
  <2>1. job.run # None /\ Me.what = "writer" /\ job \in JobT
    BY <1>8 DEF WriterVerify, At, State, Shapes
  <2>2. job' = NoJob \/ job'.run = job.run
    BY <1>8, <2>1 DEF WriterVerify, Go, End, JobT
  <2> QED
    BY <2>1, <2>2, ControllingOver
<1>8a. ASSUME WriterLeaseAgain
       PROVE  Controlling'
  <2>1. job.run # None /\ Me.what = "writer" /\ job \in JobT
    BY <1>8a DEF WriterLeaseAgain, At, State, Shapes
  <2>2. job' = NoJob \/ job'.run = job.run
    BY <1>8a, <2>1 DEF WriterLeaseAgain, Go, End, JobT
  <2> QED
    BY <2>1, <2>2, ControllingOver
<1>9. ASSUME WriterPr
      PROVE  Controlling'
  <2>1. job.run # None /\ Me.what = "writer" /\ job \in JobT
    BY <1>9 DEF WriterPr, At, State, Shapes
  <2>2. job' = NoJob \/ job'.run = job.run
    BY <1>9, <2>1 DEF WriterPr, Go, End, JobT
  <2> QED
    BY <2>1, <2>2, ControllingOver
<1>10. ASSUME WriterDispatch
       PROVE  Controlling'
  <2>1. job.run # None /\ Me.what = "writer" /\ job \in JobT
    BY <1>10 DEF WriterDispatch, At, State, Shapes
  <2>2. job' = NoJob \/ job'.run = job.run
    BY <1>10, <2>1 DEF WriterDispatch, Go, End, JobT
  <2> QED
    BY <2>1, <2>2, ControllingOver
<1>11. ASSUME ControllerSkip
       PROVE  Controlling'
  <2> QED
    BY <1>11, ControllingOver DEF ControllerSkip, End
<1>12. ASSUME ControllerResolve
       PROVE  Controlling'
  <2>1. /\ job.run # None /\ Me.what = "controller" /\ job.pc = "resolve" /\ job \in JobT
        /\ job.run \in DOMAIN runs
    BY <1>12 DEF ControllerResolve, At, State, Shapes, Job
  <2> DEFINE p == IF Me.pr # None THEN Me.pr ELSE OpenPr(Bound.kind)
  <2>2. CASE job' = NoJob
    BY <2>2, ControllingOver
  <2>3. CASE /\ Bound.st = "success" /\ Exact(p) /\ Eligible(p) /\ Me.apply
             /\ job' = [job EXCEPT !.pc = "check", !.pr = p]
    <3>1. job'.pc = "check" /\ job'.pr = p /\ job'.run = job.run /\ p # None
      BY <2>1, <2>3 DEF JobT, Exact
    <3>2. /\ Bound'.st = Bound.st /\ Version' = Version
      BY <2>1, <3>1, BoundKept
    <3>3. Me'.apply = Me.apply /\ (Release' <=> Release)
      BY <2>1, <3>1, MeKept
    <3>4. Bound.kind = Me.kind /\ Version = commits[Bound.head].ver
      BY <2>1, BoundIs DEF State
    <3>5. LatestTag \in tags /\ \A u \in tags : u.ver <= LatestTag.ver
      BY LatestTagIs DEF State
    <3>6. LatestTag.ver \in Nat /\ commits[main].ver \in Nat
      BY <3>5, CommitFields DEF State, Shapes, Trunk
    <3>7. Release => Version = LatestTag.ver + 1 /\ LatestTag.ver \in published
      BY <2>3, <3>4 DEF Release, Eligible
    <3>8. Release => commits[main].ver <= Version
      <4>1. PICK t \in tags : commits[main].ver <= t.ver + 1
        BY DEF State, Tags
      <4>2. t.ver \in Nat /\ t.ver <= LatestTag.ver
        BY <3>5 DEF State, Shapes
      <4> QED
        BY <3>6, <3>7, <4>1, <4>2
    <3>9. Release => Version - 1 \in published /\ Version <= LatestTag.ver + 1
      BY <3>6, <3>7
    <3>10. main' = main /\ commits' = commits /\ tags' = tags /\ published' = published
      BY <1>12 DEF ControllerResolve, git, release
    <3> QED
      BY <2>3, <3>1, <3>2, <3>3, <3>5, <3>8, <3>9, <3>10 DEF Controlling
  <2> QED
    BY <1>12, <2>2, <2>3 DEF ControllerResolve, End
<1>13. ASSUME ControllerCheck
       PROVE  Controlling'
  <2>1. /\ job.run # None /\ Me.what = "controller" /\ job.pc = "check" /\ job \in JobT
        /\ job.run \in DOMAIN runs
    BY <1>13 DEF ControllerCheck, At, State, Shapes, Job
  <2>2. CASE job' = NoJob
    BY <2>2, ControllingOver
  <2>3. CASE job'.pc = "policy" /\ job'.run = job.run /\ job'.pr = job.pr
    BY <1>13, <2>1, <2>3, ControllingOn DEF ControllerCheck, git
  <2> QED
    BY <1>13, <2>1, <2>2, <2>3 DEF ControllerCheck, End, Go, JobT
<1>13a. ASSUME ControllerPolicy
        PROVE  Controlling'
  <2>1. /\ job.run # None /\ Me.what = "controller" /\ job.pc = "policy" /\ job \in JobT
        /\ job.run \in DOMAIN runs
    BY <1>13a DEF ControllerPolicy, At, State, Shapes, Job
  <2>2. CASE job' = NoJob
    BY <2>2, ControllingOver
  <2>3. CASE job'.pc = "main" /\ job'.run = job.run /\ job'.pr = job.pr
    BY <1>13a, <2>1, <2>3, ControllingOn DEF ControllerPolicy, git
  <2> QED
    BY <1>13a, <2>1, <2>2, <2>3 DEF ControllerPolicy, End, Go, JobT
<1>13b. ASSUME ControllerMain
        PROVE  Controlling'
  <2>1. /\ job.run # None /\ Me.what = "controller" /\ job.pc = "main" /\ job \in JobT
        /\ job.run \in DOMAIN runs
    BY <1>13b DEF ControllerMain, At, State, Shapes, Job
  <2>2. CASE job' = NoJob
    BY <2>2, ControllingOver
  <2>3. CASE job'.pc \in {"again", "merge"} /\ job'.run = job.run /\ job'.pr = job.pr
    BY <1>13b, <2>1, <2>3, ControllingOn DEF ControllerMain, git
  <2> QED
    BY <1>13b, <2>1, <2>2, <2>3 DEF ControllerMain, End, Go, JobT
<1>14. ASSUME ControllerAgain
       PROVE  Controlling'
  <2>1. /\ job.run # None /\ Me.what = "controller" /\ job.pc = "again" /\ job \in JobT
        /\ job.run \in DOMAIN runs
    BY <1>14 DEF ControllerAgain, At, State, Shapes, Job
  <2>2. CASE job' = NoJob
    BY <2>2, ControllingOver
  <2>3. CASE job'.pc \in {"again", "merge"} /\ job'.run = job.run /\ job'.pr = job.pr
    BY <1>14, <2>1, <2>3, ControllingOn DEF ControllerAgain, git
  <2> QED
    BY <1>14, <2>1, <2>2, <2>3 DEF ControllerAgain, End, Go, JobT
<1>15. ASSUME ControllerMerge
       PROVE  Controlling'
  <2>1. /\ job.run # None /\ Me.what = "controller" /\ job.pc = "merge" /\ job \in JobT
        /\ job.run \in DOMAIN runs
    BY <1>15 DEF ControllerMerge, At, State, Shapes, Job
  <2>2. CASE job' = NoJob
    BY <2>2, ControllingOver
  <2>3. CASE /\ job' = [job EXCEPT !.pc = "verify", !.out = NextCommit]
             /\ trunk' = trunk \cup {NextCommit}
    <3>1. job'.pc = "verify" /\ job'.run = job.run /\ job'.out \in trunk'
      BY <2>1, <2>3 DEF JobT
    <3> QED
      BY <2>1, <3>1, ControllingOn
  <2> QED
    BY <1>15, <2>2, <2>3 DEF ControllerMerge, End
<1>16. ASSUME ControllerVerify
       PROVE  Controlling'
  <2>1. /\ job.run # None /\ Me.what = "controller" /\ job.pc = "verify" /\ job \in JobT
        /\ job.run \in DOMAIN runs
    BY <1>16 DEF ControllerVerify, At, State, Shapes, Job
  <2>2. CASE job' = NoJob
    BY <2>2, ControllingOver
  <2>3. CASE IsVerified(job.out) /\ Bound.kind # "data" /\ Go("tagcheck")
    <3>1. job'.pc = "tagcheck" /\ job'.run = job.run /\ job'.out = job.out
      BY <2>1, <2>3 DEF JobT, Go
    <3>2. Release
      BY <2>1, <2>3, BoundIs DEF State, Release, AllKinds
    <3>3. job.out \in trunk /\ job.out \in DOMAIN commits /\ trunk' = trunk /\ main' = main
      BY <1>16, <2>1 DEF Progress, Controlling, State, Trunk, ControllerVerify, git
    <3> QED
      BY <2>1, <2>3, <3>1, <3>2, <3>3, ControllingOn DEF IsVerified
  <2> QED
    BY <1>16, <2>2, <2>3 DEF ControllerVerify, End
<1>17. ASSUME ControllerTagCheck
       PROVE  Controlling'
  <2>1. /\ job.run # None /\ Me.what = "controller" /\ job.pc = "tagcheck" /\ job \in JobT
        /\ job.run \in DOMAIN runs
    BY <1>17 DEF ControllerTagCheck, At, State, Shapes, Job
  <2>2. CASE job' = NoJob
    BY <2>2, ControllingOver
  <2>3. CASE Go("push")
    <3>1. job'.pc = "push" /\ job'.run = job.run /\ job'.out = job.out
      BY <2>1, <2>3 DEF JobT, Go
    <3>2. /\ job.out \in trunk /\ Release
          /\ commits[job.out].parent = Bound.base /\ commits[job.out].second = Bound.head
          /\ Tree(job.out) = Tree(Bound.head)
      BY <2>1 DEF Progress, Controlling
    <3>3. job.out \in DOMAIN commits /\ trunk' = trunk /\ main' = main
      BY <1>17, <3>2 DEF State, Trunk, ControllerTagCheck, git
    <3> QED
      BY <2>1, <2>3, <3>1, <3>2, <3>3, ControllingOn
  <2> QED
    BY <1>17, <2>2, <2>3 DEF ControllerTagCheck, End
<1>18. ASSUME ControllerPushTags
       PROVE  Controlling'
  <2>1. /\ job.run # None /\ Me.what = "controller" /\ job.pc = "push" /\ job \in JobT
        /\ job.run \in DOMAIN runs
    BY <1>18 DEF ControllerPushTags, At, State, Shapes, Job
  <2>2. CASE job' = NoJob
    BY <2>2, ControllingOver
  <2>3. CASE Go("release") /\ [ver |-> Version, commit |-> job.out] \in tags'
    <3>1. job'.pc = "release" /\ job'.run = job.run /\ job'.out = job.out
      BY <2>1, <2>3 DEF JobT, Go
    <3>2. /\ job.out \in trunk /\ Release
          /\ commits[job.out].parent = Bound.base /\ commits[job.out].second = Bound.head
          /\ Tree(job.out) = Tree(Bound.head)
      BY <2>1 DEF Progress, Controlling
    <3>3. job.out \in DOMAIN commits /\ trunk' = trunk /\ main' = main
      BY <1>18, <3>2 DEF State, Trunk, ControllerPushTags, git
    <3> QED
      BY <2>1, <2>3, <3>1, <3>2, <3>3, ControllingOn
  <2> QED
    BY <1>18, <2>2, <2>3 DEF ControllerPushTags, End
<1>19. ASSUME ControllerDispatchRelease
       PROVE  Controlling'
  <2> QED
    BY <1>19, ControllingOver DEF ControllerDispatchRelease, End
<1>20. ASSUME \/ RecStart \/ RecMain \/ RecControllers \/ RecRecheck \/ RecLast
              \/ RecLease \/ RecDispatch \/ ToggleProtection \/ HumanTags
       PROVE  Controlling'
  BY <1>20, ControllingKept DEF RecStart, RecAt, RecGo, RecOrStop, Reads, RecMain,
       RecControllers, RecRecheck, RecLast, RecLease, RecDispatch, ToggleProtection,
       Chaos, HumanTags
<1>21. ASSUME NEW l \in AllKinds,
              RecCandidate(l) \/ HumanPushBranch(l) \/ HumanClosesPr(l)
       PROVE  Controlling'
  BY <1>21, ControllingKept DEF RecCandidate, RecAt, RecGo, RecOrStop, Reads,
       HumanPushBranch, Chaos, HumanClosesPr
<1>22. ASSUME NEW h \in Catalogs \cup {commits[main].cat}, HumanPushMain(h)
       PROVE  Controlling'
  <2>1. main \in DOMAIN commits /\ main \in Nat
    BY DEF State, Shapes, Trunk
  <2>2. commits[main].cat \in Nat /\ commits[main].ver \in Nat /\ None \in Nat
    BY <2>1, CommitFields DEF None, State
  <2>3. h \in Nat /\ <<h, commits[main].ver>> \in Pairs
    BY <1>22, <2>2, CatalogsAssumption DEF Pairs
  <2> DEFINE x == Commit("human", main, None, <<h, commits[main].ver>>)
  <2>4. /\ x \in CommitT /\ x.by = "human" /\ x.parent = main /\ x.second = None
        /\ x.ver = commits[main].ver
    BY <2>1, <2>2, <2>3, CommitIs DEF Commit
  <2>5. commits' = Append(commits, x) /\ main' = NextCommit /\ trunk' = trunk \cup {NextCommit}
    BY <1>22 DEF HumanPushMain
  <2>6. commits'[main'].ver = commits[main].ver
    BY <2>4, <2>5, CommitsAppended DEF State
  <2> QED
    BY <1>22, <2>6, ControllingKept DEF HumanPushMain
<1>23. ASSUME Crash
       PROVE  Controlling'
  <2> QED
    BY <1>23, ControllingOver DEF Crash, End
<1>24. ASSUME NEW v \in dispatched, Publishes(v)
       PROVE  Controlling'
  BY <1>24, ControllingKept DEF Publishes
<1> QED
  BY <1>1, <1>2, <1>3, <1>4, <1>5, <1>6, <1>7, <1>8, <1>8a, <1>9, <1>10, <1>11,
     <1>12, <1>13, <1>13a, <1>13b, <1>14, <1>15, <1>16, <1>17, <1>18, <1>19, <1>20,
     <1>21, <1>22, <1>23, <1>24 DEF Next, Writer, Controller, Reconciler, GitHub, People


\* A run that was not there is queued, and the reconciler queues but the one it picked.
NewRuns ==
  \A i \in DOMAIN runs' : i \notin DOMAIN runs =>
    /\ runs'[i].st = "queued"
    /\ runs'[i].by = "reconcile" =>
         rec.pc = "dispatch" /\ runs'[i].ci = Picked.ci /\ rec' = IdleRec /\ i = Len(runs) + 1

\* No run is new when the running one ends.
LEMMA NewRunsEnded ==
  ASSUME State, job.run # None, NEW st \in RunStates, NEW out \in Nat, End(st, out)
  PROVE  NewRuns
BY EndEffect DEF NewRuns, State, Job

\* One run is new when one is queued.
LEMMA NewRunsQueued ==
  ASSUME State, NEW r \in RunT, Enqueue(r), r.st = "queued",
         r.by = "reconcile" => rec.pc = "dispatch" /\ r.ci = Picked.ci /\ rec' = IdleRec
  PROVE  NewRuns
BY EnqueueEffect DEF NewRuns, State

\* What a step may queue.
LEMMA NewRunsStep ==
  ASSUME State, Progress, Next
  PROVE  NewRuns
<1>1. ASSUME NEW k \in Kinds, Trigger(k)
      PROVE  NewRuns
  <2> DEFINE r == Run("writer", k, None, None, FALSE, "schedule")
  <2>1. r \in RunT
    BY RunIs, KindsAssumption DEF None, State
  <2>2. r.st = "queued" /\ r.by = "schedule" /\ Enqueue(r)
    BY <1>1 DEF Run, Trigger
  <2> HIDE DEF r
  <2> QED
    BY <2>1, <2>2, NewRunsQueued
<1>2. ASSUME NEW i \in DOMAIN runs, StartRun(i)
      PROVE  NewRuns
  BY <1>2 DEF StartRun, NewRuns, State, Shapes
<1>3. ASSUME NEW j \in DOMAIN ci, CiWakes(j)
      PROVE  NewRuns
  <2> DEFINE r == Run("controller", ci[j].kind, j, None, ci[j].kind \in Automatic, "event")
  <2>1. r \in RunT
    BY ControllerRunIs, CiFields DEF None, State
  <2>2. r.st = "queued" /\ r.by = "event"
    BY DEF Run
  <2>3. Enqueue(r)
    BY <1>3 DEF CiWakes
  <2> HIDE DEF r
  <2> QED
    BY <2>1, <2>2, <2>3, NewRunsQueued
<1>4. ASSUME NEW j \in DOMAIN ci, NEW s \in {"success", "failure"}, CiFinish(j, s)
      PROVE  NewRuns
  BY <1>4 DEF CiFinish, NewRuns, RecAt, RecGo, RecOrStop, Reads
<1>5. ASSUME Writer \/ Controller
      PROVE  NewRuns
  <2>1. JobActs
    BY <1>5, JobStepActs DEF State
  <2> QED
    BY <2>1, NewRunsEnded DEF JobActs, NewRuns
<1>6. ASSUME RecStart
      PROVE  NewRuns
  BY <1>6 DEF RecStart, NewRuns, RecAt, RecGo, RecOrStop, Reads
<1>7. ASSUME RecMain
      PROVE  NewRuns
  BY <1>7 DEF RecMain, NewRuns, RecAt, RecGo, RecOrStop, Reads
<1>8. ASSUME NEW l \in AllKinds, RecCandidate(l)
      PROVE  NewRuns
  BY <1>8 DEF RecCandidate, NewRuns, RecAt, RecGo, RecOrStop, Reads
<1>9. ASSUME RecControllers
      PROVE  NewRuns
  BY <1>9 DEF RecControllers, NewRuns, RecAt, RecGo, RecOrStop, Reads
<1>10. ASSUME RecRecheck
       PROVE  NewRuns
  BY <1>10 DEF RecRecheck, NewRuns, RecAt, RecGo, RecOrStop, Reads
<1>11. ASSUME RecLast
       PROVE  NewRuns
  BY <1>11 DEF RecLast, NewRuns, RecAt, RecGo, RecOrStop, Reads
<1>12. ASSUME RecLease
       PROVE  NewRuns
  BY <1>12 DEF RecLease, NewRuns, RecAt, RecGo, RecOrStop, Reads
<1>13. ASSUME RecDispatch
       PROVE  NewRuns
  <2> DEFINE r == Run("controller", rec.pick, Picked.ci, Picked.pr, rec.pick \in Automatic,
                       "reconcile")
  <2>1. rec.pick \in AllKinds /\ Picked \in CandidateT
    BY <1>13 DEF Progress, Reconciling, RecDispatch, RecAt, Picked, State, Shapes, RecT
  <2>2. r \in RunT
    BY <2>1, ControllerRunIs DEF CandidateT, State
  <2>3. r.st = "queued" /\ r.ci = Picked.ci
    BY DEF Run
  <2>4. Enqueue(r) /\ rec.pc = "dispatch" /\ rec' = IdleRec
    BY <1>13 DEF RecDispatch, RecAt
  <2> HIDE DEF r
  <2> QED
    BY <2>2, <2>3, <2>4, NewRunsQueued
<1>14. ASSUME NEW h \in Catalogs \cup {commits[main].cat}, HumanPushMain(h)
       PROVE  NewRuns
  BY <1>14 DEF HumanPushMain, NewRuns, RecAt, RecGo, RecOrStop, Reads
<1>15. ASSUME NEW l \in AllKinds, HumanPushBranch(l)
       PROVE  NewRuns
  BY <1>15 DEF HumanPushBranch, NewRuns, RecAt, RecGo, RecOrStop, Reads
<1>16. ASSUME NEW l \in AllKinds, HumanClosesPr(l)
       PROVE  NewRuns
  BY <1>16 DEF HumanClosesPr, NewRuns, RecAt, RecGo, RecOrStop, Reads
<1>17. ASSUME ToggleProtection
       PROVE  NewRuns
  BY <1>17 DEF ToggleProtection, NewRuns, RecAt, RecGo, RecOrStop, Reads
<1>18. ASSUME Crash
       PROVE  NewRuns
  <2>1. job.run # None /\ job.out \in Nat /\ "failure" \in RunStates
    BY <1>18, JobFields DEF Crash, State, Job, RunStates
  <2> QED
    BY <1>18, <2>1, NewRunsEnded DEF Crash
<1>19. ASSUME HumanTags
       PROVE  NewRuns
  BY <1>19 DEF HumanTags, NewRuns, RecAt, RecGo, RecOrStop, Reads
<1>20. ASSUME NEW v \in dispatched, Publishes(v)
       PROVE  NewRuns
  BY <1>20 DEF Publishes, NewRuns, RecAt, RecGo, RecOrStop, Reads
<1> QED
  BY <1>1, <1>2, <1>3, <1>4, <1>5, <1>6, <1>7, <1>8, <1>9, <1>10, <1>11,
     <1>12, <1>13, <1>14, <1>15, <1>16, <1>17, <1>18, <1>19, <1>20
  DEF Next, Reconciler, GitHub, People


\* What the reconciler has established stays when it does not move.
LEMMA ReconcilingKept ==
  ASSUME State, Progress, Kept, NewRuns, rec' = rec
  PROVE  Reconciling'
<1>1. rec.pc = "dispatch" => rec # IdleRec
  BY DEF IdleRec
<1>2. \A i \in DOMAIN runs' : runs'[i].by = "reconcile" =>
        i \in DOMAIN runs /\ runs[i].by = "reconcile" /\ runs'[i].ci = runs[i].ci
  BY <1>1 DEF NewRuns, Kept, RunsKept
<1>3. /\ trunk \subseteq trunk' /\ DOMAIN prs \subseteq DOMAIN prs'
      /\ \A i \in DOMAIN ci : /\ i \in DOMAIN ci' /\ ci'[i].kind = ci[i].kind
                              /\ ci[i].st = "success" => ci'[i].st = "success"
  BY DEF Kept, CommitsKept, PrsKept, CiKept
<1> QED
  BY <1>2, <1>3 DEF Progress, Reconciling, Picked

\* Nothing is asked of a reconciler that is idle.
LEMMA ReconcilingOver ==
  ASSUME rec' = IdleRec
  PROVE  Reconciling'
BY DEF Reconciling, IdleRec, None

\* What the reconciler has established, when it only goes on to another place.
LEMMA ReconcilingOn ==
  ASSUME State, Progress, NEW pc, rec' = [rec EXCEPT !.pc = pc],
         UNCHANGED <<git, ci, runs>>,
         pc \in {"recheck", "last", "lease", "dispatch"} =>
           rec.pc \in {"recheck", "last", "lease", "dispatch"},
         pc \in {"lease", "dispatch"} =>
           \A i \in DOMAIN runs : runs[i].by = "reconcile" => runs[i].ci # Picked.ci
  PROVE  Reconciling'
<1>1. rec' = [rec EXCEPT !.pc = pc] /\ rec \in RecT
  BY DEF State, Shapes
<1>2. rec'.pc = pc /\ rec'.sha = rec.sha /\ rec'.cand = rec.cand /\ rec'.pick = rec.pick
  BY <1>1 DEF RecT
<1>3. Picked' = Picked
  BY <1>2 DEF Picked
<1> QED
  BY <1>2, <1>3 DEF Progress, Reconciling, git

\* A candidate none of whose controllers may run again has not been picked yet.
LEMMA WantedIsNew ==
  ASSUME State, NEW c \in DOMAIN ci, ci[c].st = "success", Wanted(c)
  PROVE  \A i \in DOMAIN runs : runs[i].by = "reconcile" => runs[i].ci # c
<1>1. SUFFICES ASSUME NEW i \in DOMAIN runs, runs[i].by = "reconcile", runs[i].ci = c
               PROVE  FALSE
  OBVIOUS
<1>2. /\ runs[i].what = "controller" /\ runs[i].kind = ci[c].kind
      /\ runs[i].apply = (runs[i].kind \in Automatic)
  BY <1>1, RunFields DEF State, Runs, Fits
<1>3. i \in ControllersOf(c)
  BY <1>1, <1>2 DEF ControllersOf
<1>4. ControllersOf(c) \subseteq 1..Len(runs) /\ Len(runs) \in Nat
  BY DEF ControllersOf, State, Shapes
<1> DEFINE j == NewestOf(ControllersOf(c))
<1>5. j \in ControllersOf(c)
  BY <1>3, <1>4, NewestIs
<1>6. j \in DOMAIN runs /\ runs[j].what = "controller" /\ runs[j].ci = c /\ j # None
  BY <1>4, <1>5 DEF ControllersOf, None
<1>7. runs[j].st = "skipped"
  BY <1>6 DEF Wanted, MayRetry
<1> QED
  BY <1>6, <1>7 DEF State, Runs, Fits

\* What the reconciler relies on stays true while it reads.
LEMMA ReconcilingStep ==
  ASSUME State, Progress, Kept, NewRuns, Next
  PROVE  Reconciling'
<1>1. ASSUME NEW k \in Kinds, Trigger(k)
      PROVE  Reconciling'
  BY <1>1, ReconcilingKept DEF Trigger
<1>2. ASSUME NEW i \in DOMAIN runs, StartRun(i)
      PROVE  Reconciling'
  BY <1>2, ReconcilingKept DEF StartRun
<1>3. ASSUME NEW j \in DOMAIN ci, CiWakes(j)
      PROVE  Reconciling'
  BY <1>3, ReconcilingKept DEF CiWakes
<1>4. ASSUME NEW j \in DOMAIN ci, NEW s \in {"success", "failure"}, CiFinish(j, s)
      PROVE  Reconciling'
  BY <1>4, ReconcilingKept DEF CiFinish
<1>5. ASSUME NEW c \in Catalogs \cup {x.cat : x \in {commits[y] : y \in DOMAIN commits}},
             WriterLease(c)
      PROVE  Reconciling'
  BY <1>5, ReconcilingKept DEF WriterLease, At, Go
<1>6. ASSUME \/ WriterBranch \/ WriterLeaseAgain \/ WriterCommit \/ WriterVerify
             \/ WriterPr \/ WriterDispatch \/ ControllerSkip \/ ControllerResolve
             \/ ControllerCheck \/ ControllerPolicy \/ ControllerMain \/ ControllerAgain
      PROVE  Reconciling'
  BY <1>6, ReconcilingKept DEF WriterBranch, WriterLeaseAgain, At, Go, WriterCommit,
       WriterVerify, WriterPr, AfterPr, WriterDispatch, ControllerSkip, ControllerResolve,
       ControllerCheck, ControllerPolicy, ControllerMain, ControllerAgain
<1>7. ASSUME \/ ControllerMerge \/ ControllerVerify \/ ControllerTagCheck
             \/ ControllerPushTags \/ ControllerDispatchRelease
             \/ ToggleProtection \/ Crash \/ HumanTags
      PROVE  Reconciling'
  BY <1>7, ReconcilingKept DEF ControllerMerge, At, Go, ControllerVerify,
       ControllerTagCheck, ControllerPushTags, ControllerDispatchRelease,
       ToggleProtection, Chaos, Crash, HumanTags
<1>8. ASSUME RecStart
      PROVE  Reconciling'
  <2>1. rec' = [IdleRec EXCEPT !.pc = "main", !.sha = main]
    BY <1>8 DEF RecStart
  <2>2. rec'.pc = "main" /\ rec'.sha = main /\ rec'.cand = [k \in AllKinds |-> NoCandidate]
    BY <2>1 DEF IdleRec
  <2>3. main \in trunk /\ trunk \subseteq trunk'
    BY DEF State, Trunk, Kept, CommitsKept
  <2> QED
    BY <2>2, <2>3 DEF Reconciling
<1>9. ASSUME RecMain
      PROVE  Reconciling'
  <2>1. UNCHANGED <<git, ci, runs>>
    BY <1>9 DEF RecMain, Reads
  <2> QED
    BY <1>9, <2>1, ReconcilingOver, ReconcilingOn DEF RecMain, RecAt, RecGo, RecOrStop
<1>10. ASSUME NEW l \in AllKinds, RecCandidate(l)
       PROVE  Reconciling'
  <2>1. UNCHANGED <<git, ci, runs>> /\ rec \in RecT
    BY <1>10 DEF RecCandidate, Reads, State, Shapes
  <2> DEFINE c == CandidateOf(l, rec.sha)
  <2>2. rec' = [rec EXCEPT !.cand[l] = c,
                           !.pc = IF l = "data" THEN "release" ELSE "controllers"]
    BY <1>10 DEF RecCandidate
  <2>3. c # NoCandidate => /\ c.pr \in DOMAIN prs /\ c.ci \in DOMAIN ci
                           /\ ci[c.ci].kind = l /\ ci[c.ci].st = "success"
    BY CandidateIs DEF State
  <2> HIDE DEF c
  <2>4. /\ rec'.pc \in {"release", "controllers"} /\ rec'.sha = rec.sha
        /\ rec'.cand[l] = c
        /\ \A k \in AllKinds : k # l => rec'.cand[k] = rec.cand[k]
    BY <2>1, <2>2 DEF RecT
  <2>5. \A k \in AllKinds : rec'.cand[k] # NoCandidate =>
          /\ rec'.cand[k].pr \in DOMAIN prs /\ rec'.cand[k].ci \in DOMAIN ci
          /\ ci[rec'.cand[k].ci].kind = k /\ ci[rec'.cand[k].ci].st = "success"
    BY <2>3, <2>4 DEF Progress, Reconciling
  <2> QED
    BY <2>1, <2>4, <2>5 DEF Progress, Reconciling, git
<1>11. ASSUME RecControllers
       PROVE  Reconciling'
  <2>1. UNCHANGED <<git, ci, runs>> /\ rec \in RecT
    BY <1>11 DEF RecControllers, Reads, State, Shapes
  <2>2. CASE Choice # "none" /\ rec' = [rec EXCEPT !.pc = "recheck", !.pick = Choice]
    <3>1. Choice \in AllKinds /\ rec.cand[Choice] # NoCandidate
      BY <2>2 DEF Choice, AllKinds
    <3>2. /\ rec'.pc = "recheck" /\ rec'.pick = Choice /\ rec'.cand = rec.cand
          /\ rec'.sha = rec.sha
      BY <2>1, <2>2 DEF RecT
    <3> QED
      BY <2>1, <3>1, <3>2 DEF Progress, Reconciling, Picked, git
  <2> QED
    BY <1>11, <2>2, ReconcilingOver DEF RecControllers
<1>12. ASSUME RecRecheck
       PROVE  Reconciling'
  <2>1. UNCHANGED <<git, ci, runs>>
    BY <1>12 DEF RecRecheck, Reads
  <2> QED
    BY <1>12, <2>1, ReconcilingOver, ReconcilingOn DEF RecRecheck, RecAt, RecGo, RecOrStop
<1>13. ASSUME RecLast
       PROVE  Reconciling'
  <2>1. UNCHANGED <<git, ci, runs>> /\ rec.pc = "last"
    BY <1>13 DEF RecLast, Reads, RecAt
  <2>2. Picked.ci \in DOMAIN ci /\ ci[Picked.ci].st = "success"
    BY <2>1 DEF Progress, Reconciling, Picked
  <2>3. CASE Wanted(Picked.ci) /\ rec' = [rec EXCEPT !.pc = "lease"]
    BY <2>1, <2>2, <2>3, WantedIsNew, ReconcilingOn
  <2> QED
    BY <1>13, <2>3, ReconcilingOver DEF RecLast, RecGo, RecOrStop
<1>14. ASSUME RecLease
       PROVE  Reconciling'
  <2>1. UNCHANGED <<git, ci, runs>> /\ rec.pc = "lease"
    BY <1>14 DEF RecLease, Reads, RecAt
  <2>2. \A i \in DOMAIN runs : runs[i].by = "reconcile" => runs[i].ci # Picked.ci
    BY <2>1 DEF Progress, Reconciling
  <2> QED
    BY <1>14, <2>1, <2>2, ReconcilingOver, ReconcilingOn DEF RecLease, RecGo, RecOrStop
<1>15. ASSUME RecDispatch
       PROVE  Reconciling'
  <2> QED
    BY <1>15, ReconcilingOver DEF RecDispatch
<1>16. ASSUME NEW h \in Catalogs \cup {commits[main].cat}, HumanPushMain(h)
       PROVE  Reconciling'
  BY <1>16, ReconcilingKept DEF HumanPushMain, Chaos
<1>17. ASSUME NEW l \in AllKinds, HumanPushBranch(l) \/ HumanClosesPr(l)
       PROVE  Reconciling'
  BY <1>17, ReconcilingKept DEF HumanPushBranch, Chaos, HumanClosesPr
<1>18. ASSUME NEW v \in dispatched, Publishes(v)
       PROVE  Reconciling'
  BY <1>18, ReconcilingKept DEF Publishes
<1> QED
  BY <1>1, <1>2, <1>3, <1>4, <1>5, <1>6, <1>7, <1>8, <1>9, <1>10, <1>11,
     <1>12, <1>13, <1>14, <1>15, <1>16, <1>17, <1>18
  DEF Next, Writer, Controller, Reconciler, GitHub, People

-------------------------------------------------------------------------------
(* What success promises.                                                  *)

\* A promise that was kept stays kept: nothing it rests on is taken back.
LEMMA FulfilledKept ==
  ASSUME State, Kept, NEW i \in DOMAIN runs, Fulfilled(i), runs[i].st = "success"
  PROVE  Fulfilled(i)'
<1>1. /\ runs'[i].what = runs[i].what /\ runs'[i].kind = runs[i].kind
      /\ runs'[i].sha = runs[i].sha /\ runs'[i].ci = runs[i].ci
      /\ runs'[i].apply = runs[i].apply /\ runs'[i].st = runs[i].st
      /\ runs'[i].out = runs[i].out
  BY DEF Kept, RunsKept
<1>2. \A c \in DOMAIN commits : c \in DOMAIN commits' /\ commits'[c] = commits[c]
  BY DEF Kept, CommitsKept
<1>3. /\ runs[i].out \in DOMAIN commits \cup {None}
      /\ VerifiedAt(i) /\ DeliveredAt(i) /\ ReleasedAt(i)
  BY DEF Fulfilled
<1>4. VerifiedAt(i)'
  <2> SUFFICES ASSUME runs[i].what = "controller", runs[i].out # None
               PROVE  VerifiedAt(i)'
    BY <1>1 DEF VerifiedAt
  <2>1. runs[i].ci \in DOMAIN ci
    BY DEF State, Runs, Fits
  <2>2. ci[runs[i].ci].head \in DOMAIN commits
    BY <2>1 DEF State, Checks, Bot, Human
  <2>3. /\ ci'[runs[i].ci].head = ci[runs[i].ci].head
        /\ ci'[runs[i].ci].base = ci[runs[i].ci].base
        /\ ci'[runs[i].ci].kind = ci[runs[i].ci].kind
        /\ ci[runs[i].ci].st = "success" => ci'[runs[i].ci].st = "success"
    BY <2>1 DEF Kept, CiKept
  <2>4. runs[i].out \in DOMAIN commits
    BY <1>3
  <2>5. /\ commits'[runs[i].out] = commits[runs[i].out]
        /\ commits'[ci[runs[i].ci].head] = commits[ci[runs[i].ci].head]
    BY <1>2, <2>2, <2>4
  <2> QED
    BY <1>1, <1>3, <2>3, <2>5 DEF VerifiedAt, Tree, ManagedBy
<1>5. DeliveredAt(i)'
  <2> SUFFICES ASSUME runs[i].what = "writer", runs[i].out # None
               PROVE  DeliveredAt(i)'
    BY <1>1 DEF DeliveredAt
  <2>1. commits'[runs[i].out] = commits[runs[i].out]
    BY <1>2, <1>3
  <2>2. \A j \in DOMAIN ci :
          /\ j \in DOMAIN ci' /\ ci'[j].kind = ci[j].kind /\ ci'[j].head = ci[j].head
          /\ ci'[j].want = ci[j].want /\ ci'[j].base = ci[j].base
    BY DEF Kept, CiKept
  <2> QED
    BY <1>1, <1>3, <2>1, <2>2 DEF DeliveredAt, ManagedBy
<1>6. ReleasedAt(i)'
  <2> SUFFICES ASSUME runs[i].what = "controller", runs[i].kind = "release", runs[i].apply
               PROVE  ReleasedAt(i)'
    BY <1>1 DEF ReleasedAt
  <2>1. [ver |-> commits[runs[i].out].ver, commit |-> runs[i].out] \in tags
    BY <1>3 DEF ReleasedAt
  <2>2. runs[i].out \in DOMAIN commits
    BY <2>1 DEF State, Tags, Trunk
  <2>3. commits'[runs[i].out] = commits[runs[i].out]
    BY <1>2, <2>2
  <2> QED
    BY <1>1, <1>3, <2>3 DEF ReleasedAt, Kept, ReleaseKept
<1> QED
  BY <1>1, <1>2, <1>3, <1>4, <1>5, <1>6 DEF Fulfilled

\* Nothing is asked of a run that has not succeeded.
LEMMA FulfilledOver ==
  ASSUME NEW i, runs'[i].st # "success"
  PROVE  Fulfilled(i)'
BY DEF Fulfilled, VerifiedAt, DeliveredAt, ReleasedAt

\* The promises, when no run succeeds.
LEMMA FulfilledSame ==
  ASSUME State, Kept, Promises,
         \A i \in DOMAIN runs' : runs'[i].st = "success" =>
           i \in DOMAIN runs /\ runs[i].st = "success"
  PROVE  \A i \in DOMAIN runs' : Fulfilled(i)'
BY FulfilledKept, FulfilledOver DEF Promises

\* The promises, when a run is queued.
LEMMA FulfilledQueued ==
  ASSUME State, Kept, Promises, NEW r \in RunT, Enqueue(r), r.st = "queued"
  PROVE  \A i \in DOMAIN runs' : Fulfilled(i)'
<1>1. /\ DOMAIN runs' = DOMAIN runs \cup {Len(runs) + 1}
      /\ runs'[Len(runs) + 1] = r
      /\ \A i \in DOMAIN runs :
           runs'[i] = IF runs[i].st = "queued" THEN [runs[i] EXCEPT !.st = "cancelled"]
                      ELSE runs[i]
  BY EnqueueEffect DEF State
<1>2. \A i \in DOMAIN runs : runs[i] \in RunT
  BY RunFields DEF State
<1>3. \A i \in DOMAIN runs' : runs'[i].st = "success" =>
        i \in DOMAIN runs /\ runs[i].st = "success"
  BY <1>1, <1>2 DEF RunT
<1> QED
  BY <1>3, FulfilledSame

\* The promises, when the running run ends: they are asked of it if it succeeds.
LEMMA FulfilledEnded ==
  ASSUME State, Kept, Promises, NEW r \in DOMAIN runs, r = job.run,
         NEW st \in RunStates, NEW out \in Nat, End(st, out),
         st = "success" => Fulfilled(r)'
  PROVE  \A i \in DOMAIN runs' : Fulfilled(i)'
<1>1. job.run \in DOMAIN runs
  BY DEF State, Job
<1>2. /\ DOMAIN runs' = DOMAIN runs
      /\ runs'[job.run] = [runs[job.run] EXCEPT !.st = st, !.out = out]
      /\ \A i \in DOMAIN runs : i # job.run => runs'[i] = runs[i]
  BY <1>1, EndEffect DEF State
<1>3. runs'[job.run].st = st
  BY <1>1, <1>2, RunFields DEF State, RunT
<1>4. Fulfilled(r)'
  BY <1>3, FulfilledOver
<1>5. ASSUME NEW i \in DOMAIN runs, i # r
      PROVE  Fulfilled(i)'
  BY <1>2, <1>5, FulfilledKept, FulfilledOver DEF Promises
<1> QED
  BY <1>2, <1>4, <1>5

\* The run that succeeds, after it has.
LEMMA Succeeded ==
  ASSUME State, job.run # None, NEW out \in Nat, End("success", out)
  PROVE  /\ runs'[job.run].what = Me.what /\ runs'[job.run].kind = Me.kind
         /\ runs'[job.run].sha = Me.sha /\ runs'[job.run].ci = Me.ci
         /\ runs'[job.run].apply = Me.apply /\ runs'[job.run].st = "success"
         /\ runs'[job.run].out = out
<1>1. job.run \in DOMAIN runs /\ "success" \in RunStates
  BY DEF State, Job, RunStates
<1>2. runs'[job.run] = [runs[job.run] EXCEPT !.st = "success", !.out = out]
  BY <1>1, EndEffect DEF State
<1> QED
  BY <1>1, <1>2, RunFields DEF State, RunT, Me

\* What a run promises when it succeeds is so, and stays so.
LEMMA FulfilledStep ==
  ASSUME State, Progress, Promises, Kept, Next
  PROVE  (\A y \in DOMAIN runs' : Fulfilled(y)')
<1>1. ASSUME NEW k \in Kinds, Trigger(k)
      PROVE  (\A y \in DOMAIN runs' : Fulfilled(y)')
  <2> DEFINE new == Run("writer", k, None, None, FALSE, "schedule")
  <2>1. new \in RunT
    BY RunIs, KindsAssumption DEF None, State
  <2>2. new.st = "queued" /\ Enqueue(new)
    BY <1>1 DEF Run, Trigger
  <2> HIDE DEF new
  <2> QED
    BY <2>1, <2>2, FulfilledQueued
<1>2. ASSUME NEW i \in DOMAIN runs, StartRun(i)
      PROVE  (\A y \in DOMAIN runs' : Fulfilled(y)')
  <2>1. \A x \in DOMAIN runs' : x \in DOMAIN runs /\ (x # i => runs'[x] = runs[x])
    BY <1>2 DEF StartRun, State, Shapes
  <2>2. runs'[i].st = "running"
    BY <1>2, RunFields DEF StartRun, State, Shapes, RunT
  <2>3. \A x \in DOMAIN runs' : runs'[x].st = "success" =>
          x \in DOMAIN runs /\ runs[x].st = "success"
    BY <2>1, <2>2
  <2> QED
    BY <2>3, FulfilledSame
<1>3. ASSUME NEW j \in DOMAIN ci, CiWakes(j)
      PROVE  (\A y \in DOMAIN runs' : Fulfilled(y)')
  <2> DEFINE new == Run("controller", ci[j].kind, j, None, ci[j].kind \in Automatic, "event")
  <2>1. new \in RunT
    BY ControllerRunIs, CiFields DEF None, State
  <2>2. new.st = "queued"
    BY DEF Run
  <2>3. Enqueue(new)
    BY <1>3 DEF CiWakes
  <2> HIDE DEF new
  <2> QED
    BY <2>1, <2>2, <2>3, FulfilledQueued
<1>4. ASSUME NEW j \in DOMAIN ci, NEW s \in {"success", "failure"}, CiFinish(j, s)
      PROVE  (\A y \in DOMAIN runs' : Fulfilled(y)')
  BY <1>4, FulfilledSame DEF CiFinish
<1>5. ASSUME NEW c \in Catalogs \cup {x.cat : x \in {commits[y] : y \in DOMAIN commits}},
             WriterLease(c)
      PROVE  (\A y \in DOMAIN runs' : Fulfilled(y)')
  <2>1. job.run # None /\ job.run \in DOMAIN runs /\ Me.what = "writer" /\ job \in JobT
    BY <1>5 DEF WriterLease, At, State, Shapes, Job
  <2>2. /\ job.out \in Nat /\ "failure" \in RunStates /\ "success" \in RunStates
        /\ "skipped" \in RunStates /\ None \in Nat
    BY JobFields DEF State, RunStates, None
  <2>20. PICK r \in DOMAIN runs : r = job.run
    BY <2>1
  <2>3. \/ runs' = runs \/ End("failure", None) \/ End("success", None)
    BY <1>5 DEF WriterLease
  <2>4. ASSUME End("success", None)
        PROVE  Fulfilled(r)'
    <3>1. /\ runs'[r].what = "writer" /\ runs'[r].out = None
      BY <2>1, <2>2, <2>4, <2>20, Succeeded
    <3> QED
      BY <3>1 DEF Fulfilled, VerifiedAt, DeliveredAt, ReleasedAt
  <2> QED
    BY <2>1, <2>2, <2>3, <2>4, <2>20, FulfilledSame, FulfilledEnded
<1>6. ASSUME WriterBranch
      PROVE  (\A y \in DOMAIN runs' : Fulfilled(y)')
  <2>1. job.run # None /\ job.run \in DOMAIN runs /\ Me.what = "writer" /\ job \in JobT
    BY <1>6 DEF WriterBranch, At, State, Shapes, Job
  <2>2. /\ job.out \in Nat /\ "failure" \in RunStates /\ "success" \in RunStates
        /\ "skipped" \in RunStates /\ None \in Nat
    BY JobFields DEF State, RunStates, None
  <2>20. PICK r \in DOMAIN runs : r = job.run
    BY <2>1
  <2> DEFINE old == head[Me.kind]
  <2>3. \/ runs' = runs \/ End("failure", None) \/ End("success", None)
        \/ /\ Matches(Me.kind, old, Me.sha, job.tree) /\ FoundCiRun(Me.kind, old)
           /\ Me.kind = "release" /\ End("success", old)
    BY <1>6 DEF WriterBranch
  <2>4. ASSUME End("success", None)
        PROVE  Fulfilled(r)'
    <3>1. /\ runs'[r].what = "writer" /\ runs'[r].out = None
      BY <2>1, <2>2, <2>4, <2>20, Succeeded
    <3> QED
      BY <3>1 DEF Fulfilled, VerifiedAt, DeliveredAt, ReleasedAt
  <2>5. Me.kind \in AllKinds /\ old \in DOMAIN commits \cup {None} /\ old \in Nat
    BY <2>1, RunFields DEF State, Pulls, Shapes, Me
  <2>6. ASSUME Matches(Me.kind, old, Me.sha, job.tree), FoundCiRun(Me.kind, old),
               Me.kind = "release", End("success", old)
        PROVE  Fulfilled(r)'
    <3>1. /\ runs'[r].what = "writer" /\ runs'[r].out = old
          /\ runs'[r].kind = Me.kind /\ runs'[r].sha = Me.sha
      BY <2>1, <2>5, <2>6, <2>20, Succeeded
    <3>2. old \in DOMAIN commits /\ commits[old].by = Me.kind /\ commits[old].parent = Me.sha
      BY <2>5, <2>6 DEF Matches, ManagedBy
    <3>3. PICK i \in DOMAIN ci : ci[i].kind = Me.kind /\ ci[i].head = old
      BY <2>6 DEF FoundCiRun
    <3>4. ~ Human(old)
      BY <2>6, <3>2 DEF Human
    <3>5. ci[i].want = old /\ ci[i].base = Me.sha
      BY <3>2, <3>3, <3>4 DEF State, Checks, Bot
    <3>6. commits' = commits /\ ci' = ci
      BY <1>6 DEF WriterBranch, git
    <3> QED
      BY <3>1, <3>2, <3>3, <3>5, <3>6 DEF Fulfilled, VerifiedAt, DeliveredAt, ReleasedAt, ManagedBy
  <2> QED
    BY <2>1, <2>2, <2>3, <2>4, <2>5, <2>6, <2>20, FulfilledSame, FulfilledEnded
<1>7. ASSUME WriterCommit
      PROVE  (\A y \in DOMAIN runs' : Fulfilled(y)')
  <2>1. job.run # None /\ job.run \in DOMAIN runs /\ Me.what = "writer" /\ job \in JobT
    BY <1>7 DEF WriterCommit, At, State, Shapes, Job
  <2>2. /\ job.out \in Nat /\ "failure" \in RunStates /\ "success" \in RunStates
        /\ "skipped" \in RunStates /\ None \in Nat
    BY JobFields DEF State, RunStates, None
  <2>20. PICK r \in DOMAIN runs : r = job.run
    BY <2>1
  <2>3. \/ runs' = runs
        \/ \E st \in RunStates, out \in Nat : st # "success" /\ End(st, out)
    BY <1>7, <2>2 DEF WriterCommit, Go
  <2> QED
    BY <2>1, <2>3, <2>20, FulfilledSame, FulfilledEnded
<1>8. ASSUME WriterVerify
      PROVE  (\A y \in DOMAIN runs' : Fulfilled(y)')
  <2>1. job.run # None /\ job.run \in DOMAIN runs /\ Me.what = "writer" /\ job \in JobT
    BY <1>8 DEF WriterVerify, At, State, Shapes, Job
  <2>2. /\ job.out \in Nat /\ "failure" \in RunStates /\ "success" \in RunStates
        /\ "skipped" \in RunStates /\ None \in Nat
    BY JobFields DEF State, RunStates, None
  <2>20. PICK r \in DOMAIN runs : r = job.run
    BY <2>1
  <2>3. \/ runs' = runs
        \/ \E st \in RunStates, out \in Nat : st # "success" /\ End(st, out)
    BY <1>8, <2>2 DEF WriterVerify, Go
  <2> QED
    BY <2>1, <2>3, <2>20, FulfilledSame, FulfilledEnded
<1>8a. ASSUME WriterLeaseAgain
       PROVE  (\A y \in DOMAIN runs' : Fulfilled(y)')
  <2>1. job.run # None /\ job.run \in DOMAIN runs /\ Me.what = "writer" /\ job \in JobT
    BY <1>8a DEF WriterLeaseAgain, At, State, Shapes, Job
  <2>2. /\ job.out \in Nat /\ "failure" \in RunStates /\ "success" \in RunStates
        /\ "skipped" \in RunStates /\ None \in Nat
    BY JobFields DEF State, RunStates, None
  <2>20. PICK r \in DOMAIN runs : r = job.run
    BY <2>1
  <2>3. \/ runs' = runs
        \/ \E st \in RunStates, out \in Nat : st # "success" /\ End(st, out)
    BY <1>8a, <2>2 DEF WriterLeaseAgain, Go
  <2> QED
    BY <2>1, <2>3, <2>20, FulfilledSame, FulfilledEnded
<1>9. ASSUME WriterPr
      PROVE  (\A y \in DOMAIN runs' : Fulfilled(y)')
  <2>1. job.run # None /\ job.run \in DOMAIN runs /\ Me.what = "writer" /\ job \in JobT
    BY <1>9 DEF WriterPr, At, State, Shapes, Job
  <2>2. /\ job.out \in Nat /\ "failure" \in RunStates /\ "success" \in RunStates
        /\ "skipped" \in RunStates /\ None \in Nat
    BY JobFields DEF State, RunStates, None
  <2>20. PICK r \in DOMAIN runs : r = job.run
    BY <2>1
  <2>3. \/ runs' = runs
        \/ \E st \in RunStates, out \in Nat : st # "success" /\ End(st, out)
    BY <1>9, <2>2 DEF WriterPr, Go
  <2> QED
    BY <2>1, <2>3, <2>20, FulfilledSame, FulfilledEnded
<1>10. ASSUME WriterDispatch
       PROVE  (\A y \in DOMAIN runs' : Fulfilled(y)')
  <2>1. job.run # None /\ job.run \in DOMAIN runs /\ Me.what = "writer" /\ job \in JobT
    BY <1>10 DEF WriterDispatch, At, State, Shapes, Job
  <2>2. /\ job.out \in Nat /\ "failure" \in RunStates /\ "success" \in RunStates
        /\ "skipped" \in RunStates /\ None \in Nat
    BY JobFields DEF State, RunStates, None
  <2>20. PICK r \in DOMAIN runs : r = job.run
    BY <2>1
  <2>3. job.pc = "dispatch" /\ ci \in Seq(CiT) /\ Me.kind \in AllKinds
    BY <1>10, <2>1, RunFields DEF WriterDispatch, At, State, Shapes, Me
  <2> DEFINE x == [kind |-> Me.kind, head |-> head[Me.kind], want |-> job.out,
                   base |-> Me.sha, st |-> "running", told |-> FALSE]
  <2>4. \/ End("failure", None) \/ End("failure", job.out)
        \/ /\ End("success", job.out) /\ ci' = Append(ci, x) /\ RunIsOfHead(Len(ci'))
    BY <1>10 DEF WriterDispatch
  <2>5. ASSUME End("success", job.out), ci' = Append(ci, x), RunIsOfHead(Len(ci'))
        PROVE  Fulfilled(r)'
    <3>1. /\ runs'[r].what = "writer" /\ runs'[r].out = job.out
          /\ runs'[r].kind = Me.kind /\ runs'[r].sha = Me.sha
      BY <2>1, <2>2, <2>5, <2>20, Succeeded
    <3>2. Bot(job.out, Me.kind, Me.sha)
      BY <2>1, <2>3 DEF Progress, Writing
    <3>3. /\ Len(ci') = Len(ci) + 1 /\ Len(ci) + 1 \in DOMAIN ci' /\ ci'[Len(ci) + 1] = x
      BY <2>3, <2>5
    <3>4. ci'[Len(ci) + 1].head = job.out
      BY <2>5, <3>3 DEF RunIsOfHead
    <3>5. /\ ci'[Len(ci) + 1].kind = Me.kind /\ ci'[Len(ci) + 1].base = Me.sha
          /\ ci'[Len(ci) + 1].want = job.out
      BY <3>3
    <3>6. commits' = commits
      BY <1>10 DEF WriterDispatch, git
    <3> HIDE DEF x
    <3> QED
      BY <3>1, <3>2, <3>3, <3>4, <3>5, <3>6
         DEF Fulfilled, VerifiedAt, DeliveredAt, ReleasedAt, ManagedBy, Bot
  <2> QED
    BY <2>1, <2>2, <2>4, <2>5, <2>20, FulfilledEnded
<1>11. ASSUME ControllerSkip
       PROVE  (\A y \in DOMAIN runs' : Fulfilled(y)')
  <2>1. job.run # None /\ job.run \in DOMAIN runs /\ Me.what = "controller" /\ job \in JobT
    BY <1>11 DEF ControllerSkip, At, State, Shapes, Job
  <2>2. /\ job.out \in Nat /\ "failure" \in RunStates /\ "success" \in RunStates
        /\ "skipped" \in RunStates /\ None \in Nat
    BY JobFields DEF State, RunStates, None
  <2>20. PICK r \in DOMAIN runs : r = job.run
    BY <2>1
  <2>3. \/ runs' = runs
        \/ \E st \in RunStates, out \in Nat : st # "success" /\ End(st, out)
    BY <1>11, <2>2 DEF ControllerSkip, Go
  <2> QED
    BY <2>1, <2>3, <2>20, FulfilledSame, FulfilledEnded
<1>12. ASSUME ControllerResolve
       PROVE  (\A y \in DOMAIN runs' : Fulfilled(y)')
  <2>1. job.run # None /\ job.run \in DOMAIN runs /\ Me.what = "controller" /\ job \in JobT
    BY <1>12 DEF ControllerResolve, At, State, Shapes, Job
  <2>2. /\ job.out \in Nat /\ "failure" \in RunStates /\ "success" \in RunStates
        /\ "skipped" \in RunStates /\ None \in Nat
    BY JobFields DEF State, RunStates, None
  <2>20. PICK r \in DOMAIN runs : r = job.run
    BY <2>1
  <2>3. \/ runs' = runs \/ End("failure", None) \/ (~Me.apply /\ End("success", None))
    BY <1>12 DEF ControllerResolve
  <2>4. ASSUME End("success", None), ~Me.apply
        PROVE  Fulfilled(r)'
    <3>1. /\ runs'[r].what = "controller" /\ runs'[r].out = None
          /\ ~runs'[r].apply
      BY <2>1, <2>2, <2>4, <2>20, Succeeded
    <3> QED
      BY <3>1 DEF Fulfilled, VerifiedAt, DeliveredAt, ReleasedAt
  <2> QED
    BY <2>1, <2>2, <2>3, <2>4, <2>20, FulfilledSame, FulfilledEnded
<1>13. ASSUME ControllerCheck
       PROVE  (\A y \in DOMAIN runs' : Fulfilled(y)')
  <2>1. job.run # None /\ job.run \in DOMAIN runs /\ Me.what = "controller" /\ job \in JobT
    BY <1>13 DEF ControllerCheck, At, State, Shapes, Job
  <2>2. /\ job.out \in Nat /\ "failure" \in RunStates /\ "success" \in RunStates
        /\ "skipped" \in RunStates /\ None \in Nat
    BY JobFields DEF State, RunStates, None
  <2>20. PICK r \in DOMAIN runs : r = job.run
    BY <2>1
  <2>3. \/ runs' = runs
        \/ \E st \in RunStates, out \in Nat : st # "success" /\ End(st, out)
    BY <1>13, <2>2 DEF ControllerCheck, Go
  <2> QED
    BY <2>1, <2>3, <2>20, FulfilledSame, FulfilledEnded
<1>13a. ASSUME ControllerPolicy
        PROVE  (\A y \in DOMAIN runs' : Fulfilled(y)')
  <2>1. job.run # None /\ job.run \in DOMAIN runs /\ Me.what = "controller" /\ job \in JobT
    BY <1>13a DEF ControllerPolicy, At, State, Shapes, Job
  <2>2. /\ job.out \in Nat /\ "failure" \in RunStates /\ "success" \in RunStates
        /\ "skipped" \in RunStates /\ None \in Nat
    BY JobFields DEF State, RunStates, None
  <2>20. PICK r \in DOMAIN runs : r = job.run
    BY <2>1
  <2>3. \/ runs' = runs
        \/ \E st \in RunStates, out \in Nat : st # "success" /\ End(st, out)
    BY <1>13a, <2>2 DEF ControllerPolicy, Go
  <2> QED
    BY <2>1, <2>3, <2>20, FulfilledSame, FulfilledEnded
<1>13b. ASSUME ControllerMain
        PROVE  (\A y \in DOMAIN runs' : Fulfilled(y)')
  <2>1. job.run # None /\ job.run \in DOMAIN runs /\ Me.what = "controller" /\ job \in JobT
    BY <1>13b DEF ControllerMain, At, State, Shapes, Job
  <2>2. /\ job.out \in Nat /\ "failure" \in RunStates /\ "success" \in RunStates
        /\ "skipped" \in RunStates /\ None \in Nat
    BY JobFields DEF State, RunStates, None
  <2>20. PICK r \in DOMAIN runs : r = job.run
    BY <2>1
  <2>3. \/ runs' = runs
        \/ \E st \in RunStates, out \in Nat : st # "success" /\ End(st, out)
    BY <1>13b, <2>2 DEF ControllerMain, Go
  <2> QED
    BY <2>1, <2>3, <2>20, FulfilledSame, FulfilledEnded
<1>14. ASSUME ControllerAgain
       PROVE  (\A y \in DOMAIN runs' : Fulfilled(y)')
  <2>1. job.run # None /\ job.run \in DOMAIN runs /\ Me.what = "controller" /\ job \in JobT
    BY <1>14 DEF ControllerAgain, At, State, Shapes, Job
  <2>2. /\ job.out \in Nat /\ "failure" \in RunStates /\ "success" \in RunStates
        /\ "skipped" \in RunStates /\ None \in Nat
    BY JobFields DEF State, RunStates, None
  <2>20. PICK r \in DOMAIN runs : r = job.run
    BY <2>1
  <2>3. \/ runs' = runs
        \/ \E st \in RunStates, out \in Nat : st # "success" /\ End(st, out)
    BY <1>14, <2>2 DEF ControllerAgain, Go
  <2> QED
    BY <2>1, <2>3, <2>20, FulfilledSame, FulfilledEnded
<1>15. ASSUME ControllerMerge
       PROVE  (\A y \in DOMAIN runs' : Fulfilled(y)')
  <2>1. job.run # None /\ job.run \in DOMAIN runs /\ Me.what = "controller" /\ job \in JobT
    BY <1>15 DEF ControllerMerge, At, State, Shapes, Job
  <2>2. /\ job.out \in Nat /\ "failure" \in RunStates /\ "success" \in RunStates
        /\ "skipped" \in RunStates /\ None \in Nat
    BY JobFields DEF State, RunStates, None
  <2>20. PICK r \in DOMAIN runs : r = job.run
    BY <2>1
  <2>3. \/ runs' = runs
        \/ \E st \in RunStates, out \in Nat : st # "success" /\ End(st, out)
    BY <1>15, <2>2 DEF ControllerMerge, Go
  <2> QED
    BY <2>1, <2>3, <2>20, FulfilledSame, FulfilledEnded
<1>16. ASSUME ControllerVerify
       PROVE  (\A y \in DOMAIN runs' : Fulfilled(y)')
  <2>1. job.run # None /\ job.run \in DOMAIN runs /\ Me.what = "controller" /\ job \in JobT
    BY <1>16 DEF ControllerVerify, At, State, Shapes, Job
  <2>2. /\ job.out \in Nat /\ "failure" \in RunStates /\ "success" \in RunStates
        /\ "skipped" \in RunStates /\ None \in Nat
    BY JobFields DEF State, RunStates, None
  <2>20. PICK r \in DOMAIN runs : r = job.run
    BY <2>1
  <2>3. job.pc = "verify"
    BY <1>16 DEF ControllerVerify, At
  <2>4. \/ runs' = runs \/ End("failure", job.out)
        \/ (IsVerified(job.out) /\ Bound.kind = "data" /\ End("success", job.out))
    BY <1>16 DEF ControllerVerify, Go
  <2>5. ASSUME IsVerified(job.out), Bound.kind = "data", End("success", job.out)
        PROVE  Fulfilled(r)'
    <3>1. /\ runs'[r].what = "controller" /\ runs'[r].out = job.out
          /\ runs'[r].kind = Me.kind /\ runs'[r].ci = Me.ci
      BY <2>1, <2>2, <2>5, <2>20, Succeeded
    <3>2. /\ Me.ci \in DOMAIN ci /\ commits[Bound.head].by = Bound.kind /\ Me.kind = Bound.kind
          /\ commits[Bound.head].parent = Bound.base /\ Bound.st = "success"
      BY <2>1, <2>3, BoundIs DEF State, Progress, Controlling
    <3>3. job.out \in DOMAIN commits \cup {None}
      BY DEF State, Job
    <3>4. commits' = commits /\ ci' = ci
      BY <1>16 DEF ControllerVerify, git
    <3> QED
      BY <2>5, <3>1, <3>2, <3>3, <3>4
         DEF Fulfilled, VerifiedAt, DeliveredAt, ReleasedAt, ManagedBy, IsVerified, Bound, Tree
  <2> QED
    BY <2>1, <2>2, <2>4, <2>5, <2>20, FulfilledSame, FulfilledEnded
<1>17. ASSUME ControllerTagCheck
       PROVE  (\A y \in DOMAIN runs' : Fulfilled(y)')
  <2>1. job.run # None /\ job.run \in DOMAIN runs /\ Me.what = "controller" /\ job \in JobT
    BY <1>17 DEF ControllerTagCheck, At, State, Shapes, Job
  <2>2. /\ job.out \in Nat /\ "failure" \in RunStates /\ "success" \in RunStates
        /\ "skipped" \in RunStates /\ None \in Nat
    BY JobFields DEF State, RunStates, None
  <2>20. PICK r \in DOMAIN runs : r = job.run
    BY <2>1
  <2>3. \/ runs' = runs
        \/ \E st \in RunStates, out \in Nat : st # "success" /\ End(st, out)
    BY <1>17, <2>2 DEF ControllerTagCheck, Go
  <2> QED
    BY <2>1, <2>3, <2>20, FulfilledSame, FulfilledEnded
<1>18. ASSUME ControllerPushTags
       PROVE  (\A y \in DOMAIN runs' : Fulfilled(y)')
  <2>1. job.run # None /\ job.run \in DOMAIN runs /\ Me.what = "controller" /\ job \in JobT
    BY <1>18 DEF ControllerPushTags, At, State, Shapes, Job
  <2>2. /\ job.out \in Nat /\ "failure" \in RunStates /\ "success" \in RunStates
        /\ "skipped" \in RunStates /\ None \in Nat
    BY JobFields DEF State, RunStates, None
  <2>20. PICK r \in DOMAIN runs : r = job.run
    BY <2>1
  <2>3. \/ runs' = runs
        \/ \E st \in RunStates, out \in Nat : st # "success" /\ End(st, out)
    BY <1>18, <2>2 DEF ControllerPushTags, Go
  <2> QED
    BY <2>1, <2>3, <2>20, FulfilledSame, FulfilledEnded
<1>19. ASSUME ControllerDispatchRelease
       PROVE  (\A y \in DOMAIN runs' : Fulfilled(y)')
  <2>1. job.run # None /\ job.run \in DOMAIN runs /\ Me.what = "controller" /\ job \in JobT
    BY <1>19 DEF ControllerDispatchRelease, At, State, Shapes, Job
  <2>2. /\ job.out \in Nat /\ "failure" \in RunStates /\ "success" \in RunStates
        /\ "skipped" \in RunStates /\ None \in Nat
    BY JobFields DEF State, RunStates, None
  <2>20. PICK r \in DOMAIN runs : r = job.run
    BY <2>1
  <2>3. job.pc = "release" /\ End("success", job.out)
    BY <1>19 DEF ControllerDispatchRelease, At
  <2>4. Fulfilled(r)'
    <3>1. /\ runs'[r].what = "controller" /\ runs'[r].out = job.out
          /\ runs'[r].kind = Me.kind /\ runs'[r].ci = Me.ci
      BY <2>1, <2>2, <2>3, <2>20, Succeeded
    <3>2. /\ Me.ci \in DOMAIN ci /\ commits[Bound.head].by = Bound.kind /\ Me.kind = Bound.kind
          /\ commits[Bound.head].parent = Bound.base /\ Bound.st = "success"
      BY <2>1, <2>3, BoundIs DEF State, Progress, Controlling
    <3>3. /\ Release /\ job.out \in trunk /\ Version - 1 \in published
          /\ commits[job.out].parent = Bound.base /\ commits[job.out].second = Bound.head
          /\ Tree(job.out) = Tree(Bound.head)
          /\ [ver |-> Version, commit |-> job.out] \in tags
      BY <2>1, <2>3 DEF Progress, Controlling
    <3>4. job.out \in DOMAIN commits /\ commits[job.out].ver = Version
      BY <3>3 DEF State, Trunk, Tree, Version
    <3>5. /\ commits' = commits /\ ci' = ci /\ tags' = tags /\ published' = published
          /\ dispatched' = dispatched \cup {Version}
      BY <1>19 DEF ControllerDispatchRelease, git
    <3>6. VerifiedAt(r)'
      BY <3>1, <3>2, <3>3, <3>5 DEF VerifiedAt, ManagedBy, Bound, Tree
    <3>7. ReleasedAt(r)'
      BY <3>1, <3>3, <3>4, <3>5 DEF ReleasedAt
    <3> QED
      BY <3>1, <3>4, <3>5, <3>6, <3>7 DEF Fulfilled, DeliveredAt
  <2> QED
    BY <2>1, <2>2, <2>3, <2>4, <2>20, FulfilledEnded
<1>20. ASSUME \/ RecStart \/ RecMain \/ RecControllers \/ RecRecheck \/ RecLast
              \/ RecLease \/ ToggleProtection \/ HumanTags
       PROVE  (\A y \in DOMAIN runs' : Fulfilled(y)')
  BY <1>20, FulfilledSame DEF RecStart, RecAt, RecGo, RecOrStop, Reads, RecMain,
       RecControllers, RecRecheck, RecLast, RecLease, ToggleProtection, Chaos,
       HumanTags
<1>21. ASSUME NEW l \in AllKinds,
              RecCandidate(l) \/ HumanPushBranch(l) \/ HumanClosesPr(l)
       PROVE  (\A y \in DOMAIN runs' : Fulfilled(y)')
  BY <1>21, FulfilledSame DEF RecCandidate, RecAt, RecGo, RecOrStop, Reads,
       HumanPushBranch, Chaos, HumanClosesPr
<1>22. ASSUME RecDispatch
       PROVE  (\A y \in DOMAIN runs' : Fulfilled(y)')
  <2> DEFINE new == Run("controller", rec.pick, Picked.ci, Picked.pr, rec.pick \in Automatic,
                         "reconcile")
  <2>1. rec.pick \in AllKinds /\ Picked \in CandidateT
    BY <1>22 DEF Progress, Reconciling, RecDispatch, RecAt, Picked, State, Shapes, RecT
  <2>2. new \in RunT
    BY <2>1, ControllerRunIs DEF CandidateT, State
  <2>3. new.st = "queued"
    BY DEF Run
  <2>4. Enqueue(new)
    BY <1>22 DEF RecDispatch
  <2> HIDE DEF new
  <2> QED
    BY <2>2, <2>3, <2>4, FulfilledQueued
<1>23. ASSUME NEW h \in Catalogs \cup {commits[main].cat}, HumanPushMain(h)
       PROVE  (\A y \in DOMAIN runs' : Fulfilled(y)')
  BY <1>23, FulfilledSame DEF HumanPushMain, Chaos
<1>24. ASSUME Crash
       PROVE  (\A y \in DOMAIN runs' : Fulfilled(y)')
  <2>1. job.run # None /\ job.out \in Nat /\ "failure" \in RunStates
    BY <1>24, JobFields DEF Crash, State, Job, RunStates
  <2>2. job.run \in DOMAIN runs /\ "failure" # "success"
    BY <2>1 DEF State, Job
  <2> QED
    BY <1>24, <2>1, <2>2, FulfilledEnded DEF Crash
<1>25. ASSUME NEW v \in dispatched, Publishes(v)
       PROVE  (\A y \in DOMAIN runs' : Fulfilled(y)')
  BY <1>25, FulfilledSame DEF Publishes
<1> QED
  BY <1>1, <1>2, <1>3, <1>4, <1>5, <1>6, <1>7, <1>8, <1>8a, <1>9, <1>10, <1>11,
     <1>12, <1>13, <1>13a, <1>13b, <1>14, <1>15, <1>16, <1>17, <1>18, <1>19, <1>20,
     <1>21, <1>22, <1>23, <1>24, <1>25 DEF Next, Writer, Controller, Reconciler, GitHub, People


\* The reconciler dispatches a controller at most once.
LEMMA DispatchOnceStep ==
  ASSUME State, Progress, Kept, NewRuns, DispatchOnce
  PROVE  DispatchOnce'
<1>1. \A i \in DOMAIN runs : runs'[i].by = runs[i].by /\ runs'[i].ci = runs[i].ci
  BY DEF Kept, RunsKept
<1>2. ASSUME NEW i \in DOMAIN runs', i \notin DOMAIN runs, runs'[i].by = "reconcile"
      PROVE  /\ i = Len(runs) + 1 /\ runs'[i].ci = Picked.ci
             /\ \A j \in DOMAIN runs : runs[j].by = "reconcile" => runs[j].ci # Picked.ci
  BY <1>2 DEF NewRuns, Progress, Reconciling
<1> QED
  BY <1>1, <1>2 DEF DispatchOnce

\* Every step preserves the invariant.
LEMMA IInvStep ==
  ASSUME IInv, Next
  PROVE  IInv'
<1>1. State /\ Progress /\ Promises
  BY DEF IInv
<1>2. Kept /\ State'
  BY <1>1, StateStep
<1>3. NewRuns
  BY <1>1, NewRunsStep
<1>4. Writing' /\ Controlling' /\ Reconciling'
  BY <1>1, <1>2, <1>3, WritingStep, ControllingStep, ReconcilingStep
<1>5. \A i \in DOMAIN runs' : Fulfilled(i)'
  BY <1>1, <1>2, FulfilledStep
<1>6. DispatchOnce'
  BY <1>1, <1>2, <1>3, DispatchOnceStep DEF Promises
<1> QED
  BY <1>2, <1>4, <1>5, <1>6 DEF IInv, Progress, Promises


\* The first commits, when there are three of them at most.
LEMMA FirstCommits ==
         /\ \A cat \in {1, 2} : Root(cat) \in CommitT
         /\ Root(1) = [by |-> "human", parent |-> 0, second |-> 0, cat |-> 1, ver |-> 1]
         /\ Commit("human", 1, None, <<2, 1>>)
              = [by |-> "human", parent |-> 1, second |-> 0, cat |-> 2, ver |-> 1]
         /\ Commit("legacy", 1, None, <<1, 1>>)
              = [by |-> "legacy", parent |-> 1, second |-> 0, cat |-> 1, ver |-> 1]
         /\ Commit("merge", 1, 2, <<1, 1>>)
              = [by |-> "merge", parent |-> 1, second |-> 2, cat |-> 1, ver |-> 1]
BY DEF Root, Commit, None, CommitT

\* The histories the repository may start from.
LEMMA FirstHistory ==
  ASSUME Fresh \/ Ahead \/ Legacy, tags = {[ver |-> 1, commit |-> 1]}, published = {1},
         dispatched = {1}
  PROVE  /\ commits \in Seq(CommitT) /\ prs \in Seq(PrT) /\ main \in Nat
         /\ head \in [AllKinds -> Nat] /\ Trunk /\ Tags /\ Pulls
<1> USE FirstCommits
<1>1. CASE Fresh
  <2>1. commits = <<[by |-> "human", parent |-> 0, second |-> 0, cat |-> 1, ver |-> 1]>>
    BY <1>1 DEF Fresh
  <2>2. /\ main = 1 /\ trunk = {1} /\ prs = <<>> /\ head = [k \in AllKinds |-> 0]
    BY <1>1 DEF Fresh, None
  <2>3. commits \in Seq(CommitT) /\ DOMAIN commits = {1}
    BY <2>1 DEF CommitT
  <2> QED
    BY <2>1, <2>2, <2>3 DEF Trunk, Tags, Pulls, None
<1>2. CASE Ahead
  <2>1. commits = <<[by |-> "human", parent |-> 0, second |-> 0, cat |-> 1, ver |-> 1],
                    [by |-> "human", parent |-> 1, second |-> 0, cat |-> 2, ver |-> 1]>>
    BY <1>2 DEF Ahead
  <2>2. /\ main = 2 /\ trunk = {1, 2} /\ prs = <<>> /\ head = [k \in AllKinds |-> 0]
    BY <1>2 DEF Ahead, None
  <2>3. commits \in Seq(CommitT) /\ DOMAIN commits = {1, 2}
    BY <2>1 DEF CommitT
  <2> QED
    BY <2>1, <2>2, <2>3 DEF Trunk, Tags, Pulls, None
<1>3. CASE Legacy
  <2>1. commits = <<[by |-> "human", parent |-> 0, second |-> 0, cat |-> 1, ver |-> 1],
                    [by |-> "legacy", parent |-> 1, second |-> 0, cat |-> 1, ver |-> 1],
                    [by |-> "merge", parent |-> 1, second |-> 2, cat |-> 1, ver |-> 1]>>
    BY <1>3 DEF Legacy
  <2>2. PICK st \in {"merged", "open"} :
          /\ main = (IF st = "merged" THEN 3 ELSE 1)
          /\ trunk = (IF st = "merged" THEN {1, 3} ELSE {1})
          /\ head = [data |-> 2, release |-> None]
          /\ prs = <<LegacyPr(st)>>
    BY <1>3 DEF Legacy
  <2>3. commits \in Seq(CommitT) /\ DOMAIN commits = {1, 2, 3}
    BY <2>1 DEF CommitT
  <2>4. head \in [AllKinds -> Nat] /\ head["data"] = 2 /\ head["release"] = 0
    BY <2>2 DEF AllKinds, None
  <2> DEFINE x == LegacyPr(st)
  <2>5. /\ x \in PrT /\ x.kind = "data" /\ x.base = 1 /\ x.st = st
        /\ x.head = (IF st = "open" THEN 0 ELSE 2)
        /\ x.merge = (IF st = "merged" THEN 3 ELSE 0)
    BY DEF LegacyPr, PrT, AllKinds, Pairs, None
  <2>9. prs = <<x>>
    BY <2>2
  <2> HIDE DEF x
  <2>10. prs \in Seq(PrT) /\ DOMAIN prs = {1} /\ prs[1] = x
    BY <2>5, <2>9
  <2>7. Trunk /\ Tags
    BY <2>1, <2>2, <2>3 DEF Trunk, Tags
  <2>8. Pulls
    BY <2>2, <2>3, <2>4, <2>5, <2>10 DEF Pulls, AllKinds, None
  <2> QED
    BY <2>2, <2>3, <2>4, <2>10, <2>7, <2>8
<1> QED
  BY <1>1, <1>2, <1>3

\* The invariant holds at first.
LEMMA IInvInit ==
  ASSUME Init
  PROVE  IInv
<1>1. /\ ci = <<>> /\ runs = <<>> /\ job = NoJob /\ rec = IdleRec
      /\ tags = {[ver |-> 1, commit |-> 1]} /\ published = {1} /\ dispatched = {1}
      /\ protect = TRUE /\ chaos = 0
  BY DEF Init
<1>2. /\ commits \in Seq(CommitT) /\ prs \in Seq(PrT) /\ main \in Nat
      /\ head \in [AllKinds -> Nat] /\ Trunk /\ Tags /\ Pulls
  BY <1>1, FirstHistory DEF Init
<1>3. ci \in Seq(CiT) /\ runs \in Seq(RunT) /\ DOMAIN ci = {} /\ DOMAIN runs = {}
  BY <1>1
<1>4. job \in JobT /\ job.run = None
  BY <1>1 DEF NoJob, JobT, Pcs, Pairs, None
<1>5. NoCandidate \in CandidateT
  BY DEF NoCandidate, CandidateT, None
<1>6. rec \in RecT
  BY <1>1, <1>5 DEF IdleRec, RecT, RecPcs, None
<1>7. Shapes
  BY <1>1, <1>2, <1>3, <1>4, <1>6 DEF Shapes
<1>8. Checks /\ Runs /\ Bounds
  BY <1>1, <1>3, BoundsAssumption DEF Checks, Runs, Bounds
<1>9. Job
  BY <1>1 DEF Job, NoJob
<1>10. Writing /\ Controlling
  BY <1>4 DEF Writing, Controlling
<1>11. Reconciling
  BY <1>1 DEF Reconciling, IdleRec
<1>12. Promises
  BY <1>3 DEF Promises, DispatchOnce
<1> QED
  BY <1>2, <1>7, <1>8, <1>9, <1>10, <1>11, <1>12 DEF IInv, State, Progress

\* A step that changes nothing preserves the invariant.
LEMMA IInvStutter ==
  ASSUME IInv, UNCHANGED vars
  PROVE  IInv'
<1> USE DEF vars, git, release
<1>1. State'
  BY DEF IInv, State, Shapes, Trunk, Tags, Pulls, Checks, Bot, Human, Runs, Job, Me, Bounds
<1>2. Writing'
  BY DEF IInv, Progress, Writing, Bot, Human, Me
<1>4. Controlling'
  BY DEF IInv, Progress, Controlling, Me, Bound, Version, Release, Tree
<1>5. Reconciling'
  BY DEF IInv, Progress, Reconciling, Picked
<1>3. Promises'
  BY DEF IInv, Promises, Fulfilled, VerifiedAt, DeliveredAt, ReleasedAt, DispatchOnce, Tree,
         ManagedBy
<1> QED
  BY <1>1, <1>2, <1>3, <1>4, <1>5 DEF IInv, Progress

\* The inductive invariant: what GitHub holds fits together, every job knows
\* what it has established, and what succeeded has done what it promised.
THEOREM Invariance == Spec => []IInv
<1>1. Init => IInv
  BY IInvInit
<1>2. IInv /\ [Next]_vars => IInv'
  BY IInvStep, IInvStutter
<1> QED
  BY <1>1, <1>2, PTL DEF Spec

\* The state is always one of those TypeOK describes: each number names a thing
\* that exists, and the lease is the running run's.
THEOREM TypeCorrect == Spec => []TypeOK
<1>1. ASSUME IInv
      PROVE  TypeOK
  <2>1. Shapes /\ Trunk /\ Tags /\ Pulls /\ Checks /\ Runs /\ Job /\ Bounds /\ Reconciling
    BY <1>1 DEF IInv, State, Progress
  <2>2. main \in trunk /\ trunk \subseteq CommitIds
    BY <2>1 DEF Trunk, CommitIds
  <2>3. \A c \in CommitIds : /\ commits[c].by \in AllKinds \cup {"human", "legacy", "merge"}
                             /\ {commits[c].parent, commits[c].second} \subseteq 0..(c - 1)
    <3>1. ASSUME NEW c \in DOMAIN commits
          PROVE  commits[c].parent \in 0..(c - 1) /\ commits[c].second \in 0..(c - 1)
      BY <2>1, CommitFields DEF Trunk
    <3> QED
      BY <2>1, <3>1, CommitFields DEF CommitIds
  <2>4. head \in [AllKinds -> CommitIds \cup {None}]
    BY <2>1 DEF Shapes, Pulls, CommitIds
  <2>5. ASSUME NEW p \in DOMAIN prs
        PROVE  /\ prs[p].kind \in AllKinds
               /\ prs[p].st \in {"open", "merged", "closed"}
               /\ PrHead(p) \in CommitIds /\ prs[p].base \in trunk
               /\ (prs[p].st = "merged") = (prs[p].merge \in trunk)
    <3>1. prs[p].kind \in AllKinds /\ prs[p].st \in {"open", "merged", "closed"}
      BY <2>1, PrFields
    <3>2. /\ prs[p].base \in trunk
          /\ IF prs[p].st = "open" THEN head[prs[p].kind] # None
                                   ELSE prs[p].head \in DOMAIN commits
          /\ IF prs[p].st = "merged" THEN prs[p].merge \in trunk ELSE prs[p].merge = None
          /\ head[prs[p].kind] \in DOMAIN commits \cup {None}
      BY <2>1, <3>1 DEF Pulls
    <3>3. None \notin trunk
      BY <2>1 DEF Trunk, Shapes, None
    <3>4. (prs[p].st = "merged") <=> (prs[p].merge \in trunk)
      BY <3>2, <3>3
    <3>5. PrHead(p) \in CommitIds
      BY <3>2 DEF PrHead, CommitIds
    <3>6. (prs[p].st = "merged") = (prs[p].merge \in trunk)
      BY <3>4
    <3> QED
      BY <3>1, <3>2, <3>5, <3>6
  <2>6. \A i \in DOMAIN ci : /\ ci[i].head \in CommitIds /\ ci[i].want \in CommitIds
                             /\ ci[i].base \in trunk
                             /\ ci[i].st \in {"running", "success", "failure"}
    BY <2>1, CiFields DEF Checks, Bot, Human, CommitIds
  <2>7. ASSUME NEW i \in DOMAIN runs
        PROVE  /\ runs[i].sha \in trunk /\ runs[i].st \in RunStates
               /\ (runs[i].what = "controller") = (runs[i].ci \in DOMAIN ci)
               /\ (runs[i].st = "running") = (job.run = i)
    <3>1. runs[i].what \in {"writer", "controller"} /\ runs[i].st \in RunStates
      BY <2>1, RunFields
    <3>2. /\ runs[i].sha \in trunk
          /\ runs[i].what = "writer" => runs[i].ci = None
          /\ runs[i].what = "controller" => runs[i].ci \in DOMAIN ci
          /\ runs[i].st = "running" <=> job.run = i
      BY <2>1 DEF Runs, Fits
    <3>3. None \notin DOMAIN ci
      BY <2>1 DEF Shapes, None
    <3>4. (runs[i].what = "controller") <=> (runs[i].ci \in DOMAIN ci)
      BY <3>1, <3>2, <3>3
    <3>5. (runs[i].what = "controller") = (runs[i].ci \in DOMAIN ci)
      BY <3>4
    <3>6. (runs[i].st = "running") = (job.run = i)
      BY <3>2, Zenon
    <3> QED
      BY <3>1, <3>2, <3>5, <3>6
  <2>8. /\ job.pc \in Pcs /\ job.old \in CommitIds \cup {None}
        /\ job.out \in CommitIds \cup {None} /\ job.pr \in DOMAIN prs \cup {None}
    BY <2>1, JobFields DEF Job, CommitIds
  <2>9. rec.sha \in trunk \cup {None} /\ rec.pick \in AllKinds \cup {"none"}
    BY <2>1 DEF Reconciling, Shapes, RecT
  <2>10. \A k \in AllKinds : rec.cand[k].ci \in DOMAIN ci \cup {None}
    BY <2>1 DEF Reconciling, NoCandidate
  <2>11. \A t \in tags : t.ver \in Versions /\ t.commit \in trunk
    BY <2>1 DEF Tags, Trunk, Versions, CommitIds
  <2>12. published \subseteq dispatched /\ dispatched \subseteq Versions
    BY <2>1 DEF Tags, Versions, CommitIds
  <2>13. protect \in BOOLEAN /\ chaos \in 0..MaxChaos
    BY <2>1 DEF Bounds
  <2> QED
    BY <2>2, <2>3, <2>4, <2>5, <2>6, <2>7, <2>8, <2>9, <2>10, <2>11, <2>12, <2>13 DEF TypeOK
<1> QED
  BY <1>1, Invariance, PTL

\* A controller that reports a merge put on main exactly what CI tested: the merge
\* of the tested base and head, the bot's commit on that base, with the tested tree.
THEOREM MergesAreVerified == Spec => []VerifiedMerges
<1>1. IInv => VerifiedMerges
  BY DEF IInv, Promises, Fulfilled, VerifiedAt, VerifiedMerges
<1> QED
  BY <1>1, Invariance, PTL

\* A writer that succeeds with a candidate leaves a CI run of exactly that commit.
THEOREM WritersDeliver == Spec => []WriterDelivers
<1>1. IInv => WriterDelivers
  BY DEF IInv, Promises, Fulfilled, DeliveredAt, WriterDelivers, Writers
<1> QED
  BY <1>1, Invariance, PTL

\* A release controller that succeeds has tagged its own merge and dispatched its
\* publication, after the previous version was published.
THEOREM ReleasesDeliver == Spec => []ReleaseDelivers
<1>1. IInv => ReleaseDelivers
  BY DEF IInv, Promises, Fulfilled, ReleasedAt, ReleaseDelivers
<1> QED
  BY <1>1, Invariance, PTL

\* A version is tagged once, and a later version on a later commit of main.
THEOREM TagsAreOrdered == Spec => []TagsFollowMain
<1>1. ASSUME IInv
      PROVE  TagsFollowMain
  <2>1. Shapes /\ Trunk /\ Tags
    BY <1>1 DEF IInv, State
  <2>2. ASSUME NEW t \in tags, NEW u \in tags, t.ver < u.ver
        PROVE  t.commit < u.commit
    <3>1. /\ t.commit \in trunk /\ u.commit \in trunk /\ t.commit \in Nat /\ u.commit \in Nat
          /\ commits[t.commit].ver = t.ver /\ commits[u.commit].ver = u.ver
          /\ t.ver \in Nat /\ u.ver \in Nat
      BY <2>1 DEF Shapes, Tags
    <3>2. CASE u.commit <= t.commit
      <4>1. u.ver <= t.ver
        BY <2>1, <3>1, <3>2 DEF Trunk
      <4> QED
        BY <2>2, <3>1, <4>1
    <3> QED
      BY <3>1, <3>2
  <2>3. \A t, u \in tags : t.ver = u.ver => t = u
    BY <2>1 DEF Tags
  <2> QED
    BY <2>2, <2>3 DEF TagsFollowMain
<1> QED
  BY <1>1, Invariance, PTL

\* The reconciler dispatches the controller of a CI run at most once.
THEOREM ControllersDispatchedOnce == Spec => []DispatchOnce
<1>1. IInv => DispatchOnce
  BY DEF IInv, Promises
<1> QED
  BY <1>1, Invariance, PTL

\* No step replaces a commit that a person has put on a bot branch.
LEMMA HumanWorkStep ==
  ASSUME IInv, Next, NEW b \in AllKinds, head[b] # None, commits[head[b]].by = "human"
  PROVE  head'[b] = head[b]
<1>1. ASSUME WriterCommit
      PROVE  head'[b] = head[b]
  <2>1. job.run # None /\ Me.what = "writer" /\ job.pc = "commit" /\ job.run \in DOMAIN runs
    BY <1>1 DEF WriterCommit, At, IInv, State, Job
  <2>2. job.old = None \/ commits[job.old].by # "human"
    BY <2>1 DEF IInv, Progress, Writing
  <2>3. \/ head' = head
        \/ head' = [head EXCEPT ![Me.kind] = NextCommit] /\ head[Me.kind] = job.old
    BY <1>1 DEF WriterCommit, MoveBranch, BranchIs, git
  <2>4. Me.kind # b \/ head' = head
    BY <2>2, <2>3
  <2> QED
    BY <2>3, <2>4 DEF IInv, State, Shapes
<1>2. ASSUME NEW l \in AllKinds, HumanPushBranch(l)
      PROVE  head'[b] = head[b]
  BY <1>2 DEF HumanPushBranch, MoveBranch, IInv, State, Shapes
<1>3. ASSUME NEW k \in Kinds, Trigger(k)
      PROVE  head' = head
  BY <1>3 DEF git, Trigger
<1>4. ASSUME NEW i \in DOMAIN runs, StartRun(i)
      PROVE  head' = head
  BY <1>4 DEF git, StartRun
<1>5. ASSUME NEW j \in DOMAIN ci, CiWakes(j)
      PROVE  head' = head
  BY <1>5 DEF git, CiWakes
<1>6. ASSUME NEW j \in DOMAIN ci, NEW s \in {"success", "failure"}, CiFinish(j, s)
      PROVE  head' = head
  BY <1>6 DEF git, CiFinish
<1>7. ASSUME NEW c \in Catalogs \cup {x.cat : x \in {commits[y] : y \in DOMAIN commits}},
             WriterLease(c)
      PROVE  head' = head
  BY <1>7 DEF git, WriterLease
<1>8. ASSUME \/ WriterBranch \/ WriterLeaseAgain \/ WriterVerify \/ WriterPr
             \/ WriterDispatch \/ ControllerSkip \/ ControllerResolve \/ ControllerCheck
             \/ ControllerPolicy \/ ControllerMain \/ ControllerAgain \/ ControllerMerge
      PROVE  head' = head
  BY <1>8 DEF git, WriterBranch, WriterLeaseAgain, WriterVerify, WriterPr, AfterPr,
       WriterDispatch, ControllerSkip, ControllerResolve, ControllerCheck,
       ControllerPolicy, ControllerMain, ControllerAgain, ControllerMerge
<1>9. ASSUME \/ ControllerVerify \/ ControllerTagCheck \/ ControllerPushTags
             \/ ControllerDispatchRelease \/ RecStart \/ RecMain
             \/ RecControllers \/ RecRecheck \/ RecLast
      PROVE  head' = head
  BY <1>9 DEF git, ControllerVerify, ControllerTagCheck, ControllerPushTags,
       ControllerDispatchRelease, RecStart, Reads, RecMain, RecControllers,
       RecRecheck, RecLast
<1>10. ASSUME RecLease \/ ToggleProtection \/ Crash \/ HumanTags
      PROVE  head' = head
  BY <1>10 DEF git, RecLease, Reads, ToggleProtection, Crash, HumanTags
<1>11. ASSUME NEW l \in AllKinds, RecCandidate(l) \/ HumanClosesPr(l)
      PROVE  head' = head
  BY <1>11 DEF git, RecCandidate, Reads, HumanClosesPr
<1>12. ASSUME RecDispatch
       PROVE  head' = head
  BY <1>12 DEF git, RecDispatch
<1>13. ASSUME NEW h \in Catalogs \cup {commits[main].cat}, HumanPushMain(h)
       PROVE  head' = head
  BY <1>13 DEF git, HumanPushMain
<1>14. ASSUME NEW v \in dispatched, Publishes(v)
       PROVE  head' = head
  BY <1>14 DEF git, Publishes
<1> QED
  BY <1>1, <1>2, <1>3, <1>4, <1>5, <1>6, <1>7, <1>8, <1>9, <1>10, <1>11,
     <1>12, <1>13, <1>14
     DEF Next, Writer, Controller, Reconciler, GitHub, People

\* A commit a person puts on a bot branch is never replaced by a writer, also when
\* it arrives after the writer has looked at the branch.
THEOREM HumanWorkIsKept == Spec => HumanWorkSurvives
<1> DEFINE Survives ==
      \A k \in AllKinds : (head[k] # None /\ commits[head[k]].by = "human") => head'[k] = head[k]
<1>1. IInv /\ [Next]_vars => [Survives]_vars
  BY HumanWorkStep DEF vars
<1> QED
  BY <1>1, Invariance, PTL DEF Spec, HumanWorkSurvives
===============================================================================
