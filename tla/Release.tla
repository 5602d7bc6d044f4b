------------------------------- MODULE Release --------------------------------
(***************************************************************************)
(* The release of the packages (scripts/release.js, run by                 *)
(* .github/workflows/release.yml): a run checks the branch out, plans what *)
(* to publish from releases.json and the commits, records what npm already *)
(* has, publishes the rest one package after the other, and pushes         *)
(* releases.json after each of them.                                       *)
(*                                                                         *)
(* Two stores must agree without a transaction over both: npm, which never *)
(* takes a version back and serves it some time after it took it, and      *)
(* releases.json in the branch, to which developers push all the time.     *)
(* Faults: a run is killed, a command of it fails, npm takes a version and *)
(* its answer is lost.                                                     *)
(***************************************************************************)
EXTENDS ReleasePlan

CONSTANTS Beginnings,   \* the branches, with their history, that TLC begins with
          Bumps,        \* the bumps of the commits that are pushed
          MaxCommits,   \* bound: commits pushed
          MaxFaults     \* bound: faults

\* What a channel publishes: 0.0.0 is None, and has no prereleases.
Known == {version \in Version : version # None => BaseLess(None, version)}

Commit == [touches: SUBSET Packages, bump: 0..3]
EntryType == [name: Packages, version: Known, commit: Nat, dependencies: Pins]
DeployType == [commit: Nat, channel: Channels, reset: Known, packages: Seq(EntryType)]
Files == [packages: [Packages -> [Channels -> Known]], deploys: Seq(DeployType)]
DocumentType ==
    [name: Packages, version: Known \ {None}, commit: Nat, dependencies: Pins, built: Nat]

OnNpm(documents, name, version) ==
    {d \in documents : d.name = name /\ d.version = version}

\* What releases.json says of a version that it records is what npm has of it.
RecordsWhat(file, documents) ==
    \A deploy \in Range(file.deploys) : \A entry \in Range(deploy.packages) :
       \E d \in OnNpm(documents, entry.name, entry.version) :
          /\ d.dependencies = entry.dependencies
          /\ d.commit = IF entry.commit = 0 THEN deploy.commit ELSE entry.commit

\* What the next plan takes as released in a package, the commits up to the recorded
\* one, is in the tree its current version was built from.
SkipsNone(branch, log, file, documents) ==
    \A p \in Packages :
       LET baseline == BaselineFor(file, p, branch)
       IN  \A d \in OnNpm(documents, p, baseline.current) :
              \A i \in 1..baseline.commit : p \in log[i].touches => i <= d.built

\* Every version that a document depends on is there.
HasDependencies(documents) ==
    \A d \in documents : \A dep \in Deps[d.name] :
        OnNpm(documents, dep, d.dependencies[dep]) # {}

\* npm has a version of a package once, built from the commit it names or a later one.
Sound(log, documents) ==
    /\ documents \subseteq DocumentType
    /\ \A d, e \in documents : d.name = e.name /\ d.version = e.version => d = e
    /\ \A d \in documents : d.commit <= d.built /\ d.built <= Len(log)

\* A version is one of its channel: only main has prereleases.
OfChannel(version, channel) == Prereleases(channel) <=> version.pre # 0

ChannelsApart(branch, file) ==
    /\ \A p \in Packages, c \in Channels :
          file.packages[p][c] # None => OfChannel(file.packages[p][c], c)
    /\ \A deploy \in Range(file.deploys) :
          deploy.reset # None /\ deploy.channel = branch => OfChannel(deploy.reset, branch)

\* What the branch has of a package was published by a run that it records, or the next
\* run publishes the package.
Accounted(branch, log, file) ==
    \A p \in Packages :
       LET baseline == BaselineFor(file, p, branch)
       IN  \/ file.deploys = <<>>
           \/ baseline.commit = 0 /\ PendingReset(file, branch) # None
           \/ baseline.commit # 0 /\ file.packages[p][branch] = baseline.current
           \/ BumpSince(log, p, baseline.commit) # 0

\* npm has no version above the current one of its package.
NoneAbove(branch, file, documents) ==
    \A d \in documents : ~Less(BaselineFor(file, d.name, branch).current, d.version)

ASSUME BumpsAssumption == Bumps \subseteq 0..3

\* The releases of before left the branch and npm in order.
ASSUME BeginningsAssumption ==
    \A b \in Beginnings :
        /\ b.branch \in Channels
        /\ b.log \in Seq(Commit)
        /\ b.waiting \in 0..Len(b.log)
        /\ b.file \in Files
        /\ Sound(b.log, b.npm)
        /\ RecordsWhat(b.file, b.npm)
        /\ SkipsNone(b.branch, b.log, b.file, b.npm)
        /\ HasDependencies(b.npm)
        /\ ChannelsApart(b.branch, b.file)
        /\ Accounted(b.branch, b.log, b.file)
        /\ NoneAbove(b.branch, b.file, b.npm)

VARIABLES
    branch,     \* the branch whose runs are followed: main or release
    log,        \* the history of the branch in origin
    file,       \* releases.json at the tip of that history
    npm,        \* what npm has: built is the commit whose tree a version was built from
    served,     \* the part of it that npm already answers queries with
    waiting,    \* the commit of the push event whose run waits its turn, 0 when none
    pc,         \* where the run is
    head,       \* the commit it began at: the releaseCommit of what it publishes
    base,       \* the commit of origin that its working tree is built on
    ahead,      \* its commits of releases.json that are not pushed
    state,      \* releases.json in its working tree
    plan,       \* what it is going to publish
    left,       \* the packages of the plan it has not published
    recorded,   \* it recorded something
    failed,     \* it stopped on an error
    commits, faults

origin == <<log, file>>
registry == <<npm, served>>
run == <<pc, head, base, ahead, state, plan, left, recorded, failed>>
vars == <<branch, origin, registry, waiting, run, commits, faults>>

\* What a run pushes: releases.json is in the directory of no package.
RecordCommit == [touches |-> {}, bump |-> 0]

NoPlan == [p \in Packages |-> Unplanned]

\* Mutant: the commits that were not pushed stay in the working copy.
RestsDirty ==
    /\ pc' = "idle" /\ head' = 0 /\ base' = 0 /\ ahead' = ahead
    /\ state' = EmptyState /\ plan' = NoPlan /\ left' = {}
    /\ recorded' = FALSE /\ failed' = FALSE

Rests ==
    /\ pc' = "idle" /\ head' = 0 /\ base' = 0 /\ ahead' = 0
    /\ state' = EmptyState /\ plan' = NoPlan /\ left' = {}
    /\ recorded' = FALSE /\ failed' = FALSE

Fault == faults < MaxFaults /\ faults' = faults + 1

\* A developer pushes a commit. The push event asks for a run: of those that wait,
\* the concurrency group keeps the last one.
Push(touched, bump) ==
    /\ commits < MaxCommits
    /\ commits' = commits + 1
    /\ log' = Append(log, [touches |-> touched, bump |-> bump])
    /\ waiting' = Len(log')
    /\ UNCHANGED <<branch, file, registry, run, faults>>

\* npm begins to answer with a version it took.
Serve(document) ==
    /\ document \in npm \ served
    /\ served' = served \cup {document}
    /\ UNCHANGED <<branch, origin, npm, waiting, run, commits, faults>>

(* The run that waits checks its commit out. It publishes nothing unless   *)
(* that is still the tip of the branch, its file is valid and its plan too.*)
Begin ==
    /\ pc = "idle"
    /\ waiting # 0
    /\ waiting' = 0
    /\ \E planned \in {BuildPlan(branch, file, log)} :
         IF waiting = Len(log) /\ ~StateErrors(file) /\ ~PlanErrors(planned)
         THEN /\ pc' = "reconcile" /\ head' = Len(log) /\ base' = Len(log)
              /\ state' = file /\ plan' = planned
              /\ UNCHANGED <<ahead, left, recorded, failed>>
         ELSE UNCHANGED run
    /\ UNCHANGED <<branch, origin, registry, commits, faults>>

\* Mutant: a record says the commit of the run that makes it.
EntryOfThisRun(name, planned, pins, commit) ==
    [name |-> name, version |-> planned[name].next, commit |-> 0, dependencies |-> pins]

Entry(name, planned, pins, commit) ==
    [name |-> name, version |-> planned[name].next, commit |-> commit,
     dependencies |-> pins]

\* Every publication of the run goes into one deploy entry, opened with the first.
Record(before, opened, entry, resetTo) ==
    RecordPublication(IF opened THEN before ELSE OpenDeploy(before, head, branch, resetTo),
                      branch, entry)

(* A round of reconcileWithNpm: what the plan wants to publish and npm     *)
(* already serves was published by a run that could not record it. It is   *)
(* recorded with the commit and the pins that npm has, and the plan is     *)
(* made again from there.                                                  *)
PublishedAs(p) == OnNpm(served, p, plan[p].next)
PublishedBefore == {p \in Releasing(plan) : PublishedAs(p) # {}}
Doc(p) == CHOOSE d \in PublishedAs(p) : TRUE

RecordedFromNpm ==
    LET known[i \in 0..Len(Order)] ==
            IF i = 0 THEN state
            ELSE IF Order[i] \notin PublishedBefore THEN known[i - 1]
            ELSE Record(known[i - 1],
                        recorded \/ \E j \in 1..i - 1 : Order[j] \in PublishedBefore,
                        Entry(Order[i], plan, Doc(Order[i]).dependencies, Doc(Order[i]).commit),
                        ResetUsed(plan))
    IN  known[Len(Order)]

Reconcile ==
    LET again == BuildPlan(branch, RecordedFromNpm, SubSeq(log, 1, base))
        foreign == \E p \in PublishedBefore : Doc(p).commit \notin 1..head
    IN  /\ pc = "reconcile"
        /\ \/ /\ PublishedBefore = {}
              /\ pc' = IF recorded THEN "saveReconciled" ELSE "pinned"
              /\ UNCHANGED <<head, base, ahead, state, plan, left, recorded, failed>>
           \/ /\ PublishedBefore # {}
              /\ foreign \/ StateErrors(RecordedFromNpm) \/ PlanErrors(again)
              /\ Rests
           \/ /\ PublishedBefore # {}
              /\ ~(foreign \/ StateErrors(RecordedFromNpm) \/ PlanErrors(again))
              /\ state' = RecordedFromNpm
              /\ plan' = again
              /\ recorded' = TRUE
              /\ UNCHANGED <<pc, head, base, ahead, left, failed>>
        /\ UNCHANGED <<branch, origin, registry, waiting, commits, faults>>

(* saveRecord: the file is committed and pushed. When the branch moved the *)
(* commit is rebased on it, and the working tree is then that of the newer *)
(* commits. When that fails the commit stays for the next save.            *)
Pushed(saved, unpushed) ==
    /\ log' = log \o [i \in 1..unpushed |-> RecordCommit]
    /\ file' = saved

Save(saved, unpushed) ==
    \/ /\ Pushed(saved, unpushed)
       /\ base' = Len(log')
       /\ ahead' = 0
       /\ UNCHANGED faults
    \/ /\ Fault
       /\ base' \in {base, Len(log)}
       /\ ahead' = unpushed
       /\ UNCHANGED origin

SaveReconciled ==
    /\ pc = "saveReconciled"
    /\ pc' = "pinned"
    /\ Save(state, ahead + 1)
    /\ UNCHANGED <<branch, registry, waiting, head, state, plan, left, recorded, failed, commits>>

\* Every dependency that this run does not publish must be served by npm.
CheckPinnedDependencies ==
    LET problems ==
            \E p \in Packages : \E d \in Deps[p] :
               /\ plan[p].next # None
               /\ plan[d].next = None
               /\ OnNpm(served, d, plan[p].dependencies[d]) = {}
    IN  /\ pc = "pinned"
        /\ IF problems THEN Rests
           ELSE /\ pc' = "publish"
                /\ left' = Releasing(plan)
                /\ UNCHANGED <<head, base, ahead, state, plan, recorded, failed>>
        /\ UNCHANGED <<branch, origin, registry, waiting, commits, faults>>

\* The package is built from the working tree, whatever commit it says.
Document(name) ==
    [name |-> name, version |-> plan[name].next, commit |-> head,
     dependencies |-> plan[name].dependencies, built |-> base]

Stops == pc' = "finish" /\ failed' = TRUE

(* The next package is packed and published. npm refuses a version it has; *)
(* the build or the publication may fail, and npm may have taken the       *)
(* version of a publication that looks failed.                             *)
PublishNext ==
    LET name == FirstOf(left)
    IN  /\ pc = "publish"
        /\ left # {}
        /\ \/ /\ OnNpm(npm, name, plan[name].next) # {}
              /\ Stops
              /\ UNCHANGED <<npm, faults>>
           \/ /\ OnNpm(npm, name, plan[name].next) = {}
              /\ npm' = npm \cup {Document(name)}
              /\ pc' = "record"
              /\ UNCHANGED <<failed, faults>>
           \/ /\ OnNpm(npm, name, plan[name].next) = {}
              /\ Fault
              /\ npm' \in {npm, npm \cup {Document(name)}}
              /\ Stops
        /\ UNCHANGED <<branch, origin, served, waiting, head, base, ahead, state, plan, left,
                       recorded, commits>>

RecordPublished ==
    LET name == FirstOf(left)
        entry == Entry(name, plan, plan[name].dependencies, 0)
    IN  /\ pc = "record"
        /\ pc' = "publish"
        /\ state' = Record(state, recorded, entry, ResetUsed(plan))
        /\ recorded' = TRUE
        /\ left' = left \ {name}
        /\ Save(state', ahead + 1)
        /\ UNCHANGED <<branch, registry, waiting, head, plan, failed, commits>>

AllPublished ==
    /\ pc = "publish"
    /\ left = {}
    /\ pc' = "finish"
    /\ UNCHANGED <<branch, origin, registry, waiting, head, base, ahead, state, plan, left,
                   recorded, failed, commits, faults>>

\* The last save pushes what an earlier one could not.
Finish ==
    /\ pc = "finish"
    /\ \/ recorded /\ Pushed(state, ahead) /\ UNCHANGED faults
       \/ recorded /\ Fault /\ UNCHANGED origin
       \/ ~recorded /\ UNCHANGED <<origin, faults>>
    /\ Rests
    /\ UNCHANGED <<branch, registry, waiting, commits>>

\* The run is killed, or a query to npm or git fails: what it did not push is lost.
Dies ==
    /\ pc # "idle"
    /\ Fault
    /\ Rests
    /\ UNCHANGED <<branch, origin, registry, waiting, commits>>

Init ==
    /\ \E beginning \in Beginnings :
         /\ branch = beginning.branch
         /\ log = beginning.log
         /\ file = beginning.file
         /\ npm = beginning.npm
         /\ waiting = beginning.waiting
    /\ served = npm
    /\ pc = "idle" /\ head = 0 /\ base = 0 /\ ahead = 0
    /\ state = EmptyState /\ plan = NoPlan /\ left = {}
    /\ recorded = FALSE /\ failed = FALSE
    /\ commits = 0 /\ faults = 0

Next ==
    \/ \E touched \in SUBSET Packages \ {{}}, bump \in Bumps : Push(touched, bump)
    \/ \E document \in npm : Serve(document)
    \/ Begin
    \/ Reconcile
    \/ SaveReconciled
    \/ CheckPinnedDependencies
    \/ PublishNext
    \/ RecordPublished
    \/ AllPublished
    \/ Finish
    \/ Dies

Spec == Init /\ [][Next]_vars

-----------------------------------------------------------------------------

\* The types of the variables that the runs and the developers share; a run builds from
\* the commit it began at or a later one, and only what it recorded is in its file.
TypeOK ==
    /\ branch \in Channels
    /\ log \in Seq(Commit)
    /\ file \in Files
    /\ Sound(log, npm)
    /\ served \subseteq npm
    /\ waiting \in 0..Len(log)
    /\ pc \in {"idle", "reconcile", "saveReconciled", "pinned", "publish", "record", "finish"}
    /\ base \in 0..Len(log) /\ head \in 0..base
    /\ recorded \in BOOLEAN /\ failed \in BOOLEAN
    /\ ahead \in Nat /\ (ahead > 0 => recorded)
    /\ ~recorded /\ pc # "idle" => state = file

\* releases.json, "the source of truth", says of every version it records what npm has:
\* the commit and the exact dependencies it was published with. A publication that
\* another run made and could not record keeps its own.
FileMatchesNpm == RecordsWhat(file, npm)

\* No commit is lost between two releases: what the next plan takes as released in a
\* package is in the tree it was built from.
NothingSkipped == SkipsNone(branch, log, file, npm)

\* The record can be planned from: it says what npm has, and no less than was built.
RecordIsTrue == TypeOK /\ FileMatchesNpm /\ NothingSkipped

\* Whatever fails, npm has every version that a published package depends on.
Installable == HasDependencies(npm)

\* A package never gets a version on npm below one it has, published by a run that
\* could record it or not.
VersionsRise ==
    [][\A d \in npm' \ npm, e \in npm : d.name = e.name => Less(e.version, d.version)]_vars

\* The commits that ask for a version of a package.
Releasers(p) == {i \in DOMAIN log : p \in log[i].touches /\ log[i].bump # 0}

\* After a run that ended well and pushed its file nothing is left of the commits it
\* began with: the version that the file has of every package was built from them, and
\* depends on the versions that the file has of the others.
Settled ==
    [][pc = "finish" /\ pc' = "idle" /\ ~failed /\ file' = state
         => LET Latest(p) == file'.packages[p][branch]
            IN  \A p \in Packages : \E d \in OnNpm(npm, p, Latest(p)) :
                   /\ \A i \in Releasers(p) \cap 1..head : i <= d.built
                   /\ \A dep \in Deps[p] : d.dependencies[dep] = Latest(dep)]_vars

===============================================================================
