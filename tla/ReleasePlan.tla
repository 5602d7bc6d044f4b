----------------------------- MODULE ReleasePlan ------------------------------
(***************************************************************************)
(* What a release publishes: the plan that scripts/lib/release-plan.js     *)
(* makes of releases.json (release-state.js) and of the commits.           *)
(*                                                                         *)
(* The packages come in the order of topoSort.  A commit is the number of  *)
(* its place in the history of the branch, 0 when there is none; what      *)
(* classifyCommit reads of its message is its bump, and touches holds the  *)
(* packages whose directory it changes.                                    *)
(***************************************************************************)
EXTENDS Versions, SequencesExt, TLC

CONSTANTS Order,  \* the packages of the monorepo, each after its dependencies
          Deps    \* the packages of the monorepo that each of them depends on

Packages == Range(Order)

ASSUME OrderAssumption ==
    /\ Order \in Seq(Packages) /\ IsInjective(Order)
    /\ Deps \in [Packages -> SUBSET Packages]
    /\ \A i, j \in DOMAIN Order : Order[j] \in Deps[Order[i]] => j < i

Channels == {"main", "release"}

Prereleases(branch) == branch = "main"

Pins == [Packages -> Version]
NoPins == [p \in Packages |-> None]

\* releases.json.
EmptyState ==
    [packages |-> [p \in Packages |-> [c \in Channels |-> None]], deploys |-> <<>>]

Nowhere == [commit |-> 0, dependencies |-> NoPins]

\* Mutant: the commit of an entry is not looked at.
FindDeploy(state, name, version) ==
    LET Is(entry) == entry.name = name /\ entry.version = version
        Has(deploy) == \E entry \in Range(deploy.packages) : Is(entry)
        at == SelectLastInSeq(state.deploys, Has)
        entry == state.deploys[at].packages[SelectInSeq(state.deploys[at].packages, Is)]
    IN  IF at = 0 THEN Nowhere
        ELSE [commit |-> state.deploys[at].commit, dependencies |-> entry.dependencies]

\* The last deploy that records a version of a package.
FindPublication(state, name, version) ==
    LET Is(entry) == entry.name = name /\ entry.version = version
        Has(deploy) == \E entry \in Range(deploy.packages) : Is(entry)
        at == SelectLastInSeq(state.deploys, Has)
        entry == state.deploys[at].packages[SelectInSeq(state.deploys[at].packages, Is)]
    IN  IF at = 0 THEN Nowhere
        ELSE [commit |-> IF entry.commit = 0 THEN state.deploys[at].commit ELSE entry.commit,
              dependencies |-> entry.dependencies]

\* stateErrors: a version of the wrong channel, or one that no deploy records, which
\* only a file without deploys or with a reset may have.
StateErrors(state) ==
    LET unregisteredAllowed ==
            \/ state.deploys = <<>>
            \/ \E deploy \in Range(state.deploys) : deploy.reset # None
    IN  \E p \in Packages, c \in Channels :
           LET version == state.packages[p][c]
           IN  /\ version # None
               /\ \/ Prereleases(c) # (version.pre # 0)
                  \/ ~unregisteredAllowed /\ FindPublication(state, p, version) = Nowhere

BaselineFor(state, name, branch) ==
    LET published == state.packages[name]
        newest    == Newest(published.main, published.release)
        base      == IF Prereleases(branch) THEN newest ELSE published.release
        found     == IF base = None THEN Nowhere ELSE FindPublication(state, name, base)
    IN  [current |-> newest, lastStable |-> published.release,
         commit |-> found.commit, dependencies |-> found.dependencies]

OpenDeploy(state, head, branch, resetTo) ==
    [state EXCEPT !.deploys =
        Append(@, [commit |-> head, channel |-> branch, reset |-> resetTo, packages |-> <<>>])]

RecordPublication(state, branch, entry) ==
    [packages |-> [state.packages EXCEPT ![entry.name][branch] = entry.version],
     deploys  |-> [state.deploys EXCEPT ![Len(state.deploys)].packages = Append(@, entry)]]

\* An empty list of deploys starts a new major for the whole set.
ResetVersion(state, branch) ==
    LET majors == {state.packages[p][c].major : p \in Packages, c \in Channels}
        first  == Base(1 + Max(majors), 0, 0)
    IN  IF Prereleases(branch) THEN Alpha(first, 1) ELSE first

\* A reset that stopped half way goes on with the packages that no deploy records.
PendingReset(state, branch) ==
    LET IsReset(deploy) == deploy.reset # None
        at == SelectLastInSeq(state.deploys, IsReset)
    IN  IF at # 0 /\ state.deploys[at].channel = branch THEN state.deploys[at].reset ELSE None

\* Mutant: the last commit decides, not the highest bump.
LastBump(log, name, base) ==
    LET touching == {j \in base + 1 .. Len(log) : name \in log[j].touches}
    IN  IF touching = {} THEN 0 ELSE log[Max(touching)].bump

\* The highest bump of the commits after base that touch a package.
BumpSince(log, name, base) ==
    Max({0} \cup {log[i].bump : i \in {j \in base + 1 .. Len(log) : name \in log[j].touches}})

\* Mutant: a package follows only the dependencies of its own run.
PlannedOfThisRun(before, name, state, branch, log) ==
    LET baseline   == BaselineFor(state, name, branch)
        full       == state.deploys = <<>>
        unfinished == ~full /\ baseline.commit = 0
        reset      == CASE full       -> ResetVersion(state, branch)
                        [] unfinished -> PendingReset(state, branch)
                        [] OTHER      -> None
        cascades   == \E d \in Deps[name] : before[d].next # None
        bump       == Max({BumpSince(log, name, baseline.commit), IF cascades THEN 1 ELSE 0})
        next       == CASE reset # None -> reset
                        [] reset = None /\ bump # 0 ->
                             NextVersion(baseline.current, baseline.lastStable, bump,
                                         Prereleases(branch))
                        [] OTHER -> None
    IN  [current |-> baseline.current, next |-> next, reset |-> reset,
         dependencies |-> [d \in Packages |->
             IF d \notin Deps[name] THEN None
             ELSE IF before[d].next # None THEN before[d].next ELSE before[d].current]]

(* The plan: each package with its version, the next one or None, and the  *)
(* exact versions of its dependencies.  A package is released for its own  *)
(* commits, for a dependency that is, or for one that its published        *)
(* version does not pin at the current version; a reset releases them all. *)
Planned(before, name, state, branch, log) ==
    LET baseline   == BaselineFor(state, name, branch)
        full       == state.deploys = <<>>
        unfinished == ~full /\ baseline.commit = 0
        reset      == CASE full       -> ResetVersion(state, branch)
                        [] unfinished -> PendingReset(state, branch)
                        [] OTHER      -> None
        cascades   == \E d \in Deps[name] :
                         \/ before[d].next # None
                         \/ /\ before[d].current # None
                            /\ baseline.dependencies[d] # before[d].current
        bump       == Max({BumpSince(log, name, baseline.commit), IF cascades THEN 1 ELSE 0})
        next       == CASE reset # None -> reset
                        [] reset = None /\ bump # 0 ->
                             NextVersion(baseline.current, baseline.lastStable, bump,
                                         Prereleases(branch))
                        [] OTHER -> None
    IN  [current |-> baseline.current, next |-> next,
         reset |-> reset,
         dependencies |-> [d \in Packages |->
             IF d \notin Deps[name] THEN None
             ELSE IF before[d].next # None THEN before[d].next ELSE before[d].current]]

Unplanned == [current |-> None, next |-> None, reset |-> None, dependencies |-> NoPins]

BuildPlan(branch, state, log) ==
    LET planned[i \in 0..Len(Order)] ==
            IF i = 0 THEN [p \in Packages |-> Unplanned]
            ELSE [planned[i - 1] EXCEPT
                    ![Order[i]] = Planned(planned[i - 1], Order[i], state, branch, log)]
    IN  planned[Len(Order)]

PlanErrors(plan) ==
    \E p \in Packages :
       /\ plan[p].next # None
       /\ \/ plan[p].current # None /\ ~Less(plan[p].current, plan[p].next)
          \/ \E d \in Deps[p] : plan[p].dependencies[d] = None

Releasing(plan) == {p \in Packages : plan[p].next # None}

\* Mutant: a package is published before its dependencies.
LastOf(packages) == Order[Max({i \in DOMAIN Order : Order[i] \in packages})]

\* The package whose turn it is: the dependencies come first.
FirstOf(packages) == Order[Min({i \in DOMAIN Order : Order[i] \in packages})]

\* The version that the first record of the run opens its deploy with.
ResetUsed(plan) ==
    LET resets == {plan[p].reset : p \in Packages} \ {None}
    IN  IF resets = {} THEN None ELSE CHOOSE version \in resets : TRUE
===============================================================================
