---------------------------- MODULE Release_proofs -----------------------------
(***************************************************************************)
(* Proofs about the releases, for any packages, histories and faults.      *)
(*                                                                         *)
(* A run works on a file of its own and on a plan made from it, while what *)
(* it does to npm stays whatever becomes of the run.  The invariant says   *)
(* that the file of the run is as good a record as the one in the branch,  *)
(* that its plan fits that file, and that what it has published so far is  *)
(* a set of packages closed under dependencies.                            *)
(*                                                                         *)
(* The second part, from the rounding of the versions on, is about what    *)
(* the runs leave behind: a run that dies after a publication leaves on    *)
(* npm a version that no file has, and the next one plans without it.  The *)
(* points of a package are the versions that a run may go on from: the one *)
(* of the branch and those above it on npm, each with the commit it stands *)
(* for and the next version for each bump.  Of two points the higher one   *)
(* stands for the later commit, and the next version of the lower one      *)
(* either is on npm already or lies above every other point: so what a     *)
(* plan made from any of them publishes is above all that npm has.         *)
(***************************************************************************)
EXTENDS Release, FiniteSetTheorems, SequenceTheorems, WellFoundedInduction, TLAPS

Cur(st, p) == Newest(st.packages[p]["main"], st.packages[p]["release"])

Says(st, p, v) ==
    \E deploy \in Range(st.deploys) : \E entry \in Range(deploy.packages) :
        entry.name = p /\ entry.version = v
CommitOf(deploy, entry) == IF entry.commit = 0 THEN deploy.commit ELSE entry.commit

Step == [current: Known, next: Known, reset: Known, dependencies: Pins]
Plans == [Packages -> Step]

\* The pins of a package are the next versions of its dependencies, or the current ones.
Fits(some) ==
    \A p \in Releasing(some) : \A d \in Deps[p] :
        some[p].dependencies[d] =
            IF some[d].next # None THEN some[d].next ELSE some[d].current
Rises(some) == \A p \in Releasing(some) : Less(some[p].current, some[p].next)
Starts(some, st, packages) == \A p \in packages : some[p].current = Cur(st, p)

\* A file that a run may push.
GoodFile(st) == st \in Files /\ RecordsWhat(st, npm) /\ SkipsNone(branch, log, st, npm)
Opened(st) == st.deploys # <<>> /\ st.deploys[Len(st.deploys)].commit = head
NotBelow(st) == \A p \in Packages : ~Less(Cur(st, p), Cur(file, p))

Running ==
    /\ head # 0
    /\ GoodFile(state) /\ NotBelow(state) /\ (recorded => Opened(state))
    /\ plan \in Plans /\ Fits(plan) /\ Rises(plan)

Planning == Starts(plan, state, Packages)

\* What was published so far has its dependencies, and what is left will find them.
Publishing ==
    /\ left \subseteq Releasing(plan)
    /\ Starts(plan, state, left)
    /\ \A p \in Releasing(plan) \ left : OnNpm(npm, p, plan[p].next) # {}
    /\ \A p \in Releasing(plan) : \A d \in Deps[p] :
          plan[d].next = None => OnNpm(npm, d, plan[p].dependencies[d]) # {}

\* The package whose turn it is was published by this run and is not recorded.
Unrecorded ==
    /\ left # {}
    /\ \E d \in OnNpm(npm, FirstOf(left), plan[FirstOf(left)].next) :
          d.commit = head /\ d.dependencies = plan[FirstOf(left)].dependencies

RunOK ==
    /\ IF pc = "idle" THEN ~recorded ELSE Running
    /\ pc = "saveReconciled" => recorded
    /\ pc \in {"reconcile", "saveReconciled", "pinned"} => Planning
    /\ pc \in {"publish", "record"} => Publishing
    /\ pc = "record" => Unrecorded

ReleaseInv == RecordIsTrue /\ Installable /\ RunOK

-----------------------------------------------------------------------------
\* Sets of numbers: the least and the greatest, and induction on them.

LEMMA Least ==
    ASSUME NEW T, T \subseteq Nat, T # {}
    PROVE  \E x \in T : \A y \in T : x <= y
<1> DEFINE R == OpToRel(<, Nat)
<1>1. IsWellFoundedOn(R, Nat)
  BY NatLessThanWellFounded
<1>2. \A x, y \in Nat : x < y => <<x, y>> \in R
  BY DEF OpToRel
<1> HIDE DEF R
<1>3. PICK x \in T : \A y \in T : <<y, x>> \notin R
  BY <1>1, WFMin
<1>4. ASSUME NEW y \in T PROVE x <= y
  <2>1. x \in Nat /\ y \in Nat
    OBVIOUS
  <2>2. <<y, x>> \notin R
    BY <1>3
  <2>3. ~(y < x)
    BY <1>2, <2>1, <2>2
  <2> QED
    BY <2>1, <2>3
<1> QED
  BY <1>4

LEMMA Induct ==
    ASSUME NEW S, 0 \in S, \A n \in Nat : n \in S => n + 1 \in S
    PROVE  Nat \subseteq S
<1> SUFFICES ASSUME Nat \ S # {} PROVE FALSE
  OBVIOUS
<1>1. PICK x \in Nat \ S : \A y \in Nat \ S : x <= y
  BY Least
<1>2. x # 0 /\ x - 1 \in Nat
  BY <1>1
<1>3. x - 1 \in S
  BY <1>1, <1>2
<1> QED
  BY <1>1, <1>2, <1>3

LEMMA MinIs ==
    ASSUME NEW T, T \subseteq Nat, T # {}
    PROVE  Min(T) \in T /\ \A y \in T : Min(T) <= y
BY Least DEF Min

LEMMA MaxIs ==
    ASSUME NEW T, T \subseteq Nat, T # {}, NEW b \in Nat, \A y \in T : y <= b
    PROVE  Max(T) \in T /\ \A y \in T : Max(T) >= y
<1> DEFINE U == {u \in Nat : \A y \in T : y <= u}
<1>1. PICK u \in U : \A v \in U : u <= v
  BY Least
<1>2. u \in T
  <2> SUFFICES ASSUME u \notin T PROVE FALSE
    OBVIOUS
  <2>1. PICK y \in T : y <= u
    BY <1>1
  <2>2. u - 1 \in Nat
    BY <2>1
  <2>3. u - 1 \in U
    BY <1>1, <2>2
  <2> QED
    BY <1>1, <2>2, <2>3
<1>3. \A y \in T : u >= y
  BY <1>1
<1> QED
  BY <1>2, <1>3 DEF Max

\* A function that is defined by recursion on the positions of a list exists.
Rules(last, Values) == [1..last -> [Values -> Values]]
HasRun(last, Values, x0, rule) ==
    \E f \in [0..last -> Values] : f[0] = x0 /\ \A i \in 1..last : f[i] = rule[i][f[i - 1]]

LEMMA Recursion ==
    ASSUME NEW last \in Nat, NEW Values, NEW x0 \in Values,
           NEW rule \in Rules(last, Values)
    PROVE  HasRun(last, Values, x0, rule)
<1> DEFINE Good(n, f) == f[0] = x0 /\ \A i \in 1..n : f[i] = rule[i][f[i - 1]]
           S == {n \in Nat : n <= last => \E f \in [0..n -> Values] : Good(n, f)}
<1>1. 0 \in S
  <2>1. [i \in 0..0 |-> x0] \in [0..0 -> Values] /\ Good(0, [i \in 0..0 |-> x0])
    OBVIOUS
  <2> QED
    BY <2>1
<1>2. ASSUME NEW n \in Nat, n \in S PROVE n + 1 \in S
  <2> SUFFICES ASSUME n + 1 <= last PROVE \E f \in [0..n + 1 -> Values] : Good(n + 1, f)
    OBVIOUS
  <2>1. PICK f \in [0..n -> Values] : Good(n, f)
    BY <1>2
  <2> DEFINE y == rule[n + 1][f[n]]
             g == [i \in 0..n + 1 |-> IF i = n + 1 THEN y ELSE f[i]]
  <2>2. n + 1 \in 1..last /\ f[n] \in Values /\ rule \in [1..last -> [Values -> Values]]
    BY DEF Rules
  <2>3. y \in Values
    BY <2>2
  <2> HIDE DEF y
  <2>4. g \in [0..n + 1 -> Values]
    BY <2>3
  <2>5. g[0] = x0
    BY <2>1
  <2>6. ASSUME NEW i \in 1..n + 1 PROVE g[i] = rule[i][g[i - 1]]
    <3>1. CASE i = n + 1
      BY <3>1 DEF y
    <3>2. CASE i # n + 1
      <4>1. i \in 1..n /\ i - 1 \in 0..n /\ i - 1 # n + 1
        BY <3>2
      <4> QED
        BY <2>1, <4>1
    <3> QED
      BY <3>1, <3>2
  <2> QED
    BY <2>4, <2>5, <2>6
<1>3. last \in S
  <2> HIDE DEF S
  <2>1. Nat \subseteq S
    BY <1>1, <1>2, Induct
  <2> QED
    BY <2>1
<1> QED
  BY <1>3 DEF HasRun

-----------------------------------------------------------------------------
\* Versions.

LEMMA NoneKnown == None \in Known /\ None \in Version /\ None.pre = 0
BY DEF None, Base, Known, Version, BaseLess

LEMMA LessOrders ==
    /\ \A a \in Version : ~Less(a, a)
    /\ \A a, b \in Version : a # b => Less(a, b) \/ Less(b, a)
    /\ \A a, b \in Version : Less(a, b) => ~Less(b, a)
    /\ \A a, b, c \in Version : Less(a, b) /\ Less(b, c) => Less(a, c)
<1>1. \A a \in Version : ~Less(a, a)
  BY DEF Version, Less, BaseLess
<1>2. ASSUME NEW a \in Version, NEW b \in Version, a # b PROVE Less(a, b) \/ Less(b, a)
  BY <1>2 DEF Version, Less, BaseLess
<1>3. ASSUME NEW a \in Version, NEW b \in Version, Less(a, b) PROVE ~Less(b, a)
  BY <1>3 DEF Version, Less, BaseLess
<1>4. ASSUME NEW a \in Version, NEW b \in Version, NEW c \in Version, Less(a, b), Less(b, c)
      PROVE  Less(a, c)
  BY <1>4 DEF Version, Less, BaseLess
<1> QED
  BY <1>1, <1>2, <1>3, <1>4

LEMMA NoneFirst == \A a \in Known : a # None => Less(None, a)
BY DEF Known, Less

LEMMA NewestIs ==
    ASSUME NEW a \in Known, NEW b \in Known
    PROVE  /\ Newest(a, b) \in {a, b} /\ Newest(a, b) \in Known
           /\ ~Less(Newest(a, b), a) /\ ~Less(Newest(a, b), b)
BY LessOrders DEF Newest, Known

\* The version after one of a channel is a version that a channel may have.
LEMMA NextKnown ==
    ASSUME NEW current \in Known, NEW lastStable \in Known, NEW bump \in 0..3,
           NEW prerelease \in BOOLEAN
    PROVE  /\ NextVersion(current, lastStable, bump, prerelease) \in Known
           /\ NextVersion(current, lastStable, bump, prerelease) # None
<1> DEFINE floor == Increment(lastStable, bump)
<1>1. \A a, b, c, d \in Nat :
        [major |-> a, minor |-> b, patch |-> c, pre |-> d] \in Version
  BY DEF Version
<1>2. \A v \in Version : v.major # 0 \/ v.minor # 0 \/ v.patch # 0 => v \in Known \ {None}
  BY DEF Known, Version, BaseLess, None, Base
<1>3. floor \in Version /\ (floor.major # 0 \/ floor.minor # 0 \/ floor.patch # 0)
  BY DEF Increment, Base, Known, Version
<1>4. \A v \in Version, n \in Nat :
        /\ Alpha(v, n) \in Version /\ Alpha(v, n).major = v.major
        /\ Alpha(v, n).minor = v.minor /\ Alpha(v, n).patch = v.patch
  BY DEF Alpha, Version
<1>5. \A v \in Version : Stable(v) = Alpha(v, 0)
  BY DEF Alpha, Stable
<1>6. \A v \in Known : v # None => v.major # 0 \/ v.minor # 0 \/ v.patch # 0
  BY DEF Known, Version, BaseLess, None, Base
<1>7. current.pre # 0 => current # None
  BY DEF None, Base
<1>8. Base(1, 0, 0) \in Version /\ Base(1, 0, 0).major # 0
  BY DEF Base, Version
<1>9. current \in Version /\ current.pre \in Nat
  BY DEF Known, Version
<1> HIDE DEF floor
<1> DEFINE n == NextVersion(current, lastStable, bump, prerelease)
<1>10. n \in {Alpha(Base(1, 0, 0), 1), Alpha(floor, 1), Base(1, 0, 0), floor}
         \/ (current.pre # 0 /\ n \in {Alpha(current, current.pre + 1), Stable(current)})
  BY DEF NextVersion, floor
<1> HIDE DEF n
<1>11. Alpha(floor, 1) \in Known \ {None} /\ floor \in Known \ {None}
  BY <1>2, <1>3, <1>4
<1>12. Alpha(Base(1, 0, 0), 1) \in Known \ {None} /\ Base(1, 0, 0) \in Known \ {None}
  BY <1>2, <1>4, <1>8
<1>13. current.pre # 0 => /\ Alpha(current, current.pre + 1) \in Known \ {None}
                             /\ Stable(current) \in Known \ {None}
  <2> SUFFICES ASSUME current.pre # 0
               PROVE  /\ Alpha(current, current.pre + 1) \in Known \ {None}
                             /\ Stable(current) \in Known \ {None}
    OBVIOUS
  <2>1. current.major # 0 \/ current.minor # 0 \/ current.patch # 0
    BY <1>6, <1>7
  <2>2. \A m \in Nat : Alpha(current, m) \in Known \ {None}
    BY <1>2, <1>4, <1>9, <2>1
  <2>3. current.pre + 1 \in Nat /\ 0 \in Nat
    BY <1>9
  <2>4. Stable(current) = Alpha(current, 0)
    BY <1>5, <1>9
  <2> QED
    BY <2>2, <2>3, <2>4
<1>14. n \in Known \ {None}
  BY <1>10, <1>11, <1>12, <1>13
<1> QED
  BY <1>14 DEF n

-----------------------------------------------------------------------------
\* Files.

LEMMA FileFacts ==
    ASSUME NEW st \in Files
    PROVE  /\ st.packages \in [Packages -> [Channels -> Known]]
           /\ st.deploys \in Seq(DeployType)
           /\ \A deploy \in Range(st.deploys) :
                /\ deploy \in DeployType
                /\ \A entry \in Range(deploy.packages) : entry \in EntryType
<1>1. st.packages \in [Packages -> [Channels -> Known]] /\ st.deploys \in Seq(DeployType)
  BY DEF Files
<1>2. \A deploy \in Range(st.deploys) : deploy \in DeployType
  BY <1>1 DEF Range
<1>3. \A deploy \in DeployType : \A entry \in Range(deploy.packages) : entry \in EntryType
  BY DEF DeployType, Range
<1> QED
  BY <1>1, <1>2, <1>3

\* A publication is found when the file says it, in a deploy and an entry that say it.
LEMMA Found ==
    ASSUME NEW st \in Files, NEW p, NEW v
    PROVE  /\ ~Says(st, p, v) => FindPublication(st, p, v) = Nowhere
           /\ Says(st, p, v) =>
                \E deploy \in Range(st.deploys) : \E entry \in Range(deploy.packages) :
                  /\ entry.name = p /\ entry.version = v
                  /\ FindPublication(st, p, v) =
                       [commit |-> CommitOf(deploy, entry), dependencies |-> entry.dependencies]
<1> DEFINE Is(entry) == entry.name = p /\ entry.version = v
           Has(deploy) == \E entry \in Range(deploy.packages) : Is(entry)
           I == {i \in 1..Len(st.deploys) : Has(st.deploys[i])}
           at == IF I # {} THEN Max(I) ELSE 0
           J == {i \in 1..Len(st.deploys[at].packages) : Is(st.deploys[at].packages[i])}
           in == IF J # {} THEN Min(J) ELSE 0
           entry == st.deploys[at].packages[in]
<1>1. FindPublication(st, p, v) =
        IF at = 0 THEN Nowhere
        ELSE [commit |-> CommitOf(st.deploys[at], entry), dependencies |-> entry.dependencies]
  BY DEF FindPublication, SelectLastInSeq, SelectInSeq, CommitOf
<1>2. st.deploys \in Seq(DeployType) /\ Len(st.deploys) \in Nat
      /\ \A i \in 1..Len(st.deploys) : st.deploys[i] \in DeployType
  BY FileFacts
<1>3. Says(st, p, v) <=> I # {}
  BY <1>2 DEF Says, Range
<1>4. ASSUME I # {}
      PROVE  at \in 1..Len(st.deploys) /\ Has(st.deploys[at]) /\ at # 0
  <2>1. I \subseteq Nat /\ \A i \in I : i <= Len(st.deploys)
    BY <1>2
  <2>2. Max(I) \in I
    BY <1>2, <1>4, <2>1, MaxIs
  <2>3. at = Max(I)
    BY <1>4
  <2> HIDE DEF at
  <2>4. at \in I
    BY <2>2, <2>3
  <2>5. at \in 1..Len(st.deploys) /\ Has(st.deploys[at])
    BY <2>4
  <2> QED
    BY <1>2, <2>5
<1>5. ASSUME I # {} PROVE in \in J
  <2> HIDE DEF at
  <2> DEFINE packages == st.deploys[at].packages
  <2>4. st.deploys[at] \in DeployType
    BY <1>2, <1>4, <1>5
  <2>1. packages \in Seq(EntryType) /\ Len(packages) \in Nat
        /\ DOMAIN packages = 1..Len(packages)
    BY <2>4 DEF DeployType
  <2>5. PICK e \in Range(packages) : Is(e)
    BY <1>4, <1>5
  <2> HIDE DEF packages
  <2>6. PICK i \in 1..Len(packages) : packages[i] = e
    BY <2>1, <2>5 DEF Range
  <2>2. J # {} /\ J \subseteq Nat
    BY <2>1, <2>5, <2>6 DEF packages
  <2>3. Min(J) \in J
    BY <2>2, MinIs
  <2> QED
    BY <2>2, <2>3
<1>6. ASSUME I # {}
      PROVE  /\ st.deploys[at] \in Range(st.deploys) /\ entry \in Range(st.deploys[at].packages)
             /\ entry.name = p /\ entry.version = v
  <2> HIDE DEF at
  <2>1. DOMAIN st.deploys = 1..Len(st.deploys)
    BY <1>2
  <2>2. st.deploys[at] \in DeployType
    BY <1>2, <1>4, <1>6
  <2>3. DOMAIN st.deploys[at].packages = 1..Len(st.deploys[at].packages)
    BY <2>2 DEF DeployType
  <2> HIDE DEF in
  <2> QED
    BY <1>4, <1>5, <1>6, <2>1, <2>3 DEF Range
<1> HIDE DEF at, in
<1>7. I = {} => at = 0
  BY DEF at
<1> HIDE DEF I
<1> QED
  BY <1>1, <1>3, <1>4, <1>6, <1>7

\* What a file says that is true of npm is what npm has: its one document.
LEMMA FoundIsTrue ==
    ASSUME NEW st \in Files, RecordsWhat(st, npm), Sound(log, npm), NEW p, NEW v
    PROVE  /\ FindPublication(st, p, v).commit \in Nat
           /\ FindPublication(st, p, v).dependencies \in Pins
           /\ Says(st, p, v) =>
                \E d \in OnNpm(npm, p, v) :
                   /\ FindPublication(st, p, v).commit = d.commit
                   /\ FindPublication(st, p, v).dependencies = d.dependencies
           /\ ~Says(st, p, v) => FindPublication(st, p, v).commit = 0
<1>1. CASE ~Says(st, p, v)
  BY <1>1, Found, NoneKnown DEF Nowhere, NoPins, Pins
<1>2. CASE Says(st, p, v)
  <2> PICK deploy \in Range(st.deploys) : \E entry \in Range(deploy.packages) :
          /\ entry.name = p /\ entry.version = v
          /\ FindPublication(st, p, v) =
               [commit |-> CommitOf(deploy, entry), dependencies |-> entry.dependencies]
    BY <1>2, Found
  <2>1. PICK entry \in Range(deploy.packages) :
          /\ entry.name = p /\ entry.version = v
          /\ FindPublication(st, p, v) =
               [commit |-> CommitOf(deploy, entry), dependencies |-> entry.dependencies]
    OBVIOUS
  <2>2. PICK d \in OnNpm(npm, p, v) :
          d.dependencies = entry.dependencies /\ d.commit = CommitOf(deploy, entry)
    BY <2>1 DEF RecordsWhat, CommitOf
  <2>3. d \in DocumentType
    BY <2>2 DEF OnNpm, Sound
  <2> QED
    BY <1>2, <2>1, <2>2, <2>3 DEF DocumentType
<1> QED
  BY <1>1, <1>2

LEMMA DeploysOf ==
    ASSUME NEW A, NEW B, NEW r \in [packages: A, deploys: B], NEW y
    PROVE  [r EXCEPT !.deploys = y] = [packages |-> r.packages, deploys |-> y]
OBVIOUS

LEMMA PackagesOf ==
    ASSUME NEW A, NEW B, NEW C, NEW D,
           NEW r \in [commit: A, channel: B, reset: C, packages: D], NEW y
    PROVE  [r EXCEPT !.packages = y] =
             [commit |-> r.commit, channel |-> r.channel, reset |-> r.reset, packages |-> y]
OBVIOUS

LEMMA RangeAppend ==
    ASSUME NEW S, NEW s \in Seq(S), NEW e \in S
    PROVE  Range(Append(s, e)) = Range(s) \cup {e}
<1> DEFINE t == Append(s, e)
           n == Len(s)
<1>1. n \in Nat /\ DOMAIN s = 1..n /\ DOMAIN t = 1..n + 1 /\ t[n + 1] = e
      /\ \A i \in 1..n : t[i] = s[i]
  OBVIOUS
<1> HIDE DEF t, n
<1>2. ASSUME NEW x \in Range(t) PROVE x \in Range(s) \cup {e}
  <2>1. PICK i \in 1..n + 1 : x = t[i]
    BY <1>1 DEF Range
  <2>2. i = n + 1 \/ i \in 1..n
    BY <1>1
  <2> QED
    BY <1>1, <2>1, <2>2 DEF Range
<1>3. \A x \in Range(s) : x \in Range(t)
  BY <1>1 DEF Range
<1>4. e \in Range(t)
  BY <1>1 DEF Range
<1> QED
  BY <1>2, <1>3, <1>4 DEF t

\* A run opens its deploy with nothing in it.
Open(st, opened, resetTo) == IF opened THEN st ELSE OpenDeploy(st, head, branch, resetTo)

LEMMA OpenKeeps ==
    ASSUME NEW st \in Files, NEW opened \in BOOLEAN, opened => Opened(st),
           head \in Nat, branch \in Channels, NEW resetTo \in Known
    PROVE  LET new == Open(st, opened, resetTo)
           IN  /\ new \in Files /\ Opened(new) /\ new.packages = st.packages
               /\ \A p, v : Says(new, p, v) <=> Says(st, p, v)
               /\ RecordsWhat(st, npm) => RecordsWhat(new, npm)
<1> DEFINE fresh == [commit |-> head, channel |-> branch, reset |-> resetTo, packages |-> <<>>]
           new == [st EXCEPT !.deploys = Append(@, fresh)]
           mid == Open(st, opened, resetTo)
<1> SUFFICES /\ mid \in Files /\ Opened(mid) /\ mid.packages = st.packages
             /\ \A p, v : Says(mid, p, v) <=> Says(st, p, v)
             /\ RecordsWhat(st, npm) => RecordsWhat(mid, npm)
  OBVIOUS
<1>1. CASE opened
  BY <1>1 DEF Open
<1>2. CASE ~opened
  <2>1. fresh \in DeployType
    BY DEF DeployType
  <2>2. st.deploys \in Seq(DeployType) /\ st.packages \in [Packages -> [Channels -> Known]]
        /\ Len(st.deploys) \in Nat
    BY FileFacts
  <2>3. fresh.packages = <<>> /\ fresh.commit = head
    OBVIOUS
  <2> HIDE DEF fresh
  <2>4. new = [packages |-> st.packages, deploys |-> Append(st.deploys, fresh)]
    <3> DEFINE y == Append(st.deploys, fresh)
    <3>1. new = [st EXCEPT !.deploys = y]
      OBVIOUS
    <3> HIDE DEF y, new
    <3>2. new = [packages |-> st.packages, deploys |-> y]
      BY <3>1, DeploysOf DEF Files
    <3> QED
      BY <3>2 DEF y
  <2>5. Append(st.deploys, fresh) \in Seq(DeployType)
    BY <2>1, <2>2
  <2> HIDE DEF new
  <2>6. Range(new.deploys) = Range(st.deploys) \cup {fresh}
    BY <2>1, <2>2, <2>4, RangeAppend
  <2>12. new \in Files
    BY <2>2, <2>4, <2>5 DEF Files
  <2>7. Range(fresh.packages) = {}
    BY <2>3 DEF Range
  <2>8. Opened(new)
    BY <2>1, <2>2, <2>3, <2>4 DEF Opened
  <2>9. \A p, v : Says(new, p, v) <=> Says(st, p, v)
    BY <2>6, <2>7 DEF Says
  <2>10. RecordsWhat(st, npm) => RecordsWhat(new, npm)
    BY <2>6, <2>7 DEF RecordsWhat
  <2>11. mid = new
    BY <1>2 DEF Open, OpenDeploy, new, fresh
  <2>13. new.packages = st.packages
    BY <2>4
  <2> HIDE DEF mid
  <2> QED
    BY <2>8, <2>9, <2>10, <2>11, <2>12, <2>13
<1> QED
  BY <1>1, <1>2

\* A publication is added to the last deploy.
LEMMA PublicationKeeps ==
    ASSUME NEW st \in Files, st.deploys # <<>>, branch \in Channels, NEW entry \in EntryType
    PROVE  LET new == RecordPublication(st, branch, entry)
           IN  /\ new \in Files /\ (Opened(st) => Opened(new))
               /\ new.packages = [st.packages EXCEPT ![entry.name][branch] = entry.version]
               /\ \A p, v : Says(new, p, v)
                     <=> Says(st, p, v) \/ (p = entry.name /\ v = entry.version)
               /\ /\ RecordsWhat(st, npm) /\ Opened(st)
                  /\ \E d \in OnNpm(npm, entry.name, entry.version) :
                        /\ d.dependencies = entry.dependencies
                        /\ d.commit = IF entry.commit = 0 THEN head ELSE entry.commit
                  => RecordsWhat(new, npm)
<1> DEFINE n == Len(st.deploys)
           last == st.deploys[n]
           longer == [last EXCEPT !.packages = Append(@, entry)]
           deploys == [st.deploys EXCEPT ![n] = longer]
           packages == [st.packages EXCEPT ![entry.name][branch] = entry.version]
           new == RecordPublication(st, branch, entry)
<1>1. st.deploys \in Seq(DeployType) /\ st.packages \in [Packages -> [Channels -> Known]]
      /\ n \in Nat /\ n # 0 /\ DOMAIN st.deploys = 1..n
  BY FileFacts
<1>2. last \in DeployType /\ (Opened(st) => last.commit = head)
  BY <1>1 DEF Opened
<1>3. entry.name \in Packages /\ entry.version \in Known
  BY DEF EntryType
<1>4. new.deploys = deploys /\ new.packages = packages
      /\ new = [packages |-> packages, deploys |-> deploys]
  BY DEF RecordPublication
<1>5. longer \in DeployType /\ longer.commit = last.commit
      /\ longer.packages = Append(last.packages, entry)
  <2> HIDE DEF last
  <2>1. last.packages \in Seq(EntryType)
    BY <1>2 DEF DeployType
  <2>2. Append(last.packages, entry) \in Seq(EntryType)
    BY <2>1
  <2>3. longer = [commit |-> last.commit, channel |-> last.channel, reset |-> last.reset,
                  packages |-> Append(last.packages, entry)]
    <3> DEFINE y == Append(last.packages, entry)
    <3>1. longer = [last EXCEPT !.packages = y]
      OBVIOUS
    <3> HIDE DEF y, longer
    <3>2. longer = [commit |-> last.commit, channel |-> last.channel, reset |-> last.reset,
                    packages |-> y]
      BY <1>2, <3>1, PackagesOf DEF DeployType
    <3> QED
      BY <3>2 DEF y
  <2> QED
    BY <1>2, <2>2, <2>3 DEF DeployType
<1>6. Range(longer.packages) = Range(last.packages) \cup {entry}
  <2> HIDE DEF last, longer
  <2>1. last.packages \in Seq(EntryType)
    BY <1>2 DEF DeployType
  <2> QED
    BY <1>5, <2>1, RangeAppend
<1>7. deploys \in Seq(DeployType) /\ Len(deploys) = n /\ deploys[n] = longer
      /\ \A i \in 1..n - 1 : deploys[i] = st.deploys[i]
  <2> HIDE DEF longer, n
  <2> QED
    BY <1>1, <1>5
<1>8. packages \in [Packages -> [Channels -> Known]]
  BY <1>1, <1>3
<1> HIDE DEF new, packages, deploys, longer
<1>9. new \in Files
  BY <1>4, <1>7, <1>8 DEF Files
<1>10. Opened(st) => Opened(new)
  BY <1>1, <1>2, <1>4, <1>5, <1>7 DEF Opened
<1>11. \A deploy \in Range(new.deploys) : deploy = longer \/ deploy \in Range(st.deploys)
  BY <1>1, <1>4, <1>7 DEF Range
<1>12. longer \in Range(new.deploys)
       /\ \A deploy \in Range(st.deploys) : deploy = last \/ deploy \in Range(new.deploys)
  BY <1>1, <1>4, <1>7 DEF Range
<1>13. last \in Range(st.deploys)
  BY <1>1 DEF Range
<1> HIDE DEF last
<1>14. ASSUME NEW p, NEW v
       PROVE  Says(new, p, v) <=> Says(st, p, v) \/ (p = entry.name /\ v = entry.version)
  BY <1>6, <1>11, <1>12, <1>13 DEF Says
<1>15. ASSUME RecordsWhat(st, npm), Opened(st),
              \E d \in OnNpm(npm, entry.name, entry.version) :
                /\ d.dependencies = entry.dependencies
                /\ d.commit = IF entry.commit = 0 THEN head ELSE entry.commit
       PROVE  RecordsWhat(new, npm)
  <2> SUFFICES ASSUME NEW deploy \in Range(new.deploys), NEW e \in Range(deploy.packages)
               PROVE  \E d \in OnNpm(npm, e.name, e.version) :
                        /\ d.dependencies = e.dependencies
                        /\ d.commit = IF e.commit = 0 THEN deploy.commit ELSE e.commit
    BY DEF RecordsWhat
  <2>1. CASE deploy \in Range(st.deploys)
    BY <1>15, <2>1 DEF RecordsWhat
  <2>2. CASE deploy = longer /\ e = entry
    BY <1>2, <1>5, <1>15, <2>2
  <2>3. CASE deploy = longer /\ e \in Range(last.packages)
    <3>1. deploy.commit = last.commit
      BY <1>2, <1>5, <2>3
    <3> QED
      BY <1>13, <1>15, <2>3, <3>1 DEF RecordsWhat
  <2> QED
    BY <1>6, <1>11, <2>1, <2>2, <2>3
<1> QED
  BY <1>4, <1>9, <1>10, <1>14, <1>15 DEF packages, new

LEMMA RecordKeeps ==
    ASSUME NEW st \in Files, NEW opened \in BOOLEAN, opened => Opened(st),
           head \in Nat, branch \in Channels, NEW resetTo \in Known, NEW entry \in EntryType
    PROVE  LET new == Record(st, opened, entry, resetTo)
           IN  /\ new \in Files /\ Opened(new)
               /\ new.packages = [st.packages EXCEPT ![entry.name][branch] = entry.version]
               /\ \A p, v : Says(new, p, v)
                     <=> Says(st, p, v) \/ (p = entry.name /\ v = entry.version)
               /\ /\ RecordsWhat(st, npm)
                  /\ \E d \in OnNpm(npm, entry.name, entry.version) :
                        /\ d.dependencies = entry.dependencies
                        /\ d.commit = IF entry.commit = 0 THEN head ELSE entry.commit
                  => RecordsWhat(new, npm)
<1> DEFINE mid == Open(st, opened, resetTo)
<1>1. /\ mid \in Files /\ Opened(mid) /\ mid.packages = st.packages
      /\ \A p, v : Says(mid, p, v) <=> Says(st, p, v)
      /\ RecordsWhat(st, npm) => RecordsWhat(mid, npm)
  BY OpenKeeps
<1>2. Record(st, opened, entry, resetTo) = RecordPublication(mid, branch, entry)
  BY DEF Record, Open
<1> HIDE DEF mid
<1>3. mid.deploys # <<>>
  BY <1>1 DEF Opened
<1> QED
  BY <1>1, <1>2, <1>3, PublicationKeeps

\* Records are files even when no deploy was opened for them.
LEMMA RecordTyped ==
    ASSUME NEW st \in Files, NEW opened \in BOOLEAN, head \in Nat, branch \in Channels,
           NEW resetTo \in Known, NEW entry \in EntryType
    PROVE  Record(st, opened, entry, resetTo) \in Files
<1> DEFINE mid == Open(st, opened, resetTo)
<1>1. mid \in Files
  <2>1. CASE opened
    BY <2>1 DEF Open
  <2>2. CASE ~opened
    BY <2>2, OpenKeeps
  <2> QED
    BY <2>1, <2>2
<1>2. Record(st, opened, entry, resetTo) = RecordPublication(mid, branch, entry)
  BY DEF Record, Open
<1> HIDE DEF mid
<1>3. CASE mid.deploys # <<>>
  BY <1>1, <1>2, <1>3, PublicationKeeps
<1>4. CASE mid.deploys = <<>>
  <2> DEFINE packages == [mid.packages EXCEPT ![entry.name][branch] = entry.version]
  <2>1. packages \in [Packages -> [Channels -> Known]]
    BY <1>1, FileFacts DEF EntryType
  <2> DEFINE deploys == [mid.deploys EXCEPT ![Len(mid.deploys)].packages = Append(@, entry)]
  <2>2. deploys \in Seq(DeployType)
    <3>1. DOMAIN mid.deploys = {}
      BY <1>4
    <3>2. DOMAIN deploys = {} /\ deploys = [i \in DOMAIN deploys |-> deploys[i]]
      BY <3>1
    <3> HIDE DEF deploys
    <3>3. deploys = [i \in {} |-> i]
      BY <3>2
    <3>4. <<>> = [i \in {} |-> i]
      OBVIOUS
    <3> QED
      BY <3>3, <3>4
  <2>3. RecordPublication(mid, branch, entry) = [packages |-> packages, deploys |-> deploys]
    BY DEF RecordPublication
  <2> HIDE DEF packages, deploys
  <2> QED
    BY <1>2, <2>1, <2>2, <2>3 DEF Files
<1> QED
  BY <1>3, <1>4

\* A package that rises is the only one that changes.
LEMMA CurAfter ==
    ASSUME NEW st \in Files, NEW after \in Files, branch \in Channels,
           NEW name \in Packages, NEW v \in Known, Less(Cur(st, name), v),
           after.packages = [st.packages EXCEPT ![name][branch] = v]
    PROVE  /\ Cur(after, name) = v /\ v # None
           /\ \A q \in Packages \ {name} :
                 after.packages[q] = st.packages[q] /\ Cur(after, q) = Cur(st, q)
<1> DEFINE m == st.packages[name]["main"]
           r == st.packages[name]["release"]
<1>1. st.packages \in [Packages -> [Channels -> Known]]
  BY FileFacts
<1>2. m \in Known /\ r \in Known /\ Cur(st, name) = Newest(m, r)
  BY <1>1 DEF Channels, Cur
<1>3. Newest(m, r) \in Known /\ ~Less(Newest(m, r), m) /\ ~Less(Newest(m, r), r)
  BY <1>2, NewestIs
<1>4. m \in Version /\ r \in Version /\ v \in Version /\ Newest(m, r) \in Version
  BY <1>2, <1>3 DEF Known
<1>5. Less(m, v) /\ Less(r, v)
  BY <1>2, <1>3, <1>4, LessOrders
<1>6. v # None
  BY <1>2, <1>3, <1>4, NoneFirst, NoneKnown, LessOrders
<1>8. \A q \in Packages \ {name} : after.packages[q] = st.packages[q] /\ Cur(after, q) = Cur(st, q)
  BY <1>1 DEF Cur
<1>9. CASE branch = "main"
  <2>1. after.packages[name]["main"] = v /\ after.packages[name]["release"] = r
    BY <1>1, <1>9 DEF Channels
  <2>2. Newest(v, r) = v
    BY <1>4, <1>5, LessOrders DEF Newest
  <2> QED
    BY <1>6, <1>8, <2>1, <2>2 DEF Cur
<1>10. CASE branch = "release"
  <2>1. after.packages[name]["main"] = m /\ after.packages[name]["release"] = v
    BY <1>1, <1>10 DEF Channels
  <2>2. Newest(m, v) = v
    BY <1>5 DEF Newest
  <2> QED
    BY <1>6, <1>8, <2>1, <2>2 DEF Cur
<1> QED
  BY <1>9, <1>10 DEF Channels

-----------------------------------------------------------------------------
\* What a run writes keeps its file good.

BaseOf(st, p) == IF Prereleases(branch) THEN Cur(st, p) ELSE st.packages[p]["release"]

LEMMA BaselineIs ==
    ASSUME NEW st, NEW p
    PROVE  /\ BaselineFor(st, p, branch).current = Cur(st, p)
           /\ BaselineFor(st, p, branch).lastStable = st.packages[p]["release"]
           /\ BaselineFor(st, p, branch).commit =
                 IF BaseOf(st, p) = None THEN 0
                 ELSE FindPublication(st, p, BaseOf(st, p)).commit
           /\ BaselineFor(st, p, branch).dependencies =
                 IF BaseOf(st, p) = None THEN NoPins
                 ELSE FindPublication(st, p, BaseOf(st, p)).dependencies
BY DEF BaselineFor, BaseOf, Cur, Nowhere

LEMMA BaselineTyped ==
    ASSUME NEW st, GoodFile(st), Sound(log, npm), branch \in Channels, NEW p \in Packages
    PROVE  /\ BaselineFor(st, p, branch).current \in Known
           /\ BaselineFor(st, p, branch).lastStable \in Known
           /\ BaselineFor(st, p, branch).commit \in 0..Len(log)
           /\ BaselineFor(st, p, branch).dependencies \in Pins
<1>1. st.packages[p]["main"] \in Known /\ st.packages[p]["release"] \in Known
  BY FileFacts DEF GoodFile, Channels
<1>2. Cur(st, p) \in Known
  BY <1>1, NewestIs DEF Cur
<1> DEFINE v == BaseOf(st, p)
           found == FindPublication(st, p, v)
<1>3. found.commit \in Nat /\ found.dependencies \in Pins
      /\ (found.commit # 0 => \E d \in OnNpm(npm, p, v) : found.commit = d.commit)
  BY FoundIsTrue DEF GoodFile
<1>4. NoPins \in Pins
  BY NoneKnown DEF NoPins, Pins
<1>5. \A d \in npm : /\ d.commit \in Nat /\ d.built \in Nat
                      /\ d.commit <= d.built /\ d.built <= Len(log)
  BY DEF Sound, DocumentType
<1> HIDE DEF found, v
<1>6. found.commit # 0 => found.commit <= Len(log)
  <2> SUFFICES ASSUME found.commit # 0 PROVE found.commit <= Len(log)
    OBVIOUS
  <2>1. PICK d \in npm : found.commit = d.commit
    BY <1>3 DEF OnNpm
  <2> QED
    BY <1>5, <2>1
<1> QED
  BY <1>1, <1>2, <1>3, <1>4, <1>6, BaselineIs DEF found, v

\* A file that says of one more package the version that npm has, above the others.
LEMMA RecordGood ==
    ASSUME TypeOK, NEW st, GoodFile(st), NotBelow(st),
           NEW opened \in BOOLEAN, opened => Opened(st), NEW resetTo \in Known,
           NEW entry \in EntryType, Less(Cur(st, entry.name), entry.version),
           \E d \in OnNpm(npm, entry.name, entry.version) :
              /\ d.dependencies = entry.dependencies
              /\ d.commit = IF entry.commit = 0 THEN head ELSE entry.commit
    PROVE  LET new == Record(st, opened, entry, resetTo)
           IN  /\ GoodFile(new) /\ NotBelow(new) /\ Opened(new)
               /\ \A q \in Packages \ {entry.name} : Cur(new, q) = Cur(st, q)
<1> DEFINE new == Record(st, opened, entry, resetTo)
           name == entry.name
           v == entry.version
<1>1. /\ st \in Files /\ branch \in Channels /\ head \in Nat /\ name \in Packages /\ v \in Known
      /\ Sound(log, npm) /\ file \in Files
  BY DEF GoodFile, TypeOK, EntryType
<1>2. /\ new \in Files /\ Opened(new)
      /\ new.packages = [st.packages EXCEPT ![name][branch] = v]
      /\ \A p, w : Says(new, p, w) <=> Says(st, p, w) \/ (p = name /\ w = v)
      /\ RecordsWhat(new, npm)
  BY <1>1, RecordKeeps DEF GoodFile
<1> HIDE DEF new
<1>3. /\ Cur(new, name) = v /\ new.packages[name][branch] = v /\ v # None
      /\ \A q \in Packages \ {name} :
            new.packages[q] = st.packages[q] /\ Cur(new, q) = Cur(st, q)
  <2>1. Less(Cur(st, name), v)
    OBVIOUS
  <2>2. st \in Files /\ branch \in Channels /\ name \in Packages /\ v \in Known
    BY <1>1
  <2>3. new \in Files /\ new.packages = [st.packages EXCEPT ![name][branch] = v]
    BY <1>2
  <2> HIDE DEF name, v
  <2>4. new.packages[name][branch] = v
    BY <2>2, <2>3, FileFacts
  <2> QED
    BY <2>1, <2>2, <2>3, <2>4, CurAfter
<1>4. \A d, e \in npm : d.name = e.name /\ d.version = e.version => d = e
  BY <1>1 DEF Sound
<1>5. \A d \in npm : d.commit \in Nat /\ d.built \in Nat /\ d.commit <= d.built
  BY <1>1 DEF Sound, DocumentType
<1>6. ASSUME NEW p \in Packages, NEW d \in OnNpm(npm, p, Cur(new, p)),
             NEW i \in 1..BaselineFor(new, p, branch).commit, p \in log[i].touches
      PROVE  i <= d.built
  <2>1. BaselineFor(new, p, branch).commit =
           IF BaseOf(new, p) = None THEN 0 ELSE FindPublication(new, p, BaseOf(new, p)).commit
    BY BaselineIs
  <2>2. CASE p = name
    <3>1. BaseOf(new, p) = v
      BY <1>1, <1>3, <2>2 DEF BaseOf, Prereleases, Channels
    <3>2. Says(new, p, v)
      BY <1>2, <2>2
    <3>3. PICK e \in OnNpm(npm, p, v) : FindPublication(new, p, v).commit = e.commit
      BY <1>1, <1>2, <3>2, FoundIsTrue
    <3>4. e = d
      BY <1>3, <1>4, <2>2, <3>3 DEF OnNpm
    <3>5. d \in npm
      BY DEF OnNpm
    <3>6. BaselineFor(new, p, branch).commit = d.commit
      BY <1>3, <2>1, <3>1, <3>3, <3>4
    <3> QED
      BY <1>5, <3>5, <3>6
  <2>3. CASE p # name
    <3> DEFINE w == BaseOf(st, p)
    <3>1. BaseOf(new, p) = w /\ Cur(new, p) = Cur(st, p)
      BY <1>3, <2>3 DEF BaseOf
    <3>2. Says(new, p, w) <=> Says(st, p, w)
      BY <1>2, <2>3
    <3> HIDE DEF w
    <3>3. FindPublication(new, p, w).commit = FindPublication(st, p, w).commit
      <4>1. CASE Says(st, p, w)
        <5>1. PICK e \in OnNpm(npm, p, w) : FindPublication(new, p, w).commit = e.commit
          BY <1>1, <1>2, <3>2, <4>1, FoundIsTrue
        <5>2. PICK f \in OnNpm(npm, p, w) : FindPublication(st, p, w).commit = f.commit
          BY <1>1, <4>1, FoundIsTrue DEF GoodFile
        <5> QED
          BY <1>4, <5>1, <5>2 DEF OnNpm
      <4>2. CASE ~Says(st, p, w)
        BY <1>1, <1>2, <3>2, <4>2, FoundIsTrue DEF GoodFile
      <4> QED
        BY <4>1, <4>2
    <3>4. BaselineFor(new, p, branch).commit = BaselineFor(st, p, branch).commit
      BY <2>1, <3>1, <3>3, BaselineIs DEF w
    <3>5. d \in OnNpm(npm, p, BaselineFor(st, p, branch).current)
      BY <3>1, BaselineIs
    <3> QED
      BY <1>6, <3>4, <3>5 DEF GoodFile, SkipsNone
  <2> QED
    BY <2>2, <2>3
<1>7. SkipsNone(branch, log, new, npm)
  BY <1>6, BaselineIs DEF SkipsNone
<1>8. NotBelow(new)
  <2> SUFFICES ASSUME NEW p \in Packages PROVE ~Less(Cur(new, p), Cur(file, p))
    BY DEF NotBelow
  <2>1. CASE p # name
    BY <1>3, <2>1 DEF NotBelow
  <2>2. CASE p = name
    <3>1. Cur(st, p) \in Version /\ Cur(file, p) \in Version /\ v \in Version
      <4>1. \A s \in Files : Cur(s, p) \in Known
        BY FileFacts, NewestIs DEF Cur, Channels
      <4> QED
        BY <1>1, <4>1 DEF Known
    <3>2. ~Less(Cur(st, p), Cur(file, p)) /\ Less(Cur(st, p), v) /\ Cur(new, p) = v
      BY <1>3, <2>2 DEF NotBelow
    <3> QED
      BY <3>1, <3>2, LessOrders
  <2> QED
    BY <2>1, <2>2
<1> QED
  BY <1>2, <1>3, <1>7, <1>8 DEF GoodFile, new

-----------------------------------------------------------------------------
\* Commits and documents that are added leave what the files say true.

LEMMA LogGrows ==
    ASSUME TypeOK, NEW st, GoodFile(st), NEW more \in Seq(Commit)
    PROVE  SkipsNone(branch, log \o more, st, npm)
<1>1. log \in Seq(Commit) /\ branch \in Channels /\ Sound(log, npm) /\ Len(log) \in Nat
  BY DEF TypeOK
<1> SUFFICES ASSUME NEW p \in Packages,
                    NEW d \in OnNpm(npm, p, BaselineFor(st, p, branch).current),
                    NEW i \in 1..BaselineFor(st, p, branch).commit,
                    p \in (log \o more)[i].touches
             PROVE  i <= d.built
  BY DEF SkipsNone
<1>2. BaselineFor(st, p, branch).commit \in 0..Len(log)
  BY <1>1, BaselineTyped
<1>3. i \in 1..Len(log)
  BY <1>1, <1>2
<1>4. (log \o more)[i] = log[i]
  BY <1>1, <1>3
<1> QED
  BY <1>4 DEF GoodFile, SkipsNone

LEMMA NpmGrows ==
    ASSUME TypeOK, NEW st, GoodFile(st), NEW d, d.name \in Packages,
           d.version # Cur(st, d.name)
    PROVE  RecordsWhat(st, npm \cup {d}) /\ SkipsNone(branch, log, st, npm \cup {d})
<1>1. RecordsWhat(st, npm \cup {d})
  BY DEF GoodFile, RecordsWhat, OnNpm
<1>2. ASSUME NEW p \in Packages,
             NEW e \in OnNpm(npm \cup {d}, p, BaselineFor(st, p, branch).current)
      PROVE  e \in OnNpm(npm, p, BaselineFor(st, p, branch).current)
  BY BaselineIs DEF OnNpm
<1> QED
  BY <1>1, <1>2 DEF GoodFile, SkipsNone

-----------------------------------------------------------------------------
\* The plan that is made from a file and from a history.

LEMMA Places ==
    /\ Len(Order) \in Nat /\ DOMAIN Order = 1..Len(Order)
    /\ \A i \in 1..Len(Order) : Order[i] \in Packages
    /\ \A p \in Packages : \E i \in 1..Len(Order) : Order[i] = p
    /\ \A i, j \in 1..Len(Order) : Order[i] = Order[j] => i = j
    /\ \A p \in Packages : Deps[p] \subseteq Packages
    /\ \A i, j \in 1..Len(Order) : Order[j] \in Deps[Order[i]] => j < i
<1>1. Order \in Seq(Packages)
  BY OrderAssumption
<1>2. Len(Order) \in Nat /\ DOMAIN Order = 1..Len(Order)
      /\ \A i \in 1..Len(Order) : Order[i] \in Packages
  BY <1>1
<1>3. \A p \in Packages : \E i \in 1..Len(Order) : Order[i] = p
  BY <1>2 DEF Packages, Range
<1> QED
  BY <1>2, <1>3, OrderAssumption DEF IsInjective

LEMMA ResetKnown ==
    ASSUME NEW st \in Files, NEW b, Packages # {}
    PROVE  /\ ResetVersion(st, b) \in Known
           /\ ResetVersion(st, b) # None /\ OfChannel(ResetVersion(st, b), b)
<1> DEFINE N == Len(Order)
           major(p, c) == st.packages[p][c].major
           majors == {major(p, c) : p \in Packages, c \in Channels}
           S == {n \in Nat : n <= N =>
                    \E m \in Nat : \A i \in 1..n : \A c \in Channels : major(Order[i], c) <= m}
<1>1. \A p \in Packages : \A c \in Channels : major(p, c) \in Nat
  BY FileFacts DEF Known, Version
<1>2. majors \subseteq Nat /\ majors # {}
  <2>1. PICK p \in Packages : TRUE
    OBVIOUS
  <2> HIDE DEF major
  <2>2. major(p, "main") \in majors
    BY DEF Channels
  <2> QED
    BY <1>1, <2>2
<1> HIDE DEF major
<1>3. 0 \in S
  OBVIOUS
<1>4. ASSUME NEW n \in Nat, n \in S PROVE n + 1 \in S
  <2> SUFFICES ASSUME n + 1 <= N
               PROVE  \E m \in Nat : \A i \in 1..n + 1 : \A c \in Channels : major(Order[i], c) <= m
    OBVIOUS
  <2>0. n <= N
    BY Places
  <2>1. PICK m \in Nat : \A i \in 1..n : \A c \in Channels : major(Order[i], c) <= m
    BY <1>4, <2>0
  <2> DEFINE x == major(Order[n + 1], "main")
             y == major(Order[n + 1], "release")
  <2>2. x \in Nat /\ y \in Nat
    BY <1>1, Places DEF Channels
  <2>3. \A c \in Channels : major(Order[n + 1], c) = x \/ major(Order[n + 1], c) = y
    BY DEF Channels
  <2> HIDE DEF x, y
  <2>4. ASSUME NEW i \in 1..n + 1, NEW c \in Channels PROVE major(Order[i], c) <= m + x + y
    <3>1. CASE i = n + 1
      BY <2>2, <2>3, <3>1
    <3>2. CASE i # n + 1
      <4>1. i \in 1..n /\ i \in 1..N
        BY <3>2, Places
      <4>2. major(Order[i], c) \in Nat /\ major(Order[i], c) <= m
        BY <1>1, <2>1, <4>1, Places
      <4> QED
        BY <2>2, <4>2
    <3> QED
      BY <3>1, <3>2
  <2>5. m + x + y \in Nat
    BY <2>2
  <2> QED
    BY <2>4, <2>5
<1>5. PICK m \in Nat : \A i \in 1..N : \A c \in Channels : major(Order[i], c) <= m
  <2> HIDE DEF S
  <2>1. Nat \subseteq S
    BY <1>3, <1>4, Induct
  <2>2. N \in S
    BY <2>1, Places
  <2> QED
    BY <2>2 DEF S
<1>6. \A x \in majors : x <= m
  BY <1>5, Places
<1>7. Max(majors) \in Nat
  BY <1>2, <1>6, MaxIs
<1> DEFINE first == Base(1 + Max(majors), 0, 0)
<1>8. ResetVersion(st, b) = IF Prereleases(b) THEN Alpha(first, 1) ELSE first
  BY DEF ResetVersion, major
<1> HIDE DEF majors
<1>9. first \in Known /\ Alpha(first, 1) \in Known
  BY <1>7 DEF Base, Alpha, Known, Version, BaseLess, None
<1>10. first.pre = 0 /\ Alpha(first, 1).pre = 1
  BY DEF Base, Alpha
<1>11. first.major # 0
  BY <1>7 DEF Base
<1> HIDE DEF first
<1>12. None.major = 0 /\ None.pre = 0
  BY DEF None, Base
<1>13. CASE Prereleases(b)
  BY <1>8, <1>9, <1>10, <1>12, <1>13 DEF OfChannel
<1>14. CASE ~Prereleases(b)
  BY <1>8, <1>9, <1>10, <1>11, <1>12, <1>14 DEF OfChannel
<1> QED
  BY <1>13, <1>14

LEMMA PendingKnown ==
    ASSUME NEW st \in Files, NEW b
    PROVE  PendingReset(st, b) \in Known
<1> DEFINE IsReset(deploy) == deploy.reset # None
           I == {i \in 1..Len(st.deploys) : IsReset(st.deploys[i])}
           at == IF I # {} THEN Max(I) ELSE 0
<1>1. PendingReset(st, b) =
        IF at # 0 /\ st.deploys[at].channel = b THEN st.deploys[at].reset ELSE None
  BY DEF PendingReset, SelectLastInSeq
<1>2. Len(st.deploys) \in Nat /\ \A i \in 1..Len(st.deploys) : st.deploys[i] \in DeployType
  BY FileFacts
<1>3. I # {} => Max(I) \in I
  <2>1. I \subseteq Nat /\ \A i \in I : i <= Len(st.deploys)
    BY <1>2
  <2> QED
    BY <1>2, <2>1, MaxIs
<1>4. at # 0 => at \in 1..Len(st.deploys)
  BY <1>3
<1> HIDE DEF at
<1>5. at # 0 => st.deploys[at].reset \in Known
  BY <1>2, <1>4 DEF DeployType
<1> QED
  BY <1>1, <1>5, NoneKnown

LEMMA BumpIs ==
    ASSUME NEW lg \in Seq(Commit), NEW name, NEW from \in Nat
    PROVE  BumpSince(lg, name, from) \in 0..3
<1> DEFINE T == {0} \cup {lg[i].bump : i \in {j \in from + 1 .. Len(lg) : name \in lg[j].touches}}
<1>1. T \subseteq 0..3
  <2>1. \A i \in from + 1 .. Len(lg) : lg[i] \in Commit
    OBVIOUS
  <2> QED
    BY <2>1 DEF Commit
<1>4. 0 \in T
  OBVIOUS
<1> HIDE DEF T
<1>2. T \subseteq Nat /\ T # {} /\ \A y \in T : y <= 3
  BY <1>1, <1>4
<1>3. Max(T) \in T
  BY <1>2, MaxIs
<1> QED
  BY <1>1, <1>3 DEF BumpSince, T

\* One package of the plan.
LEMMA PlannedIs ==
    ASSUME TypeOK, NEW st, GoodFile(st), NEW lg \in Seq(Commit),
           NEW before \in Plans, NEW name \in Packages
    PROVE  LET step == Planned(before, name, st, branch, lg)
           IN  /\ step \in Step
               /\ step.current = Cur(st, name)
               /\ \A d \in Deps[name] : step.dependencies[d] =
                     IF before[d].next # None THEN before[d].next ELSE before[d].current
<1> DEFINE baseline   == BaselineFor(st, name, branch)
           full       == st.deploys = <<>>
           unfinished == ~full /\ baseline.commit = 0
           reset      == CASE full       -> ResetVersion(st, branch)
                           [] unfinished -> PendingReset(st, branch)
                           [] OTHER      -> None
           cascades   == \E d \in Deps[name] :
                            \/ before[d].next # None
                            \/ /\ before[d].current # None
                               /\ baseline.dependencies[d] # before[d].current
           since      == BumpSince(lg, name, baseline.commit)
           bump       == Max({since, IF cascades THEN 1 ELSE 0})
           risen      == NextVersion(baseline.current, baseline.lastStable, bump,
                                     Prereleases(branch))
           next       == CASE reset # None -> reset
                           [] reset = None /\ bump # 0 -> risen
                           [] OTHER -> None
           pins       == [d \in Packages |->
                             IF d \notin Deps[name] THEN None
                             ELSE IF before[d].next # None THEN before[d].next
                                  ELSE before[d].current]
           step       == Planned(before, name, st, branch, lg)
<1>1. step = [current |-> baseline.current, next |-> next, reset |-> reset,
              dependencies |-> pins]
  BY DEF Planned
<1>2. /\ baseline.current \in Known /\ baseline.lastStable \in Known
      /\ baseline.commit \in Nat /\ baseline.current = Cur(st, name)
  BY BaselineTyped, BaselineIs DEF TypeOK
<1>3. reset \in Known
  <2>1. ResetVersion(st, branch) \in Known
    BY ResetKnown DEF GoodFile
  <2>2. PendingReset(st, branch) \in Known
    BY PendingKnown DEF GoodFile
  <2> QED
    BY <2>1, <2>2, NoneKnown
<1>4. \A p \in Packages : before[p].next \in Known /\ before[p].current \in Known
  BY DEF Plans, Step
<1>5. pins \in Pins
  <2>1. \A d \in Packages : pins[d] \in Version
    BY <1>4, NoneKnown DEF Known
  <2> QED
    BY <2>1 DEF Pins
<1>6. \A d \in Deps[name] : pins[d] =
         IF before[d].next # None THEN before[d].next ELSE before[d].current
  BY Places
<1> HIDE DEF pins
<1>7. since \in 0..3
  BY <1>2, BumpIs
<1>8. bump \in 0..3
  <2> DEFINE T == {since, IF cascades THEN 1 ELSE 0}
  <2>1. T \subseteq 0..3 /\ T # {}
    BY <1>7
  <2> HIDE DEF T
  <2>2. T \subseteq Nat /\ \A y \in T : y <= 3
    BY <2>1
  <2>3. Max(T) \in T
    BY <2>1, <2>2, MaxIs
  <2> QED
    BY <2>1, <2>3 DEF T
<1> HIDE DEF reset, bump, baseline
<1>9. risen \in Known
  BY <1>2, <1>8, NextKnown DEF Prereleases
<1> HIDE DEF risen
<1>10. next \in Known
  BY <1>3, <1>9, NoneKnown
<1> HIDE DEF next, step
<1>11. step \in Step
  BY <1>1, <1>2, <1>3, <1>5, <1>10 DEF Step
<1>12. step.current = Cur(st, name) /\ step.dependencies = pins
  BY <1>1, <1>2
<1> QED
  BY <1>6, <1>11, <1>12 DEF step

\* It reads of the packages before it those it depends on.
LEMMA PlannedReads ==
    ASSUME NEW before, NEW other, NEW name, NEW st, NEW b, NEW lg,
           \A d \in Deps[name] : before[d] = other[d]
    PROVE  Planned(before, name, st, b, lg) = Planned(other, name, st, b, lg)
<1> DEFINE pins(from) == [d \in Packages |->
               IF d \notin Deps[name] THEN None
               ELSE IF from[d].next # None THEN from[d].next ELSE from[d].current]
           cascades(from) == \E d \in Deps[name] :
               \/ from[d].next # None
               \/ /\ from[d].current # None
                  /\ BaselineFor(st, name, b).dependencies[d] # from[d].current
<1>1. pins(before) = pins(other)
  OBVIOUS
<1>2. cascades(before) <=> cascades(other)
  OBVIOUS
<1> QED
  BY <1>1, <1>2 DEF Planned

\* The whole of it: each package as it is planned after those it depends on.
LEMMA BuildPlanIs ==
    ASSUME TypeOK, NEW st, GoodFile(st), NEW lg \in Seq(Commit)
    PROVE  LET made == BuildPlan(branch, st, lg)
           IN  /\ made \in Plans /\ Starts(made, st, Packages) /\ Fits(made)
               /\ \A p \in Packages : made[p] = Planned(made, p, st, branch, lg)
<1> DEFINE N == Len(Order)
           nothing == [p \in Packages |-> Unplanned]
           Make(g, i) == IF i = 0 THEN nothing
                         ELSE [g[i - 1] EXCEPT
                                 ![Order[i]] = Planned(g[i - 1], Order[i], st, branch, lg)]
           planned == CHOOSE g : g = [i \in 0..N |-> Make(g, i)]
           Next1(i, before) ==
               [before EXCEPT ![Order[i]] = Planned(before, Order[i], st, branch, lg)]
           step == [i \in 1..N |-> [before \in Plans |-> Next1(i, before)]]
<1>1. nothing \in Plans
  BY NoneKnown DEF Plans, Step, Unplanned, NoPins, Pins
<1>2. ASSUME NEW i \in 1..N, NEW before \in Plans PROVE Next1(i, before) \in Plans
  <2>1. Planned(before, Order[i], st, branch, lg) \in Step
    BY Places, PlannedIs
  <2> QED
    BY <2>1, Places DEF Plans
<1>3. step \in Rules(N, Plans)
  BY <1>2 DEF Rules
<1>4. PICK f \in [0..N -> Plans] :
        f[0] = nothing /\ \A i \in 1..N : f[i] = step[i][f[i - 1]]
  <2>1. N \in Nat
    BY Places
  <2> HIDE DEF nothing, step, N
  <2>2. HasRun(N, Plans, nothing, step)
    BY <1>1, <1>3, <2>1, Recursion
  <2> QED
    BY <2>2 DEF HasRun
<1>5. \A i \in 1..N : f[i] = Next1(i, f[i - 1])
  <2> SUFFICES ASSUME NEW i \in 1..N PROVE f[i] = Next1(i, f[i - 1])
    OBVIOUS
  <2>1. i - 1 \in 0..N
    BY Places
  <2>2. f[i - 1] \in Plans
    BY <2>1
  <2>3. step[i][f[i - 1]] = Next1(i, f[i - 1])
    BY <2>2
  <2> QED
    BY <1>4, <2>3
<1>6. f = [i \in 0..N |-> Make(f, i)]
  <2> SUFFICES ASSUME NEW i \in 0..N PROVE f[i] = Make(f, i)
    BY Zenon
  <2>1. CASE i = 0
    BY <1>4, <2>1
  <2>2. CASE i # 0
    <3>1. i \in 1..N
      BY <2>2, Places
    <3> QED
      BY <1>5, <2>2, <3>1
  <2> QED
    BY <2>1, <2>2
<1> HIDE DEF Make
<1>7. planned = [i \in 0..N |-> Make(planned, i)]
  BY <1>6
<1>8. BuildPlan(branch, st, lg) = planned[N]
  BY DEF BuildPlan, Make
<1> DEFINE Good(i, x) ==
               /\ x \in Plans
               /\ \A j \in 1..i : x[Order[j]] = Planned(x, Order[j], st, branch, lg)
           S == {n \in Nat : n <= N => Good(n, planned[n])}
<1> HIDE DEF planned
<1>9. planned[0] = nothing
      /\ \A i \in 1..N : planned[i] = Next1(i, planned[i - 1])
  <2>0. 0 \in 0..N /\ \A i \in 1..N : i \in 0..N
    BY Places
  <2>1. planned[0] = Make(planned, 0)
    BY <1>7, <2>0
  <2>2. \A i \in 1..N : planned[i] = Make(planned, i)
    BY <1>7, <2>0
  <2>3. Make(planned, 0) = nothing
    BY DEF Make
  <2>4. ASSUME NEW i \in 1..N PROVE Make(planned, i) = Next1(i, planned[i - 1])
    <3>1. i # 0
      BY Places
    <3> QED
      BY <3>1 DEF Make
  <2> HIDE DEF Next1, nothing
  <2> QED
    BY <2>1, <2>2, <2>3, <2>4
<1>10. 0 \in S
  BY <1>1, <1>9
<1>11. ASSUME NEW n \in Nat, n \in S PROVE n + 1 \in S
  <2> SUFFICES ASSUME n + 1 <= N PROVE Good(n + 1, planned[n + 1])
    OBVIOUS
  <2> DEFINE x == planned[n]
             y == planned[n + 1]
             q == Order[n + 1]
             made == Planned(x, q, st, branch, lg)
  <2>1. Good(n, x) /\ n + 1 \in 1..N /\ n \in Nat /\ q \in Packages
    BY <1>11, Places
  <2>2. y = [x EXCEPT ![q] = made]
    <3>1. planned[n + 1] = Next1(n + 1, planned[(n + 1) - 1])
      BY <1>9, <2>1
    <3>2. (n + 1) - 1 = n
      BY <2>1
    <3> QED
      BY <3>1, <3>2
  <2>3. made \in Step /\ made.current = Cur(st, q)
        /\ \A d \in Deps[q] : made.dependencies[d] =
              IF x[d].next # None THEN x[d].next ELSE x[d].current
    BY <2>1, PlannedIs
  <2> HIDE DEF x, y, made
  <2>4. y \in Plans
    BY <2>1, <2>2, <2>3 DEF Plans
  <2>5. y[q] = made /\ \A p \in Packages : p # q => y[p] = x[p]
    BY <2>1, <2>2 DEF Plans
  <2>6. \A j \in 1..n + 1 : \A d \in Deps[Order[j]] : d \in Packages /\ d # q
    <3> SUFFICES ASSUME NEW j \in 1..n + 1, NEW d \in Deps[Order[j]]
                 PROVE  d \in Packages /\ d # q
      OBVIOUS
    <3>1. j \in 1..N /\ Order[j] \in Packages
      BY <2>1, Places
    <3>2. d \in Packages
      BY <3>1, Places
    <3>3. PICK k \in 1..N : Order[k] = d
      BY <3>2, Places
    <3>4. k < j
      BY <3>1, <3>3, Places
    <3>5. k # n + 1
      BY <3>1, <3>3, <3>4, <2>1
    <3> QED
      BY <2>1, <3>2, <3>3, <3>5, Places
  <2>7. \A j \in 1..n : Order[j] \in Packages /\ Order[j] # q
    <3> SUFFICES ASSUME NEW j \in 1..n PROVE Order[j] \in Packages /\ Order[j] # q
      OBVIOUS
    <3>1. j \in 1..N /\ j # n + 1
      BY <2>1, Places
    <3> QED
      BY <2>1, <3>1, Places
  <2> HIDE DEF q
  <2>8. ASSUME NEW j \in 1..n + 1
        PROVE  y[Order[j]] = Planned(y, Order[j], st, branch, lg)
    <3>1. \A d \in Deps[Order[j]] : y[d] = x[d]
      BY <2>5, <2>6
    <3>2. Planned(y, Order[j], st, branch, lg) = Planned(x, Order[j], st, branch, lg)
      BY <3>1, PlannedReads
    <3>3. CASE j = n + 1
      <4>1. Order[j] = q
        BY <3>3 DEF q
      <4> QED
        BY <2>5, <3>2, <4>1 DEF made
    <3>4. CASE j # n + 1
      <4>1. j \in 1..n
        BY <3>4
      <4> QED
        BY <2>1, <2>5, <2>7, <3>2, <4>1
    <3> QED
      BY <3>3, <3>4
  <2> QED
    BY <2>4, <2>8 DEF y
<1>12. Good(N, planned[N])
  <2> HIDE DEF S, Good
  <2>1. Nat \subseteq S
    BY <1>10, <1>11, Induct
  <2>2. N \in S
    BY <2>1, Places
  <2> QED
    BY <2>2 DEF S
<1> DEFINE made == planned[N]
<1> HIDE DEF made
<1>13. Good(N, made)
  BY <1>12 DEF made
<1>14. ASSUME NEW p \in Packages PROVE made[p] = Planned(made, p, st, branch, lg)
  <2>1. PICK j \in 1..N : Order[j] = p
    BY Places
  <2> QED
    BY <1>13, <2>1
<1>15. Starts(made, st, Packages)
  BY <1>13, <1>14, PlannedIs DEF Starts
<1>16. Fits(made)
  BY <1>13, <1>14, PlannedIs DEF Fits, Releasing
<1> QED
  BY <1>8, <1>13, <1>14, <1>15, <1>16 DEF made

\* A plan without errors rises.
LEMMA RisesWithoutErrors ==
    ASSUME NEW some \in Plans, ~PlanErrors(some)
    PROVE  Rises(some)
<1> SUFFICES ASSUME NEW p \in Packages, some[p].next # None
             PROVE  Less(some[p].current, some[p].next)
  BY DEF Rises, Releasing
<1>1. some[p].current \in Known /\ some[p].next \in Known
  BY DEF Plans, Step
<1>2. CASE some[p].current = None
  BY <1>1, <1>2, NoneFirst
<1>3. CASE some[p].current # None
  BY <1>3 DEF PlanErrors
<1> QED
  BY <1>2, <1>3

-----------------------------------------------------------------------------
\* What a run takes over from npm: packages that the plan wants to publish and that npm
\* has already, with what npm says of them.

EntryOfNpm(p) == Entry(p, plan, Doc(p).dependencies, Doc(p).commit)
OpenedBy(i) == recorded \/ \E j \in 1..i : Order[j] \in PublishedBefore

LEMMA DocIs ==
    ASSUME TypeOK, plan \in Plans, NEW p \in PublishedBefore
    PROVE  /\ p \in Packages /\ Doc(p) \in OnNpm(npm, p, plan[p].next)
           /\ plan[p].next # None /\ EntryOfNpm(p) \in EntryType
           /\ EntryOfNpm(p).name = p /\ EntryOfNpm(p).version = plan[p].next
           /\ EntryOfNpm(p).dependencies = Doc(p).dependencies
           /\ EntryOfNpm(p).commit = Doc(p).commit
<1>1. p \in Packages /\ plan[p].next # None /\ PublishedAs(p) # {}
  BY DEF PublishedBefore, Releasing
<1>2. Doc(p) \in PublishedAs(p)
  BY <1>1 DEF Doc
<1>3. Doc(p) \in OnNpm(npm, p, plan[p].next)
  BY <1>2 DEF PublishedAs, OnNpm, TypeOK
<1>4. Doc(p) \in DocumentType
  BY <1>3 DEF OnNpm, TypeOK, Sound
<1>5. plan[p].next \in Known
  BY <1>1 DEF Plans, Step
<1> QED
  BY <1>1, <1>3, <1>4, <1>5 DEF EntryOfNpm, Entry, EntryType, DocumentType

LEMMA ResetUsedKnown ==
    ASSUME plan \in Plans
    PROVE  ResetUsed(plan) \in Known
<1> DEFINE T == {plan[p].reset : p \in Packages} \ {None}
<1>1. T \subseteq Known
  BY DEF Plans, Step
<1>2. ResetUsed(plan) = IF T = {} THEN None ELSE CHOOSE version \in T : TRUE
  BY DEF ResetUsed
<1> HIDE DEF T
<1> QED
  BY <1>1, <1>2, NoneKnown

\* It takes them over one after the other: the files from that of the run to the last.
TakenOver(i, st) ==
    IF Order[i] \notin PublishedBefore THEN st
    ELSE Record(st, OpenedBy(i - 1), EntryOfNpm(Order[i]), ResetUsed(plan))
GoodTaken(i, st) ==
    /\ GoodFile(st) /\ NotBelow(st) /\ (OpenedBy(i) => Opened(st))
    /\ \A j \in i + 1..Len(Order) : Cur(st, Order[j]) = Cur(state, Order[j])
TakesOver(known) ==
    /\ known[0] = state /\ known[Len(Order)] = RecordedFromNpm
    /\ \A i \in 1..Len(Order) : known[i] = TakenOver(i, known[i - 1])
    /\ \A i \in 0..Len(Order) : GoodTaken(i, known[i])

LEMMA FromNpmSteps ==
    ASSUME TypeOK, Running, Planning, \A p \in PublishedBefore : Doc(p).commit \in 1..head
    PROVE  \E known : TakesOver(known)
<1> DEFINE N == Len(Order)
           reset == ResetUsed(plan)
           Make(g, i) ==
               IF i = 0 THEN state
               ELSE IF Order[i] \notin PublishedBefore THEN g[i - 1]
               ELSE Record(g[i - 1],
                           recorded \/ \E j \in 1..i - 1 : Order[j] \in PublishedBefore,
                           Entry(Order[i], plan, Doc(Order[i]).dependencies, Doc(Order[i]).commit),
                           reset)
           known == CHOOSE g : g = [i \in 0..N |-> Make(g, i)]
           NextFile(i, st) ==
               IF Order[i] \notin PublishedBefore THEN st
               ELSE Record(st, OpenedBy(i - 1), EntryOfNpm(Order[i]), reset)
           rule == [i \in 1..N |-> [st \in Files |-> NextFile(i, st)]]
<1>1. reset \in Known /\ head \in Nat /\ branch \in Channels /\ state \in Files /\ plan \in Plans
  BY ResetUsedKnown DEF Running, GoodFile, TypeOK
<1> HIDE DEF reset
<1>2. \A i : OpenedBy(i) \in BOOLEAN
  BY DEF OpenedBy, TypeOK
<1>3. ASSUME NEW i \in 1..N, NEW st \in Files PROVE NextFile(i, st) \in Files
  <2>1. CASE Order[i] \notin PublishedBefore
    BY <2>1
  <2>2. CASE Order[i] \in PublishedBefore
    <3>1. EntryOfNpm(Order[i]) \in EntryType
      BY <1>1, <2>2, DocIs
    <3> QED
      BY <1>1, <1>2, <2>2, <3>1, RecordTyped
  <2> QED
    BY <2>1, <2>2
<1>4. rule \in Rules(N, Files)
  BY <1>3 DEF Rules
<1>5. PICK f \in [0..N -> Files] :
        f[0] = state /\ \A i \in 1..N : f[i] = rule[i][f[i - 1]]
  <2>1. N \in Nat
    BY Places
  <2> HIDE DEF rule, N
  <2>2. HasRun(N, Files, state, rule)
    BY <1>1, <1>4, <2>1, Recursion
  <2> QED
    BY <2>2 DEF HasRun
<1>6. \A i \in 1..N : f[i] = NextFile(i, f[i - 1])
  <2> SUFFICES ASSUME NEW i \in 1..N PROVE f[i] = NextFile(i, f[i - 1])
    OBVIOUS
  <2>1. f[i - 1] \in Files
    BY Places
  <2>2. rule[i][f[i - 1]] = NextFile(i, f[i - 1])
    BY <2>1
  <2> HIDE DEF rule, NextFile
  <2> QED
    BY <1>5, <2>2
<1>7. ASSUME NEW g, NEW i \in 1..N PROVE Make(g, i) = NextFile(i, g[i - 1])
  <2>1. i # 0
    BY Places
  <2> QED
    BY <2>1 DEF OpenedBy, EntryOfNpm
<1>8. f = [i \in 0..N |-> Make(f, i)]
  <2> SUFFICES ASSUME NEW i \in 0..N PROVE f[i] = Make(f, i)
    BY Zenon
  <2>1. CASE i = 0
    BY <1>5, <2>1
  <2>2. CASE i # 0
    <3>1. i \in 1..N
      BY <2>2, Places
    <3> HIDE DEF Make, NextFile
    <3> QED
      BY <1>6, <1>7, <3>1
  <2> QED
    BY <2>1, <2>2
<1>9. Make(known, 0) = state
  OBVIOUS
<1> HIDE DEF Make
<1>10. known = [i \in 0..N |-> Make(known, i)]
  BY <1>8
<1>11. RecordedFromNpm = known[N]
  BY DEF RecordedFromNpm, Make, reset
<1> HIDE DEF known
<1>12. known[0] = state /\ \A i \in 1..N : known[i] = NextFile(i, known[i - 1])
  <2>0. 0 \in 0..N /\ \A i \in 1..N : i \in 0..N
    BY Places
  <2>1. known[0] = Make(known, 0)
    BY <1>10, <2>0
  <2>2. \A i \in 1..N : known[i] = Make(known, i)
    BY <1>10, <2>0
  <2> HIDE DEF NextFile
  <2> QED
    BY <1>7, <1>9, <2>1, <2>2
<1> DEFINE Good(i, st) ==
              /\ GoodFile(st) /\ NotBelow(st) /\ (OpenedBy(i) => Opened(st))
              /\ \A j \in i + 1..N : Cur(st, Order[j]) = Cur(state, Order[j])
           S == {n \in Nat : n <= N => Good(n, known[n])}
<1>13. 0 \in S
  BY <1>12 DEF Running, OpenedBy
<1>14. ASSUME NEW n \in Nat, n \in S PROVE n + 1 \in S
  <2> SUFFICES ASSUME n + 1 <= N PROVE Good(n + 1, known[n + 1])
    OBVIOUS
  <2> DEFINE x == known[n]
             y == known[n + 1]
             q == Order[n + 1]
  <2>1. GoodFile(x) /\ NotBelow(x) /\ (OpenedBy(n) => Opened(x)) /\ n + 1 \in 1..N
        /\ \A j \in n + 1..N : Cur(x, Order[j]) = Cur(state, Order[j])
    BY <1>14, Places
  <2>2. (n + 1) - 1 = n
    OBVIOUS
  <2>3. OpenedBy(n + 1) <=> OpenedBy(n) \/ q \in PublishedBefore
    <3>1. 1..n + 1 = 1..n \cup {n + 1}
      OBVIOUS
    <3> QED
      BY <3>1 DEF OpenedBy
  <2>4. CASE q \notin PublishedBefore
    <3>1. y = x
      BY <1>12, <2>1, <2>2, <2>4
    <3>2. \A j \in n + 2..N : j \in n + 1..N
      BY Places
    <3> QED
      BY <2>1, <2>3, <2>4, <3>1, <3>2
  <2>5. CASE q \in PublishedBefore
    <3> DEFINE entry == EntryOfNpm(q)
    <3>1. y = Record(x, OpenedBy(n), entry, reset)
      BY <1>12, <2>1, <2>2, <2>5
    <3>2. /\ q \in Packages /\ Doc(q) \in OnNpm(npm, q, plan[q].next)
          /\ plan[q].next # None /\ entry \in EntryType
          /\ entry.name = q /\ entry.version = plan[q].next
          /\ entry.dependencies = Doc(q).dependencies
          /\ entry.commit = Doc(q).commit
      BY <1>1, <2>5, DocIs
    <3>3. Doc(q).commit # 0
      BY <1>1, <2>5
    <3>4. Less(Cur(x, q), plan[q].next)
      <4>1. n + 1 \in n + 1..N
        BY <2>1, Places
      <4>2. Cur(x, q) = plan[q].current
        BY <2>1, <3>2, <4>1 DEF Planning, Starts
      <4> QED
        BY <3>2, <4>2 DEF Running, Rises, Releasing
    <3> HIDE DEF entry, x, y, q
    <3>5. \E d \in OnNpm(npm, entry.name, entry.version) :
              /\ d.dependencies = entry.dependencies
              /\ d.commit = IF entry.commit = 0 THEN head ELSE entry.commit
      BY <3>2, <3>3
    <3>6. /\ GoodFile(y) /\ NotBelow(y) /\ Opened(y)
          /\ \A p \in Packages \ {q} : Cur(y, p) = Cur(x, p)
      BY <1>1, <1>2, <2>1, <3>1, <3>2, <3>4, <3>5, RecordGood
    <3>7. \A j \in n + 2..N : j \in n + 1..N /\ Order[j] \in Packages \ {q}
      BY <2>1, Places DEF q
    <3> QED
      BY <2>1, <3>6, <3>7 DEF y
  <2> QED
    BY <2>4, <2>5
<1>15. \A n \in 0..N : Good(n, known[n])
  <2> HIDE DEF S, Good
  <2>1. Nat \subseteq S
    BY <1>13, <1>14, Induct
  <2>2. \A n \in 0..N : n \in S /\ n <= N
    BY <2>1, Places
  <2> QED
    BY <2>2 DEF S
<1>16. TakesOver(known)
  <2>1. \A i \in 1..N : NextFile(i, known[i - 1]) = TakenOver(i, known[i - 1])
    BY DEF TakenOver, reset
  <2>2. \A n \in 0..N : GoodTaken(n, known[n])
    BY <1>15 DEF GoodTaken
  <2> HIDE DEF NextFile, Good
  <2> QED
    BY <1>11, <1>12, <2>1, <2>2 DEF TakesOver
<1> QED
  BY <1>16

LEMMA AllOpened ==
    ASSUME PublishedBefore # {}
    PROVE  OpenedBy(Len(Order))
<1>1. PICK p \in PublishedBefore : TRUE
  OBVIOUS
<1>2. p \in Packages
  BY DEF PublishedBefore, Releasing
<1>3. PICK j \in 1..Len(Order) : Order[j] = p
  BY <1>2, Places
<1> QED
  BY <1>3 DEF OpenedBy

LEMMA FromNpmIsGood ==
    ASSUME TypeOK, Running, Planning, \A p \in PublishedBefore : Doc(p).commit \in 1..head
    PROVE  /\ GoodFile(RecordedFromNpm) /\ NotBelow(RecordedFromNpm)
           /\ PublishedBefore # {} => Opened(RecordedFromNpm)
<1>1. PICK known : TakesOver(known)
  BY FromNpmSteps
<1>2. Len(Order) \in 0..Len(Order)
  BY Places
<1>3. GoodTaken(Len(Order), RecordedFromNpm)
  BY <1>1, <1>2 DEF TakesOver
<1> QED
  BY <1>3, AllOpened DEF GoodTaken

-----------------------------------------------------------------------------
\* The invariant: it holds at first, and each action keeps it.

LEMMA LongerLog ==
    ASSUME TypeOK, NEW more \in Seq(Commit)
    PROVE  LET new == log \o more
           IN  /\ new \in Seq(Commit) /\ Len(log) \in Nat /\ Len(new) \in Nat
               /\ Len(log) <= Len(new)
               /\ Sound(new, npm)
               /\ \A st : GoodFile(st) => SkipsNone(branch, new, st, npm)
<1> DEFINE new == log \o more
<1>1. log \in Seq(Commit) /\ Sound(log, npm)
  BY DEF TypeOK
<1>2. new \in Seq(Commit) /\ Len(log) \in Nat /\ Len(new) \in Nat /\ Len(log) <= Len(new)
  BY <1>1
<1>3. \A st : GoodFile(st) => SkipsNone(branch, new, st, npm)
  BY LogGrows
<1> HIDE DEF new
<1>4. \A d \in npm : d.built <= Len(log) => d.built <= Len(new)
  <2>1. \A d \in npm : d.built \in Nat
    BY <1>1 DEF Sound, DocumentType
  <2> QED
    BY <1>2, <2>1
<1>5. Sound(new, npm)
  BY <1>1, <1>4 DEF Sound
<1> QED
  BY <1>2, <1>3, <1>5 DEF new

LEMMA FileIsGood ==
    ASSUME RecordIsTrue
    PROVE  GoodFile(file) /\ NotBelow(file)
<1>1. file \in Files
  BY DEF RecordIsTrue, TypeOK
<1>2. \A p \in Packages : Cur(file, p) \in Version
  BY <1>1, FileFacts, NewestIs DEF Cur, Channels, Known
<1> QED
  BY <1>1, <1>2, LessOrders DEF GoodFile, NotBelow, RecordIsTrue, FileMatchesNpm, NothingSkipped

LEMMA InitHolds ==
    ASSUME Init
    PROVE  ReleaseInv
<1>1. PICK b \in Beginnings :
        /\ branch = b.branch /\ log = b.log /\ file = b.file /\ npm = b.npm
        /\ waiting = b.waiting
  BY DEF Init
<1>2. /\ branch \in Channels /\ log \in Seq(Commit) /\ waiting \in 0..Len(log)
      /\ file \in Files /\ Sound(log, npm) /\ RecordsWhat(file, npm)
      /\ SkipsNone(branch, log, file, npm) /\ HasDependencies(npm)
  BY <1>1, BeginningsAssumption
<1>3. served = npm /\ pc = "idle" /\ head = 0 /\ base = 0 /\ ahead = 0
      /\ recorded = FALSE /\ failed = FALSE
  BY DEF Init
<1>4. Len(log) \in Nat
  BY <1>2
<1>7. base \in 0..Len(log) /\ head \in 0..base /\ ahead \in Nat /\ ~(ahead > 0)
  BY <1>3, <1>4
<1>8. served \subseteq npm /\ recorded \in BOOLEAN /\ failed \in BOOLEAN
  BY <1>3
<1>5. TypeOK
  BY <1>2, <1>3, <1>7, <1>8, Zenon DEF TypeOK
<1>6. RunOK
  BY <1>3 DEF RunOK
<1> QED
  BY <1>2, <1>5, <1>6 DEF ReleaseInv, RecordIsTrue, FileMatchesNpm, NothingSkipped, Installable

\* What a run leaves behind when it ends.
LEMMA RestsFits ==
    ASSUME Rests
    PROVE  RunOK'
BY DEF Rests, RunOK

LEMMA RestsTyped ==
    ASSUME TypeOK, Rests, UNCHANGED <<branch, log, file, npm, served, waiting>>
    PROVE  TypeOK'
<1>1. base' = 0 /\ head' = 0 /\ ahead' = 0 /\ pc' = "idle" /\ recorded' = FALSE /\ failed' = FALSE
  BY DEF Rests
<1>2. Len(log) \in Nat
  BY DEF TypeOK
<1>3. base' \in 0..Len(log') /\ head' \in 0..base' /\ ahead' \in Nat /\ ~(ahead' > 0)
  BY <1>1, <1>2
<1> QED
  BY <1>1, <1>3 DEF TypeOK

LEMMA PushKeeps ==
    ASSUME ReleaseInv, NEW touched \in SUBSET Packages, NEW bump \in Bumps, Push(touched, bump)
    PROVE  ReleaseInv'
<1> DEFINE commit == [touches |-> touched, bump |-> bump]
<1>1. TypeOK /\ GoodFile(file) /\ HasDependencies(npm) /\ RunOK
  BY FileIsGood DEF ReleaseInv, RecordIsTrue, Installable
<1>2. <<commit>> \in Seq(Commit)
  <2>1. commit \in Commit
    BY BumpsAssumption DEF Commit
  <2> HIDE DEF commit
  <2> QED
    BY <2>1
<1>3. log' = log \o <<commit>> /\ waiting' = Len(log')
      /\ UNCHANGED <<branch, file, registry, run, faults>>
  <2>1. log' = Append(log, commit)
    BY DEF Push
  <2>2. log \in Seq(Commit)
    BY <1>1 DEF TypeOK
  <2> QED
    BY <1>2, <2>1, <2>2 DEF Push
<1> HIDE DEF commit
<1>4. /\ log' \in Seq(Commit) /\ Len(log) \in Nat /\ Len(log') \in Nat /\ Len(log) <= Len(log')
      /\ Sound(log', npm)
      /\ \A st : GoodFile(st) => SkipsNone(branch, log', st, npm)
  BY <1>1, <1>2, <1>3, LongerLog
<1>5. UNCHANGED <<branch, file, npm, served, pc, head, base, ahead, state, plan, left,
                  recorded, failed>>
  BY <1>3 DEF registry, run
<1>6. TypeOK'
  <2>1. base' \in 0..Len(log') /\ waiting' \in 0..Len(log')
    BY <1>1, <1>3, <1>4, <1>5 DEF TypeOK
  <2> QED
    BY <1>1, <1>4, <1>5, <2>1 DEF TypeOK
<1>7. RecordIsTrue' /\ Installable'
  BY <1>1, <1>4, <1>5, <1>6
     DEF GoodFile, RecordIsTrue, FileMatchesNpm, NothingSkipped, Installable
<1>8. RunOK'
  BY <1>1, <1>4, <1>5
     DEF RunOK, Running, GoodFile, NotBelow, Opened, Planning, Publishing, Unrecorded
<1> QED
  BY <1>7, <1>8 DEF ReleaseInv

LEMMA ServeKeeps ==
    ASSUME ReleaseInv, NEW document \in npm, Serve(document)
    PROVE  ReleaseInv'
<1>1. served' \subseteq npm'
      /\ UNCHANGED <<branch, log, file, npm, waiting, pc, head, base, ahead, state, plan, left,
                     recorded, failed>>
  BY DEF Serve, origin, run, ReleaseInv, RecordIsTrue, TypeOK
<1>2. TypeOK'
  BY <1>1 DEF ReleaseInv, RecordIsTrue, TypeOK
<1>3. RunOK'
  BY <1>1 DEF ReleaseInv, RunOK, Running, GoodFile, NotBelow, Opened, Planning, Publishing,
              Unrecorded
<1> QED
  BY <1>1, <1>2, <1>3
     DEF ReleaseInv, RecordIsTrue, FileMatchesNpm, NothingSkipped, Installable

LEMMA BeginKeeps ==
    ASSUME ReleaseInv, Begin
    PROVE  ReleaseInv'
<1> DEFINE made == BuildPlan(branch, file, log)
<1>1. TypeOK /\ GoodFile(file) /\ NotBelow(file) /\ RunOK /\ pc = "idle"
      /\ RecordIsTrue /\ Installable
  BY FileIsGood DEF ReleaseInv, RecordIsTrue, Begin
<1>2. waiting' = 0 /\ UNCHANGED <<branch, log, file, npm, served>>
  BY DEF Begin, origin, registry
<1>3. log \in Seq(Commit) /\ Len(log) \in Nat
  BY <1>1 DEF TypeOK
<1>4. (FileMatchesNpm /\ NothingSkipped /\ Installable)'
  BY <1>1, <1>2 DEF RecordIsTrue, FileMatchesNpm, NothingSkipped, Installable
<1>5. CASE UNCHANGED run
  <2>1. TypeOK' /\ RunOK'
    BY <1>1, <1>2, <1>3, <1>5 DEF TypeOK, RunOK, run
  <2> QED
    BY <1>4, <2>1 DEF ReleaseInv, RecordIsTrue
<1>6. CASE ~UNCHANGED run
  <2>1. /\ waiting # 0 /\ waiting = Len(log) /\ ~PlanErrors(made)
        /\ pc' = "reconcile" /\ head' = Len(log) /\ base' = Len(log)
        /\ state' = file /\ plan' = made
        /\ UNCHANGED <<ahead, left, recorded, failed>>
    BY <1>6 DEF Begin
  <2>2. made \in Plans /\ Starts(made, file, Packages) /\ Fits(made)
    BY <1>1, <1>3, BuildPlanIs
  <2> HIDE DEF made
  <2>3. Rises(made)
    BY <2>1, <2>2, RisesWithoutErrors
  <2>4. TypeOK'
    BY <1>1, <1>2, <1>3, <2>1 DEF TypeOK
  <2>5. recorded' = FALSE
    BY <1>1, <2>1 DEF RunOK, TypeOK
  <2>6. Running'
    BY <1>1, <1>2, <1>3, <2>1, <2>2, <2>3, <2>5 DEF Running, GoodFile, NotBelow
  <2>7. Planning'
    BY <2>1, <2>2 DEF Planning
  <2>8. RunOK'
    BY <2>1, <2>6, <2>7 DEF RunOK
  <2> QED
    BY <1>4, <2>4, <2>8 DEF ReleaseInv, RecordIsTrue
<1> QED
  BY <1>5, <1>6

LEMMA ReconcileKeeps ==
    ASSUME ReleaseInv, Reconcile
    PROVE  ReleaseInv'
<1> DEFINE new == RecordedFromNpm
           made == BuildPlan(branch, RecordedFromNpm, SubSeq(log, 1, base))
           foreign == \E p \in PublishedBefore : Doc(p).commit \notin 1..head
<1>1. /\ TypeOK /\ RecordIsTrue /\ Installable /\ RunOK /\ Running /\ Planning
      /\ pc = "reconcile"
  BY DEF ReleaseInv, RecordIsTrue, RunOK, Reconcile
<1>2. UNCHANGED <<branch, log, file, npm, served, waiting>>
  BY DEF Reconcile, origin, registry
<1>3. (FileMatchesNpm /\ NothingSkipped /\ Installable)'
  BY <1>1, <1>2 DEF RecordIsTrue, FileMatchesNpm, NothingSkipped, Installable
<1>4. CASE /\ pc' = IF recorded THEN "saveReconciled" ELSE "pinned"
           /\ UNCHANGED <<head, base, ahead, state, plan, left, recorded, failed>>
  <2>1. TypeOK'
    BY <1>1, <1>2, <1>4 DEF TypeOK
  <2>2. Running' /\ Planning'
    BY <1>1, <1>2, <1>4 DEF Running, GoodFile, NotBelow, Opened, Planning
  <2>3. RunOK'
    BY <1>4, <2>2 DEF RunOK
  <2> QED
    BY <1>3, <2>1, <2>3 DEF ReleaseInv, RecordIsTrue
<1>5. CASE Rests
  <2>1. TypeOK'
    BY <1>1, <1>2, <1>5, RestsTyped
  <2> QED
    BY <1>3, <1>5, <2>1, RestsFits DEF ReleaseInv, RecordIsTrue
<1>6. CASE /\ PublishedBefore # {} /\ ~foreign /\ ~PlanErrors(made)
           /\ state' = new /\ plan' = made /\ recorded' = TRUE
           /\ UNCHANGED <<pc, head, base, ahead, left, failed>>
  <2>1. GoodFile(new) /\ NotBelow(new) /\ Opened(new)
    BY <1>1, <1>6, FromNpmIsGood
  <2>2. SubSeq(log, 1, base) \in Seq(Commit)
    BY <1>1 DEF TypeOK
  <2>3. made \in Plans /\ Starts(made, new, Packages) /\ Fits(made)
    BY <1>1, <2>1, <2>2, BuildPlanIs
  <2> HIDE DEF made, new
  <2>4. Rises(made)
    BY <1>6, <2>3, RisesWithoutErrors
  <2>5. TypeOK'
    BY <1>1, <1>2, <1>6 DEF TypeOK
  <2>6. Running' /\ Planning'
    BY <1>1, <1>2, <1>6, <2>1, <2>3, <2>4 DEF Running, GoodFile, NotBelow, Opened, Planning
  <2>7. RunOK'
    BY <1>1, <1>6, <2>6 DEF RunOK
  <2> QED
    BY <1>3, <2>5, <2>7 DEF ReleaseInv, RecordIsTrue
<1> QED
  BY <1>4, <1>5, <1>6 DEF Reconcile

\* What a save leaves in origin and in the run, when the file of the run is good.
LEMMA PushedIs ==
    ASSUME TypeOK, NEW st, GoodFile(st), NEW n \in Nat, Pushed(st, n)
    PROVE  /\ file' = st
           /\ log' \in Seq(Commit) /\ Len(log) \in Nat /\ Len(log') \in Nat
           /\ Len(log) <= Len(log') /\ Sound(log', npm)
           /\ SkipsNone(branch, log', st, npm)
<1> DEFINE more == [i \in 1..n |-> RecordCommit]
<1>1. more \in Seq(Commit)
  <2>1. RecordCommit \in Commit
    BY DEF RecordCommit, Commit
  <2> QED
    BY <2>1
<1>2. file' = st /\ log' = log \o more
  BY DEF Pushed
<1> HIDE DEF more
<1> QED
  BY <1>1, <1>2, LongerLog

LEMMA SaveIs ==
    ASSUME TypeOK, RecordIsTrue, NEW st, GoodFile(st), Save(st, ahead + 1),
           UNCHANGED <<branch, npm>>
    PROVE  /\ log' \in Seq(Commit) /\ Sound(log', npm') /\ Len(log') \in Nat
           /\ Len(log) \in Nat /\ Len(log) <= Len(log')
           /\ base' \in 0..Len(log') /\ base <= base' /\ ahead' \in Nat
           /\ file' \in {file, st}
           /\ RecordsWhat(file', npm') /\ SkipsNone(branch', log', file', npm')
           /\ RecordsWhat(st, npm') /\ SkipsNone(branch', log', st, npm')
<1>1. log \in Seq(Commit) /\ Len(log) \in Nat /\ base \in 0..Len(log) /\ ahead \in Nat
      /\ Sound(log, npm)
  BY DEF TypeOK
<1>2. RecordsWhat(file, npm) /\ SkipsNone(branch, log, file, npm)
  BY DEF RecordIsTrue, FileMatchesNpm, NothingSkipped
<1>3. CASE Pushed(st, ahead + 1) /\ base' = Len(log') /\ ahead' = 0
  <2>1. ahead + 1 \in Nat
    BY <1>1
  <2>2. /\ file' = st
        /\ log' \in Seq(Commit) /\ Len(log) \in Nat /\ Len(log') \in Nat
        /\ Len(log) <= Len(log') /\ Sound(log', npm)
        /\ SkipsNone(branch, log', st, npm)
    BY <1>3, <2>1, PushedIs
  <2> QED
    BY <1>1, <1>3, <2>2 DEF GoodFile
<1>4. CASE base' \in {base, Len(log)} /\ ahead' = ahead + 1 /\ UNCHANGED origin
  BY <1>1, <1>2, <1>4 DEF GoodFile, origin
<1> QED
  BY <1>3, <1>4 DEF Save

LEMMA SaveReconciledKeeps ==
    ASSUME ReleaseInv, SaveReconciled
    PROVE  ReleaseInv'
<1>1. /\ TypeOK /\ RecordIsTrue /\ Installable /\ Running /\ Planning
      /\ pc = "saveReconciled" /\ recorded
  BY DEF ReleaseInv, RecordIsTrue, RunOK, SaveReconciled
<1>2. /\ UNCHANGED <<branch, npm, served, waiting, head, state, plan, left, recorded, failed>>
      /\ pc' = "pinned" /\ Save(state, ahead + 1)
  BY DEF SaveReconciled, registry
<1>3. /\ log' \in Seq(Commit) /\ Sound(log', npm') /\ Len(log') \in Nat
      /\ Len(log) \in Nat /\ Len(log) <= Len(log')
      /\ base' \in 0..Len(log') /\ base <= base' /\ ahead' \in Nat
      /\ file' \in {file, state}
      /\ RecordsWhat(file', npm') /\ SkipsNone(branch', log', file', npm')
      /\ RecordsWhat(state, npm') /\ SkipsNone(branch', log', state, npm')
  BY <1>1, <1>2, SaveIs DEF Running
<1>4. TypeOK'
  BY <1>1, <1>2, <1>3 DEF TypeOK, Running, GoodFile
<1>5. NotBelow(state)'
  <2>1. \A p \in Packages : Cur(state, p) \in Version
    BY <1>1, FileFacts, NewestIs DEF Cur, Channels, Known, Running, GoodFile
  <2> QED
    BY <1>1, <1>2, <1>3, <2>1, LessOrders DEF NotBelow, Running
<1>6. Running' /\ Planning'
  BY <1>1, <1>2, <1>3, <1>5 DEF Running, GoodFile, Opened, Planning
<1>7. RunOK'
  BY <1>2, <1>6 DEF RunOK
<1> QED
  BY <1>1, <1>2, <1>3, <1>4, <1>7
     DEF ReleaseInv, RecordIsTrue, FileMatchesNpm, NothingSkipped, Installable

LEMMA CheckPinnedKeeps ==
    ASSUME ReleaseInv, CheckPinnedDependencies
    PROVE  ReleaseInv'
<1>1. /\ TypeOK /\ RecordIsTrue /\ Installable /\ Running /\ Planning /\ pc = "pinned"
  BY DEF ReleaseInv, RecordIsTrue, RunOK, CheckPinnedDependencies
<1>2. UNCHANGED <<branch, log, file, npm, served, waiting>>
  BY DEF CheckPinnedDependencies, origin, registry
<1>3. (FileMatchesNpm /\ NothingSkipped /\ Installable)'
  BY <1>1, <1>2 DEF RecordIsTrue, FileMatchesNpm, NothingSkipped, Installable
<1>4. CASE Rests
  <2>1. TypeOK'
    BY <1>1, <1>2, <1>4, RestsTyped
  <2> QED
    BY <1>3, <1>4, <2>1, RestsFits DEF ReleaseInv, RecordIsTrue
<1>5. CASE /\ \A p \in Packages : \A d \in Deps[p] :
                 plan[p].next # None /\ plan[d].next = None =>
                    OnNpm(served, d, plan[p].dependencies[d]) # {}
           /\ pc' = "publish" /\ left' = Releasing(plan)
           /\ UNCHANGED <<head, base, ahead, state, plan, recorded, failed>>
  <2>1. TypeOK'
    BY <1>1, <1>2, <1>5 DEF TypeOK
  <2>2. Running'
    BY <1>1, <1>2, <1>5 DEF Running, GoodFile, NotBelow, Opened
  <2>3. \A d, v : OnNpm(served, d, v) # {} => OnNpm(npm, d, v) # {}
    BY <1>1 DEF TypeOK, OnNpm
  <2>4. Publishing'
    BY <1>1, <1>2, <1>5, <2>3 DEF Publishing, Planning, Starts, Releasing
  <2>5. RunOK'
    BY <1>5, <2>2, <2>4 DEF RunOK
  <2> QED
    BY <1>3, <2>1, <2>5 DEF ReleaseInv, RecordIsTrue
<1> QED
  BY <1>4, <1>5 DEF CheckPinnedDependencies

\* The package whose turn it is, and no dependency of it, is left.
LEMMA FirstIs ==
    ASSUME NEW some \in SUBSET Packages, some # {}
    PROVE  FirstOf(some) \in some /\ \A d \in Deps[FirstOf(some)] : d \in Packages \ some
<1> DEFINE I == {i \in DOMAIN Order : Order[i] \in some}
<1>1. I \subseteq Nat /\ I # {}
  BY Places
<1>2. Min(I) \in I /\ \A i \in I : Min(I) <= i
  BY <1>1, MinIs
<1> DEFINE m == Min(I)
<1>3. FirstOf(some) = Order[m] /\ m \in 1..Len(Order) /\ Order[m] \in some
  BY <1>2, Places DEF FirstOf
<1> HIDE DEF m
<1>4. ASSUME NEW d \in Deps[Order[m]] PROVE d \in Packages /\ d \notin some
  <2>1. d \in Packages
    BY <1>3, Places
  <2>2. PICK j \in 1..Len(Order) : Order[j] = d
    BY <2>1, Places
  <2>3. j < m
    BY <1>3, <2>2, Places
  <2>4. j \notin I
    <3> SUFFICES ASSUME j \in I PROVE FALSE
      OBVIOUS
    <3> HIDE DEF I
    <3>1. m <= j
      BY <1>2 DEF m
    <3> QED
      BY <1>3, <2>3, <3>1
  <2> QED
    BY <2>1, <2>2, <2>4, Places
<1> QED
  BY <1>3, <1>4

\* What is published next finds its dependencies, and no file says anything of it yet.
LEMMA PublicationFits ==
    ASSUME ReleaseInv, pc = "publish", left # {},
           OnNpm(npm, FirstOf(left), plan[FirstOf(left)].next) = {}
    PROVE  LET name == FirstOf(left)
               new  == npm \cup {Document(name)}
           IN  /\ Sound(log, new) /\ HasDependencies(new)
               /\ RecordsWhat(file, new) /\ SkipsNone(branch, log, file, new)
               /\ RecordsWhat(state, new) /\ SkipsNone(branch, log, state, new)
               /\ Document(name) \in OnNpm(new, name, plan[name].next)
               /\ \A p, v : OnNpm(npm, p, v) \subseteq OnNpm(new, p, v)
<1> DEFINE name == FirstOf(left)
           next == plan[name].next
           doc == Document(name)
           new == npm \cup {doc}
<1>1. /\ TypeOK /\ RecordIsTrue /\ Running /\ Publishing /\ HasDependencies(npm)
      /\ GoodFile(file)
  BY FileIsGood DEF ReleaseInv, RunOK, RecordIsTrue, Installable
<1>2. name \in left /\ name \in Releasing(plan) /\ name \in Packages
      /\ \A d \in Deps[name] : d \in Packages \ left
  <2>1. left \in SUBSET Packages
    BY <1>1 DEF Publishing, Releasing
  <2> QED
    BY <1>1, <2>1, FirstIs DEF Publishing
<1>3. plan[name] \in Step /\ next # None
  BY <1>1, <1>2 DEF Running, Plans, Releasing
<1>4. doc = [name |-> name, version |-> next, commit |-> head,
             dependencies |-> plan[name].dependencies, built |-> base]
  BY DEF Document
<1>5. head \in Nat /\ base \in Nat /\ head <= base /\ base <= Len(log)
  BY <1>1 DEF TypeOK
<1>6. doc \in DocumentType
  BY <1>2, <1>3, <1>4, <1>5 DEF DocumentType, Step
<1>7. doc.name = name /\ doc.version = next /\ doc.commit = head /\ doc.built = base
      /\ doc.dependencies = plan[name].dependencies
  BY <1>4
<1>8. OnNpm(npm, name, next) = {} /\ Less(Cur(state, name), next)
  BY <1>1, <1>2 DEF Publishing, Starts, Running, Rises
<1> HIDE DEF doc, next, name
<1>9. Sound(log, new)
  <2>1. Sound(log, npm)
    BY <1>1 DEF TypeOK
  <2>2. \A d \in npm : ~(d.name = name /\ d.version = next)
    BY <1>8 DEF OnNpm
  <2> QED
    BY <1>5, <1>6, <1>7, <2>1, <2>2 DEF Sound
<1>10. next # Cur(state, name) /\ next # Cur(file, name)
  <2>1. Cur(state, name) \in Version /\ Cur(file, name) \in Version /\ next \in Version
    <3>1. \A s \in Files : Cur(s, name) \in Known
      BY <1>2, FileFacts, NewestIs DEF Cur, Channels
    <3> QED
      BY <1>1, <1>3, <3>1 DEF Known, Running, GoodFile, Step, next
  <2>2. ~Less(Cur(state, name), Cur(file, name))
    BY <1>1, <1>2 DEF Running, NotBelow
  <2> QED
    BY <1>8, <2>1, <2>2, LessOrders
<1>11. RecordsWhat(file, new) /\ SkipsNone(branch, log, file, new)
  BY <1>1, <1>2, <1>7, <1>10, NpmGrows
<1>12. RecordsWhat(state, new) /\ SkipsNone(branch, log, state, new)
  BY <1>1, <1>2, <1>7, <1>10, NpmGrows DEF Running
<1>13. doc \in OnNpm(new, name, next)
  BY <1>7 DEF OnNpm
<1>14. \A p, v : OnNpm(npm, p, v) \subseteq OnNpm(new, p, v)
  BY DEF OnNpm
<1>15. HasDependencies(new)
  <2> SUFFICES ASSUME NEW d \in new, NEW dep \in Deps[d.name]
               PROVE  OnNpm(new, dep, d.dependencies[dep]) # {}
    BY DEF HasDependencies
  <2>1. CASE d \in npm
    <3>1. OnNpm(npm, dep, d.dependencies[dep]) # {}
      BY <1>1, <2>1 DEF HasDependencies
    <3> QED
      BY <1>14, <3>1
  <2>2. CASE d = doc
    <3>1. dep \in Deps[name] /\ dep \in Packages /\ dep \notin left
          /\ d.dependencies[dep] = plan[name].dependencies[dep]
      BY <1>2, <1>7, <2>2
    <3>2. CASE plan[dep].next = None
      <4>1. OnNpm(npm, dep, plan[name].dependencies[dep]) # {}
        BY <1>1, <1>2, <3>1, <3>2 DEF Publishing
      <4> QED
        BY <1>14, <3>1, <4>1
    <3>3. CASE plan[dep].next # None
      <4>1. plan[name].dependencies[dep] = plan[dep].next
        BY <1>1, <1>2, <3>1, <3>3 DEF Running, Fits
      <4>2. OnNpm(npm, dep, plan[dep].next) # {}
        BY <1>1, <3>1, <3>3 DEF Publishing, Releasing
      <4> QED
        BY <1>14, <3>1, <4>1, <4>2
    <3> QED
      BY <3>2, <3>3
  <2> QED
    BY <2>1, <2>2
<1> QED
  BY <1>9, <1>11, <1>12, <1>13, <1>14, <1>15 DEF name, next, doc

LEMMA PublishNextKeeps ==
    ASSUME ReleaseInv, PublishNext
    PROVE  ReleaseInv'
<1> DEFINE name == FirstOf(left)
           next == plan[name].next
           new  == npm \cup {Document(name)}
<1>1. /\ TypeOK /\ RecordIsTrue /\ Installable /\ Running /\ Publishing
      /\ pc = "publish" /\ left # {}
  BY DEF ReleaseInv, RecordIsTrue, RunOK, PublishNext
<1>2. UNCHANGED <<branch, log, file, served, waiting, head, base, ahead, state, plan, left,
                  recorded>>
  BY DEF PublishNext, origin
<1>3. \/ npm' = npm /\ Stops
      \/ /\ OnNpm(npm, name, next) = {} /\ npm' = new
         /\ pc' = "record" /\ UNCHANGED failed
      \/ OnNpm(npm, name, next) = {} /\ npm' = new /\ Stops
  BY DEF PublishNext
<1>4. CASE npm' = npm /\ Stops
  <2>1. TypeOK'
    BY <1>1, <1>2, <1>4 DEF TypeOK, Stops
  <2>2. Running'
    BY <1>1, <1>2, <1>4 DEF Running, GoodFile, NotBelow, Opened
  <2>3. RunOK'
    BY <1>4, <2>2 DEF RunOK, Stops
  <2>4. (FileMatchesNpm /\ NothingSkipped /\ Installable)'
    BY <1>1, <1>2, <1>4 DEF RecordIsTrue, FileMatchesNpm, NothingSkipped, Installable
  <2> QED
    BY <2>1, <2>3, <2>4 DEF ReleaseInv, RecordIsTrue
<1>5. CASE /\ OnNpm(npm, name, next) = {} /\ npm' = new
           /\ \/ pc' = "record" /\ UNCHANGED failed
              \/ Stops
  <2>1. /\ Sound(log, new) /\ HasDependencies(new)
        /\ RecordsWhat(file, new) /\ SkipsNone(branch, log, file, new)
        /\ RecordsWhat(state, new) /\ SkipsNone(branch, log, state, new)
        /\ Document(name) \in OnNpm(new, name, next)
        /\ \A p, v : OnNpm(npm, p, v) \subseteq OnNpm(new, p, v)
    BY <1>1, <1>5, PublicationFits
  <2>2. Document(name).commit = head
        /\ Document(name).dependencies = plan[name].dependencies
    BY DEF Document
  <2>3. served \subseteq new
    BY <1>1 DEF TypeOK
  <2> HIDE DEF name, next, new
  <2>4. TypeOK'
    BY <1>1, <1>2, <1>5, <2>1, <2>3 DEF TypeOK, Stops
  <2>5. Running'
    BY <1>1, <1>2, <1>5, <2>1 DEF Running, GoodFile, NotBelow, Opened
  <2>6. Publishing'
    <3>1. \A p, v : OnNpm(npm, p, v) # {} => OnNpm(npm', p, v) # {}
      BY <1>5, <2>1
    <3> QED
      BY <1>1, <1>2, <3>1 DEF Publishing, Starts
  <2>7. Unrecorded'
    BY <1>1, <1>2, <1>5, <2>1, <2>2 DEF Unrecorded, name, next
  <2>8. RunOK'
    BY <1>5, <2>5, <2>6, <2>7 DEF RunOK, Stops
  <2>9. (FileMatchesNpm /\ NothingSkipped /\ Installable)'
    BY <1>2, <1>5, <2>1 DEF FileMatchesNpm, NothingSkipped, Installable
  <2> QED
    BY <2>4, <2>8, <2>9 DEF ReleaseInv, RecordIsTrue
<1> QED
  BY <1>3, <1>4, <1>5

LEMMA RecordPublishedKeeps ==
    ASSUME ReleaseInv, RecordPublished
    PROVE  ReleaseInv'
<1> DEFINE name == FirstOf(left)
           entry == Entry(name, plan, plan[name].dependencies, 0)
           new == Record(state, recorded, entry, ResetUsed(plan))
<1>1. /\ TypeOK /\ RecordIsTrue /\ Installable /\ Running /\ Publishing /\ Unrecorded
  BY DEF ReleaseInv, RecordIsTrue, RunOK, RecordPublished
<1>2. /\ UNCHANGED <<branch, npm, served, waiting, head, plan, failed>>
      /\ pc' = "publish" /\ state' = new /\ recorded' = TRUE /\ left' = left \ {name}
      /\ Save(new, ahead + 1)
  BY DEF RecordPublished, registry
<1>3. name \in left /\ name \in Releasing(plan) /\ name \in Packages
  <2>1. left \in SUBSET Packages /\ left # {}
    BY <1>1 DEF Publishing, Releasing, Unrecorded
  <2> QED
    BY <1>1, <2>1, FirstIs DEF Publishing
<1>4. plan[name] \in Step
  BY <1>1, <1>3 DEF Running, Plans
<1>5. /\ entry \in EntryType /\ entry.name = name /\ entry.version = plan[name].next
      /\ entry.commit = 0 /\ entry.dependencies = plan[name].dependencies
  BY <1>3, <1>4 DEF Entry, EntryType, Step
<1>6. ResetUsed(plan) \in Known
  BY <1>1, ResetUsedKnown DEF Running
<1>7. PICK d \in OnNpm(npm, name, plan[name].next) :
        d.commit = head /\ d.dependencies = plan[name].dependencies
  BY <1>1 DEF Unrecorded
<1>8. Less(Cur(state, name), plan[name].next)
  BY <1>1, <1>3 DEF Publishing, Starts, Running, Rises
<1> HIDE DEF entry, name
<1>9. /\ GoodFile(new) /\ NotBelow(new) /\ Opened(new)
      /\ \A q \in Packages \ {name} : Cur(new, q) = Cur(state, q)
  <2>1. GoodFile(state) /\ NotBelow(state) /\ recorded \in BOOLEAN
        /\ (recorded => Opened(state))
    BY <1>1 DEF Running, TypeOK
  <2> QED
    BY <1>1, <1>5, <1>6, <1>7, <1>8, <2>1, RecordGood
<1> HIDE DEF new
<1>10. /\ log' \in Seq(Commit) /\ Sound(log', npm') /\ Len(log') \in Nat
       /\ Len(log) \in Nat /\ Len(log) <= Len(log')
       /\ base' \in 0..Len(log') /\ base <= base' /\ ahead' \in Nat
       /\ file' \in {file, new}
       /\ RecordsWhat(file', npm') /\ SkipsNone(branch', log', file', npm')
       /\ RecordsWhat(new, npm') /\ SkipsNone(branch', log', new, npm')
  BY <1>1, <1>2, <1>9, SaveIs
<1>11. TypeOK'
  BY <1>1, <1>2, <1>9, <1>10 DEF TypeOK, GoodFile
<1>12. NotBelow(state)'
  <2>1. \A p \in Packages : Cur(new, p) \in Version
    BY <1>9, FileFacts, NewestIs DEF Cur, Channels, Known, GoodFile
  <2> QED
    BY <1>2, <1>9, <1>10, <2>1, LessOrders DEF NotBelow
<1>13. Running'
  BY <1>1, <1>2, <1>9, <1>10, <1>12 DEF Running, GoodFile, Opened
<1>14. Publishing'
  <2>1. Starts(plan, new, left \ {name})
    <3>1. left \subseteq Packages
      BY <1>1 DEF Publishing, Releasing
    <3> QED
      BY <1>1, <1>9, <3>1 DEF Publishing, Starts
  <2>2. \A p \in Releasing(plan) \ (left \ {name}) : OnNpm(npm, p, plan[p].next) # {}
    BY <1>1, <1>7 DEF Publishing
  <2> QED
    BY <1>1, <1>2, <2>1, <2>2 DEF Publishing
<1>15. RunOK'
  BY <1>2, <1>13, <1>14 DEF RunOK
<1> QED
  BY <1>1, <1>2, <1>10, <1>11, <1>15
     DEF ReleaseInv, RecordIsTrue, FileMatchesNpm, NothingSkipped, Installable

LEMMA AllPublishedKeeps ==
    ASSUME ReleaseInv, AllPublished
    PROVE  ReleaseInv'
<1>1. /\ UNCHANGED <<branch, log, file, npm, served, waiting, head, base, ahead, state, plan,
                     left, recorded, failed>>
      /\ pc = "publish" /\ pc' = "finish"
  BY DEF AllPublished, origin, registry
<1>2. TypeOK'
  BY <1>1 DEF ReleaseInv, RecordIsTrue, TypeOK
<1>3. RunOK'
  BY <1>1 DEF ReleaseInv, RunOK, Running, GoodFile, NotBelow, Opened
<1> QED
  BY <1>1, <1>2, <1>3
     DEF ReleaseInv, RecordIsTrue, FileMatchesNpm, NothingSkipped, Installable

LEMMA FinishKeeps ==
    ASSUME ReleaseInv, Finish
    PROVE  ReleaseInv'
<1>1. TypeOK /\ RecordIsTrue /\ Installable /\ Running
  BY DEF ReleaseInv, RecordIsTrue, RunOK, Finish
<1>2. UNCHANGED <<branch, npm, served, waiting>> /\ Rests
  BY DEF Finish, registry
<1>3. CASE Pushed(state, ahead)
  <2>1. /\ file' = state
        /\ log' \in Seq(Commit) /\ Len(log) \in Nat /\ Len(log') \in Nat
        /\ Len(log) <= Len(log') /\ Sound(log', npm)
        /\ SkipsNone(branch, log', state, npm)
    BY <1>1, <1>3, PushedIs DEF Running, TypeOK
  <2>2. base' = 0 /\ head' = 0 /\ ahead' = 0 /\ pc' = "idle"
        /\ recorded' = FALSE /\ failed' = FALSE
    BY <1>2 DEF Rests
  <2>3. base' \in 0..Len(log') /\ head' \in 0..base' /\ waiting' \in 0..Len(log')
    BY <1>1, <1>2, <2>1, <2>2 DEF TypeOK
  <2>5. ahead' \in Nat /\ ~(ahead' > 0)
    BY <2>2
  <2>6. branch' \in Channels /\ served' \subseteq npm' /\ file' \in Files /\ Sound(log', npm')
    BY <1>1, <1>2, <2>1 DEF TypeOK, Running, GoodFile
  <2>4. TypeOK'
    BY <2>1, <2>2, <2>3, <2>5, <2>6 DEF TypeOK
  <2> QED
    BY <1>1, <1>2, <2>1, <2>4, RestsFits
       DEF ReleaseInv, RecordIsTrue, FileMatchesNpm, NothingSkipped, Installable, Running,
           GoodFile
<1>4. CASE UNCHANGED <<log, file>>
  <2>1. TypeOK'
    BY <1>1, <1>2, <1>4, RestsTyped
  <2> QED
    BY <1>1, <1>2, <1>4, <2>1, RestsFits
       DEF ReleaseInv, RecordIsTrue, FileMatchesNpm, NothingSkipped, Installable
<1> QED
  BY <1>3, <1>4 DEF Finish, origin

LEMMA DiesKeeps ==
    ASSUME ReleaseInv, Dies
    PROVE  ReleaseInv'
<1>1. UNCHANGED <<branch, log, file, npm, served, waiting>> /\ Rests
  BY DEF Dies, origin, registry
<1>2. TypeOK'
  BY <1>1, RestsTyped DEF ReleaseInv, RecordIsTrue
<1> QED
  BY <1>1, <1>2, RestsFits
     DEF ReleaseInv, RecordIsTrue, FileMatchesNpm, NothingSkipped, Installable

LEMMA NextKeeps ==
    ASSUME ReleaseInv, [Next]_vars
    PROVE  ReleaseInv'
<1>1. CASE UNCHANGED vars
  <2>1. UNCHANGED <<branch, log, file, npm, served, waiting, pc, head, base, ahead, state, plan,
                    left, recorded, failed>>
    BY <1>1 DEF vars, origin, registry, run
  <2>2. RunOK'
    BY <2>1 DEF ReleaseInv, RunOK, Running, GoodFile, NotBelow, Opened, Planning, Publishing,
                Unrecorded
  <2>3. TypeOK'
    BY <2>1 DEF ReleaseInv, RecordIsTrue, TypeOK
  <2> QED
    BY <2>1, <2>2, <2>3
       DEF ReleaseInv, RecordIsTrue, FileMatchesNpm, NothingSkipped, Installable
<1>2. ASSUME NEW touched \in SUBSET Packages \ {{}}, NEW bump \in Bumps, Push(touched, bump)
      PROVE  ReleaseInv'
  BY <1>2, PushKeeps
<1>3. ASSUME NEW document \in npm, Serve(document) PROVE ReleaseInv'
  BY <1>3, ServeKeeps
<1> QED
  BY <1>1, <1>2, <1>3, BeginKeeps, ReconcileKeeps, SaveReconciledKeeps, CheckPinnedKeeps,
     PublishNextKeeps, RecordPublishedKeeps, AllPublishedKeeps, FinishKeeps, DiesKeeps DEF Next

\* Whatever is pushed, fails or dies, the run has a file as good as the branch's, a plan
\* that fits it, and has left on npm only what it can go on from
\* (scripts/release.js:145-330).
THEOREM ReleaseHolds == Spec => []ReleaseInv
<1>1. Init => ReleaseInv
  BY InitHolds
<1>2. ReleaseInv /\ [Next]_vars => ReleaseInv'
  BY NextKeeps
<1> QED
  BY <1>1, <1>2, PTL DEF Spec

\* releases.json says of every version it records what npm has, and the next plan skips
\* no commit that is not in what was published.
THEOREM RecordsAreTrue == Spec => []RecordIsTrue
<1>1. ReleaseInv => RecordIsTrue
  BY DEF ReleaseInv
<1> QED
  BY <1>1, ReleaseHolds, PTL

\* Whatever fails, npm has every version that a published package depends on.
THEOREM EveryPackageInstalls == Spec => []Installable
<1>1. ReleaseInv => Installable
  BY DEF ReleaseInv
<1> QED
  BY <1>1, ReleaseHolds, PTL

-----------------------------------------------------------------------------

\* What the versions of a channel are rounded up to: for a bump, the prereleases not below
\* what it asks for, and the stable versions that it leaves.
AsksFor(stable, bump, v) == v \in Version /\ v.pre # 0 /\ ~BaseLess(v, Increment(stable, bump))
Whole(bump, v) == (bump >= 2 => v.patch = 0) /\ (bump = 3 => v.minor = 0)
Reached(pending, stable, bump, v) ==
    pending.pre # 0 /\ v = Stable(pending) /\ ~BaseLess(pending, Increment(stable, bump))

LEMMA AlphaIs ==
    \A v \in Version, m \in Nat :
        /\ Alpha(v, m) \in Version /\ Alpha(v, m).major = v.major
        /\ Alpha(v, m).minor = v.minor /\ Alpha(v, m).patch = v.patch /\ Alpha(v, m).pre = m
BY DEF Alpha, Version

LEMMA AlphaNext ==
    ASSUME NEW f \in Version, f # None, NEW s \in Version,
           f.pre = 0 => f = s, NEW b \in 1..3
    PROVE  LET n == NextVersion(f, s, b, TRUE)
           IN  /\ AsksFor(s, b, n) /\ Less(f, n)
               /\ \A x : AsksFor(s, b, x) /\ Less(f, x) => ~Less(x, n)
<1> DEFINE floor == Increment(s, b)
           n == NextVersion(f, s, b, TRUE)
<1>1. floor \in Version /\ BaseLess(s, floor) /\ floor.pre = 0
  BY DEF Increment, Base, Version, BaseLess
<1> HIDE DEF floor
<1>2. CASE f.pre # 0 /\ ~BaseLess(f, floor)
  <2>1. BaseLess(s, f)
    BY <1>1, <1>2 DEF BaseLess, Version
  <2>2. n = Alpha(f, f.pre + 1)
    BY <1>2, <2>1 DEF NextVersion, floor
  <2>3. n \in Version /\ n.major = f.major /\ n.minor = f.minor /\ n.patch = f.patch
        /\ n.pre = f.pre + 1
    <3>1. f.pre + 1 \in Nat
      BY DEF Version
    <3> HIDE DEF n
    <3> QED
      BY <2>2, <3>1, AlphaIs
  <2> HIDE DEF n
  <2>4. AsksFor(s, b, n) /\ Less(f, n)
    BY <1>1, <1>2, <2>3 DEF AsksFor, Less, BaseLess, Version, floor
  <2>5. ASSUME NEW x \in Version, x.pre # 0, Less(f, x) PROVE ~Less(x, n)
    BY <1>2, <2>3, <2>5 DEF Less, BaseLess, Version
  <2> QED
    BY <2>4, <2>5 DEF AsksFor, n
<1>3. CASE f.pre = 0 \/ BaseLess(f, floor)
  <2>1. BaseLess(f, floor)
    BY <1>1, <1>3
  <2>2. n = Alpha(floor, 1)
    BY <1>3, <2>1 DEF NextVersion, floor
  <2>3. n \in Version /\ n.major = floor.major /\ n.minor = floor.minor
        /\ n.patch = floor.patch /\ n.pre = 1
    <3> HIDE DEF n
    <3> QED
      BY <1>1, <2>2, AlphaIs
  <2> HIDE DEF n
  <2>4. AsksFor(s, b, n) /\ Less(f, n)
    BY <1>1, <2>1, <2>3 DEF AsksFor, Less, BaseLess, Version, floor
  <2>5. ASSUME NEW x \in Version, x.pre # 0, ~BaseLess(x, floor) PROVE ~Less(x, n)
    BY <1>1, <2>3, <2>5 DEF Less, BaseLess, Version
  <2> QED
    BY <2>4, <2>5 DEF AsksFor, n, floor
<1> QED
  BY <1>2, <1>3

LEMMA IncrementIs ==
    ASSUME NEW s \in Version, s.pre = 0, NEW b \in 1..3
    PROVE  LET n == Increment(s, b)
           IN  /\ n \in Version /\ n.pre = 0 /\ Whole(b, n) /\ BaseLess(s, n)
               /\ \A x \in Version : x.pre = 0 /\ Whole(b, x) /\ BaseLess(s, x) => ~BaseLess(x, n)
<1>1. CASE b = 1
  BY <1>1 DEF Increment, Base, Version, BaseLess, Whole
<1>2. CASE b = 2
  BY <1>2 DEF Increment, Base, Version, BaseLess, Whole
<1>3. CASE b = 3
  BY <1>3 DEF Increment, Base, Version, BaseLess, Whole
<1> QED
  BY <1>1, <1>2, <1>3

LEMMA StableNext ==
    ASSUME NEW f \in Known, f # None, NEW s \in Version, s.pre = 0, ~Less(f, s),
           f.pre = 0 => f = s, NEW b \in 1..3
    PROVE  LET n == NextVersion(f, s, b, FALSE)
           IN  /\ n \in Version /\ n.pre = 0 /\ (Whole(b, n) \/ Reached(f, s, b, n)) /\ Less(f, n)
               /\ \A x \in Version : /\ x.pre = 0 /\ Less(f, x)
                                     /\ Whole(b, x) \/ Reached(f, s, b, x)
                                     => ~Less(x, n)
<1> DEFINE floor == Increment(s, b)
           n == NextVersion(f, s, b, FALSE)
<1>1. /\ floor \in Version /\ floor.pre = 0 /\ Whole(b, floor) /\ BaseLess(s, floor)
      /\ \A x \in Version : x.pre = 0 /\ Whole(b, x) /\ BaseLess(s, x) => ~BaseLess(x, floor)
  BY IncrementIs
<1> HIDE DEF floor
<1>0. f \in Version
  BY DEF Known
<1>2. CASE f.pre # 0
  <2>1. BaseLess(s, f)
    BY <1>0, <1>2 DEF Less, BaseLess, Version
  <2>2. CASE ~BaseLess(f, floor)
    <3>1. n = Stable(f)
      BY <1>2, <2>1, <2>2 DEF NextVersion, floor
    <3>2. n \in Version /\ n.major = f.major /\ n.minor = f.minor /\ n.patch = f.patch
          /\ n.pre = 0
      <4>1. n = Alpha(f, 0)
        BY <1>0, <3>1 DEF Stable, Alpha
      <4> HIDE DEF n
      <4> QED
        BY <1>0, <4>1, AlphaIs
    <3> HIDE DEF n
    <3>3. Reached(f, s, b, n)
      BY <1>2, <2>2, <3>1 DEF Reached, floor
    <3>4. Less(f, n)
      BY <1>0, <1>2, <3>2 DEF Less, BaseLess, Version
    <3>5. ASSUME NEW x \in Version, x.pre = 0, Less(f, x) PROVE ~Less(x, n)
      BY <1>0, <1>2, <3>2, <3>5 DEF Less, BaseLess, Version
    <3> QED
      BY <3>2, <3>3, <3>4, <3>5 DEF n
  <2>3. CASE BaseLess(f, floor)
    <3>1. n = floor
      BY <1>2, <2>1, <2>3 DEF NextVersion, floor
    <3> HIDE DEF n
    <3>2. Less(f, n)
      BY <2>3, <3>1 DEF Less
    <3>3. ASSUME NEW x \in Version, x.pre = 0, Less(f, x), Whole(b, x) PROVE ~Less(x, n)
      <4>1. BaseLess(s, x)
        BY <1>0, <2>1, <3>3 DEF Less, BaseLess, Version
      <4>2. ~BaseLess(x, floor)
        BY <1>1, <3>3, <4>1
      <4> QED
        BY <3>1, <3>3, <4>2 DEF Less
    <3>4. \A x : ~Reached(f, s, b, x)
      BY <2>3 DEF Reached, floor
    <3> QED
      BY <1>1, <3>1, <3>2, <3>3, <3>4 DEF n
  <2> QED
    BY <2>2, <2>3
<1>3. CASE f.pre = 0
  <2>1. f = s /\ ~BaseLess(s, f)
    BY <1>3 DEF BaseLess, Version
  <2>2. n = floor
    BY <1>3, <2>1 DEF NextVersion, floor
  <2> HIDE DEF n
  <2>3. Less(f, n)
    BY <1>1, <2>1, <2>2 DEF Less
  <2>4. \A x : ~Reached(f, s, b, x)
    BY <1>3 DEF Reached
  <2>5. ASSUME NEW x \in Version, x.pre = 0, Less(f, x), Whole(b, x) PROVE ~Less(x, n)
    <3>1. BaseLess(s, x)
      BY <1>3, <2>1, <2>5 DEF Less
    <3>2. ~BaseLess(x, floor)
      BY <1>1, <2>5, <3>1
    <3> QED
      BY <2>2, <2>5, <3>2 DEF Less
  <2> QED
    BY <1>1, <2>2, <2>3, <2>4, <2>5 DEF n
<1> QED
  BY <1>2, <1>3

\* A bump that is higher asks for no less.
LEMMA HigherAsks ==
    ASSUME NEW s \in Version, NEW b \in 1..3, NEW c \in 1..3, b <= c, NEW x
    PROVE  /\ AsksFor(s, c, x) => AsksFor(s, b, x)
           /\ Whole(c, x) => Whole(b, x)
           /\ \A f \in Version : Reached(f, s, c, x) => Reached(f, s, b, x)
<1>1. ASSUME NEW v \in Version, ~BaseLess(v, Increment(s, c))
      PROVE  ~BaseLess(v, Increment(s, b))
  <2>1. CASE b = c
    BY <1>1, <2>1
  <2>2. CASE b = 1 /\ c = 2
    BY <1>1, <2>2 DEF Increment, Base, Version, BaseLess
  <2>3. CASE b = 1 /\ c = 3
    BY <1>1, <2>3 DEF Increment, Base, Version, BaseLess
  <2>4. CASE b = 2 /\ c = 3
    BY <1>1, <2>4 DEF Increment, Base, Version, BaseLess
  <2> QED
    BY <2>1, <2>2, <2>3, <2>4
<1>2. Whole(c, x) => Whole(b, x)
  BY DEF Whole
<1> QED
  BY <1>1, <1>2 DEF AsksFor, Reached

\* The version that a reset gives a package, None when it takes part in none.
ResetOf(st, p) ==
    CASE st.deploys = <<>> -> ResetVersion(st, branch)
      [] st.deploys # <<>> /\ BaselineFor(st, p, branch).commit = 0 -> PendingReset(st, branch)
      [] OTHER -> None

\* A point that a package is published from: the version, the commit it stands for and the
\* next version for each bump.  Files have one for each package; the documents of npm above
\* the one of the branch are points that a run may take over.
Nexts(v, stable, reset) ==
    [b \in 1..3 |-> IF reset # None THEN reset ELSE NextVersion(v, stable, b, Prereleases(branch))]
PointOf(st, p) ==
    [version |-> Cur(st, p), commit |-> BaselineFor(st, p, branch).commit,
     next |-> Nexts(Cur(st, p), st.packages[p]["release"], ResetOf(st, p))]
StableAt(p, v) == IF Prereleases(branch) THEN file.packages[p]["release"] ELSE v
PointAt(d) ==
    [version |-> d.version, commit |-> d.commit,
     next |-> Nexts(d.version, StableAt(d.name, d.version), None)]
Above(p) == {d \in npm : d.name = p /\ Less(Cur(file, p), d.version)}
Points(p) == {PointOf(file, p)} \cup {PointAt(d) : d \in Above(p)}

Proper(p) == \A d \in Above(p) : OfChannel(d.version, branch)

\* The package has the same next version whatever is asked for.
Fixed(p) == ResetOf(file, p) # None \/ Cur(file, p) = None

\* What the next versions of a package are rounded up to.
Level(p, b, x) ==
    LET stable == file.packages[p]["release"]
    IN  IF Prereleases(branch) THEN AsksFor(stable, b, x)
        ELSE /\ x \in Version /\ x.pre = 0
             /\ Whole(b, x) \/ (~Fixed(p) /\ Reached(Cur(file, p), stable, b, x))
RoundsUp(p, f) ==
    \A b \in 1..3 :
       /\ Level(p, b, f.next[b]) /\ Less(f.version, f.next[b])
       /\ \A x : Level(p, b, x) /\ Less(f.version, x) => ~Less(x, f.next[b])

\* The versions of a package in a file.
LEMMA VersionsIn ==
    ASSUME NEW st \in Files, ChannelsApart(branch, st), NEW p \in Packages
    PROVE  LET m == st.packages[p]["main"]
               s == st.packages[p]["release"]
           IN  /\ m \in Known /\ s \in Known /\ m \in Version /\ s \in Version
               /\ s.pre = 0 /\ (m = None \/ m.pre # 0)
               /\ Cur(st, p) = Newest(m, s) /\ Cur(st, p) \in {m, s}
               /\ Cur(st, p) \in Known /\ Cur(st, p) \in Version
               /\ ~Less(Cur(st, p), s) /\ ~Less(Cur(st, p), m)
               /\ (Cur(st, p).pre = 0 /\ Cur(st, p) # None => Cur(st, p) = s)
<1> DEFINE m == st.packages[p]["main"]
           s == st.packages[p]["release"]
<1>1. m \in Known /\ s \in Known
  BY FileFacts DEF Channels
<1>2. m \in Version /\ s \in Version
  BY <1>1 DEF Known
<1>3. (m # None => m.pre # 0) /\ (s # None => s.pre = 0)
  BY DEF ChannelsApart, OfChannel, Channels, Prereleases
<1>4. s.pre = 0
  BY <1>3, NoneKnown
<1>5. Cur(st, p) = Newest(m, s)
  BY DEF Cur
<1> HIDE DEF m, s
<1>6. /\ Newest(m, s) \in {m, s} /\ Newest(m, s) \in Known
      /\ ~Less(Newest(m, s), m) /\ ~Less(Newest(m, s), s)
  BY <1>1, NewestIs
<1> QED
  BY <1>1, <1>2, <1>3, <1>4, <1>5, <1>6 DEF m, s, Known

LEMMA NextsAre ==
    ASSUME NEW v, NEW s, NEW r, NEW b \in 1..3
    PROVE  Nexts(v, s, r)[b] = IF r # None THEN r ELSE NextVersion(v, s, b, Prereleases(branch))
BY DEF Nexts

LEMMA DocRounds ==
    ASSUME TypeOK, ChannelsApart(branch, file), NEW p \in Packages, Proper(p), NEW d \in Above(p)
    PROVE  RoundsUp(p, PointAt(d))
<1> DEFINE v == d.version
           s == file.packages[p]["release"]
           c == Cur(file, p)
<1>1. d \in DocumentType /\ d.name = p /\ Less(c, v)
  BY DEF Above, TypeOK, Sound
<1>2. v \in Known /\ v # None /\ v \in Version
  BY <1>1 DEF DocumentType, Known
<1>3. OfChannel(v, branch)
  BY DEF Proper
<1>4. /\ s \in Known /\ s \in Version /\ s.pre = 0 /\ c \in Version
      /\ ~Less(c, s)
  BY VersionsIn DEF TypeOK
<1> SUFFICES ASSUME NEW b \in 1..3
             PROVE  LET n == NextVersion(v, StableAt(p, v), b, Prereleases(branch))
                    IN  /\ Level(p, b, n) /\ Less(v, n)
                        /\ \A x : Level(p, b, x) /\ Less(v, x) => ~Less(x, n)
  BY <1>1, NextsAre DEF RoundsUp, PointAt
<1> HIDE DEF v, s, c
<1>5. CASE Prereleases(branch)
  <2>1. v.pre # 0 /\ StableAt(p, v) = s
    BY <1>3, <1>5 DEF OfChannel, StableAt, s
  <2>2. LET n == NextVersion(v, s, b, TRUE)
        IN  /\ AsksFor(s, b, n) /\ Less(v, n)
            /\ \A x : AsksFor(s, b, x) /\ Less(v, x) => ~Less(x, n)
    BY <1>2, <1>4, <2>1, AlphaNext
  <2>3. \A x : Level(p, b, x) <=> AsksFor(s, b, x)
    BY <1>5 DEF Level, s
  <2>4. Prereleases(branch) = TRUE
    BY <1>5 DEF Prereleases
  <2> QED
    BY <2>1, <2>2, <2>3, <2>4
<1>6. CASE ~Prereleases(branch)
  <2>1. v.pre = 0 /\ StableAt(p, v) = v
    BY <1>2, <1>3, <1>6 DEF OfChannel, StableAt, Known, Version
  <2>2. ~Less(v, v)
    BY <1>2, LessOrders
  <2>3. LET n == NextVersion(v, v, b, FALSE)
        IN  /\ n \in Version /\ n.pre = 0 /\ (Whole(b, n) \/ Reached(v, v, b, n)) /\ Less(v, n)
            /\ \A x \in Version : /\ x.pre = 0 /\ Less(v, x)
                                  /\ Whole(b, x) \/ Reached(v, v, b, x)
                                  => ~Less(x, n)
    BY <1>2, <2>1, <2>2, StableNext
  <2>4. \A x : ~Reached(v, v, b, x)
    BY <2>1 DEF Reached
  <2>5. ASSUME NEW x \in Version, Reached(c, s, b, x) PROVE ~Less(v, x)
    <3>1. c.pre # 0 /\ x = Stable(c)
      BY <2>5 DEF Reached
    <3>2. x.major = c.major /\ x.minor = c.minor /\ x.patch = c.patch /\ x.pre = 0
      <4>1. x = Alpha(c, 0)
        BY <3>1 DEF Stable, Alpha
      <4> QED
        BY <1>4, <4>1, AlphaIs
    <3> QED
      BY <1>1, <1>2, <1>4, <2>1, <3>1, <3>2 DEF Less, BaseLess, Version, c, v
  <2>6. \A x : Level(p, b, x) <=>
          /\ x \in Version /\ x.pre = 0 /\ (Whole(b, x) \/ (~Fixed(p) /\ Reached(c, s, b, x)))
    BY <1>6 DEF Level, s, c
  <2>7. Prereleases(branch) = FALSE
    BY <1>6 DEF Prereleases
  <2> QED
    BY <2>1, <2>3, <2>4, <2>5, <2>6, <2>7
<1> QED
  BY <1>5, <1>6

LEMMA FileRounds ==
    ASSUME TypeOK, ChannelsApart(branch, file), NEW p \in Packages, ~Fixed(p)
    PROVE  RoundsUp(p, PointOf(file, p))
<1> DEFINE v == Cur(file, p)
           s == file.packages[p]["release"]
<1>1. ResetOf(file, p) = None /\ v # None
  BY DEF Fixed
<1>2. /\ s \in Version /\ s.pre = 0 /\ v \in Known /\ v \in Version
      /\ ~Less(v, s) /\ (v.pre = 0 => v = s)
  BY <1>1, VersionsIn DEF TypeOK
<1> SUFFICES ASSUME NEW b \in 1..3
             PROVE  LET n == NextVersion(v, s, b, Prereleases(branch))
                    IN  /\ Level(p, b, n) /\ Less(v, n)
                        /\ \A x : Level(p, b, x) /\ Less(v, x) => ~Less(x, n)
  BY <1>1, NextsAre DEF RoundsUp, PointOf
<1>5. CASE Prereleases(branch)
  <2>2. LET n == NextVersion(v, s, b, TRUE)
        IN  /\ AsksFor(s, b, n) /\ Less(v, n)
            /\ \A x : AsksFor(s, b, x) /\ Less(v, x) => ~Less(x, n)
    BY <1>1, <1>2, AlphaNext
  <2>3. \A x : Level(p, b, x) <=> AsksFor(s, b, x)
    BY <1>5 DEF Level
  <2>4. Prereleases(branch) = TRUE
    BY <1>5 DEF Prereleases
  <2> QED
    BY <2>2, <2>3, <2>4
<1>6. CASE ~Prereleases(branch)
  <2>3. LET n == NextVersion(v, s, b, FALSE)
        IN  /\ n \in Version /\ n.pre = 0 /\ (Whole(b, n) \/ Reached(v, s, b, n)) /\ Less(v, n)
            /\ \A x \in Version : /\ x.pre = 0 /\ Less(v, x)
                                  /\ Whole(b, x) \/ Reached(v, s, b, x)
                                  => ~Less(x, n)
    BY <1>1, <1>2, StableNext
  <2>6. \A x : Level(p, b, x) <=>
          /\ x \in Version /\ x.pre = 0 /\ (Whole(b, x) \/ Reached(v, s, b, x))
    BY <1>6 DEF Level
  <2>7. Prereleases(branch) = FALSE
    BY <1>6 DEF Prereleases
  <2> QED
    BY <2>3, <2>6, <2>7
<1> QED
  BY <1>5, <1>6

LEMMA HigherLevel ==
    ASSUME TypeOK, ChannelsApart(branch, file), NEW p \in Packages,
           NEW b \in 1..3, NEW c \in 1..3, b <= c, NEW x, Level(p, c, x)
    PROVE  Level(p, b, x)
<1> DEFINE s == file.packages[p]["release"]
<1>1. s \in Version /\ Cur(file, p) \in Version
  BY VersionsIn DEF TypeOK
<1>2. /\ AsksFor(s, c, x) => AsksFor(s, b, x)
      /\ Whole(c, x) => Whole(b, x)
      /\ \A f \in Version : Reached(f, s, c, x) => Reached(f, s, b, x)
  BY <1>1, HigherAsks
<1> QED
  BY <1>1, <1>2 DEF Level

\* A package in a reset is first published at its version, whatever else is.
FixedFirst(p) ==
    Fixed(p) => \A x \in Above(p) : ~Less(x.version, PointOf(file, p).next[1])

\* What a file goes on to: one version whatever is asked for in a reset.
LEMMA FixedSame ==
    ASSUME TypeOK, ChannelsApart(branch, file), NEW p \in Packages, Fixed(p)
    PROVE  \A k \in 1..3 : PointOf(file, p).next[k] = PointOf(file, p).next[1]
<1>1. \A k \in 1..3 : PointOf(file, p).next[k] =
         IF ResetOf(file, p) # None THEN ResetOf(file, p)
         ELSE NextVersion(Cur(file, p), file.packages[p]["release"], k, Prereleases(branch))
  BY NextsAre DEF PointOf
<1>2. CASE ResetOf(file, p) # None
  BY <1>1, <1>2
<1>3. CASE ResetOf(file, p) = None
  <2>1. Cur(file, p) = None
    BY <1>3 DEF Fixed
  <2>2. file.packages[p]["release"] = None
    <3>1. /\ file.packages[p]["release"] \in Known /\ file.packages[p]["release"] \in Version
          /\ ~Less(None, file.packages[p]["release"])
      BY <2>1, VersionsIn DEF TypeOK
    <3> QED
      BY <3>1, NoneFirst
  <2>3. \A k \in 1..3 : NextVersion(None, None, k, Prereleases(branch)) =
           IF Prereleases(branch) THEN Alpha(Base(1, 0, 0), 1) ELSE Base(1, 0, 0)
    BY NoneKnown DEF NextVersion
  <2> QED
    BY <1>1, <1>3, <2>1, <2>2, <2>3
<1> QED
  BY <1>2, <1>3

LEMMA FileNextKnown ==
    ASSUME TypeOK, ChannelsApart(branch, file), NEW p \in Packages, NEW b \in 1..3
    PROVE  PointOf(file, p).next[b] \in Known
<1>1. file.packages[p]["release"] \in Known /\ Cur(file, p) \in Known
  BY VersionsIn DEF TypeOK
<1>2. ResetOf(file, p) \in Known
  <2>1. Packages # {} /\ file \in Files
    BY DEF TypeOK
  <2>2. ResetVersion(file, branch) \in Known /\ PendingReset(file, branch) \in Known
    BY <2>1, ResetKnown, PendingKnown
  <2> QED
    BY <2>2, NoneKnown DEF ResetOf
<1>3. NextVersion(Cur(file, p), file.packages[p]["release"], b, Prereleases(branch)) \in Known
  <2>1. Prereleases(branch) \in BOOLEAN /\ b \in 0..3
    BY DEF Prereleases
  <2> QED
    BY <1>1, <2>1, NextKnown
<1>4. PointOf(file, p).next[b] =
        IF ResetOf(file, p) # None THEN ResetOf(file, p)
        ELSE NextVersion(Cur(file, p), file.packages[p]["release"], b, Prereleases(branch))
  BY NextsAre DEF PointOf
<1> QED
  BY <1>2, <1>3, <1>4

\* From a point that a next version is above, it is reached for no higher a bump.
LEMMA Rounds ==
    ASSUME TypeOK, ChannelsApart(branch, file), NEW p \in Packages, Proper(p), FixedFirst(p),
           NEW f \in Points(p), NEW g \in Points(p), NEW b \in 1..3, NEW c \in 1..3, b <= c,
           Less(g.version, f.next[c])
    PROVE  ~Less(f.next[c], g.next[b])
<1> DEFINE o == PointOf(file, p)
           r == o.next[1]
<1>1. ASSUME Fixed(p) PROVE \A k \in 1..3 : o.next[k] = r
  BY <1>1, FixedSame
<1>2. o.version = Cur(file, p)
  BY DEF PointOf
<1>3. \A d \in Above(p) : PointAt(d).version = d.version /\ RoundsUp(p, PointAt(d))
  BY DocRounds DEF PointAt
<1>4. \A d \in Above(p) : d.version \in Version /\ Less(Cur(file, p), d.version)
  BY DEF Above, TypeOK, Sound, DocumentType, Known
<1>5. ~Fixed(p) => RoundsUp(p, o)
  BY FileRounds
<1>10. r \in Known
  BY FileNextKnown
<1> HIDE DEF o, r
<1>6. (f = o \/ \E d \in Above(p) : f = PointAt(d)) /\ (g = o \/ \E d \in Above(p) : g = PointAt(d))
  BY DEF Points, o
<1>7. CASE RoundsUp(p, f) /\ RoundsUp(p, g)
  <2>1. Level(p, c, f.next[c])
    BY <1>7 DEF RoundsUp
  <2>2. Level(p, b, f.next[c])
    BY <2>1, HigherLevel
  <2> QED
    BY <1>7, <2>2 DEF RoundsUp
<1>8. CASE Fixed(p) /\ f = o
  <2>1. f.next[c] = r
    BY <1>1, <1>8
  <2>2. g = o
    <3> SUFFICES ASSUME NEW d \in Above(p), g = PointAt(d) PROVE FALSE
      BY <1>6
    <3>1. ~Less(d.version, r)
      BY <1>8 DEF FixedFirst, r, o
    <3> QED
      BY <1>3, <2>1, <3>1
  <2>3. g.next[b] = r
    BY <1>1, <1>8, <2>2
  <2> QED
    BY <1>10, <2>1, <2>3, LessOrders DEF Known
<1>9. CASE Fixed(p) /\ f # o /\ g = o
  <2>1. PICK d \in Above(p) : f = PointAt(d)
    BY <1>6, <1>9
  <2>2. ~Less(d.version, r) /\ g.next[b] = r
    BY <1>1, <1>9 DEF FixedFirst, r, o
  <2>3. Less(d.version, f.next[c]) /\ f.next[c] \in Version
    BY <1>3, <2>1 DEF RoundsUp, Level, AsksFor
  <2> QED
    BY <1>4, <1>10, <2>2, <2>3, LessOrders DEF Known
<1> QED
  BY <1>3, <1>5, <1>6, <1>7, <1>8, <1>9

LEMMA PendingIs ==
    ASSUME NEW st \in Files, NEW b
    PROVE  LET n == Len(st.deploys)
           IN  /\ (\A i \in 1..n : st.deploys[i].reset = None) => PendingReset(st, b) = None
               /\ \A i \in 1..n :
                     /\ st.deploys[i].reset # None
                     /\ \A j \in i + 1..n : st.deploys[j].reset = None
                     => PendingReset(st, b) =
                           IF st.deploys[i].channel = b THEN st.deploys[i].reset ELSE None
               /\ \/ \A i \in 1..n : st.deploys[i].reset = None
                  \/ \E i \in 1..n : /\ st.deploys[i].reset # None
                                     /\ \A j \in i + 1..n : st.deploys[j].reset = None
<1> DEFINE n == Len(st.deploys)
           IsReset(deploy) == deploy.reset # None
           I == {i \in 1..n : IsReset(st.deploys[i])}
           at == IF I # {} THEN Max(I) ELSE 0
<1>1. PendingReset(st, b) =
        IF at # 0 /\ st.deploys[at].channel = b THEN st.deploys[at].reset ELSE None
  BY DEF PendingReset, SelectLastInSeq
<1>2. n \in Nat
  BY FileFacts
<1>3. I # {} => Max(I) \in I /\ \A i \in I : Max(I) >= i
  <2>1. I \subseteq Nat /\ \A i \in I : i <= n
    BY <1>2
  <2> QED
    BY <1>2, <2>1, MaxIs
<1>4. I = {} => at = 0
  OBVIOUS
<1>5. I # {} => at \in I /\ \A i \in I : at >= i
  BY <1>3
<1> HIDE DEF at
<1>6. ASSUME NEW i \in 1..n, st.deploys[i].reset # None,
             \A j \in i + 1..n : st.deploys[j].reset = None
      PROVE  at = i
  <2>1. i \in I
    BY <1>6
  <2>2. at \in 1..n /\ at >= i /\ st.deploys[at].reset # None
    BY <1>5, <2>1
  <2>3. ~(at \in i + 1..n)
    BY <1>6, <2>2
  <2> QED
    BY <1>2, <2>2, <2>3
<1>7. ASSUME I # {}
      PROVE  at \in 1..n /\ st.deploys[at].reset # None
             /\ \A j \in at + 1..n : st.deploys[j].reset = None
  <2>1. at \in 1..n /\ st.deploys[at].reset # None
    BY <1>5, <1>7
  <2>2. ASSUME NEW j \in at + 1..n, st.deploys[j].reset # None PROVE FALSE
    <3>1. j \in I
      BY <1>2, <2>1, <2>2
    <3> QED
      BY <1>2, <1>5, <2>1, <2>2, <3>1
  <2> QED
    BY <2>1, <2>2
<1>8. (\A i \in 1..n : st.deploys[i].reset = None) <=> I = {}
  OBVIOUS
<1> HIDE DEF I
<1>9. \A i \in 1..n : i # 0
  BY <1>2
<1> HIDE DEF n
<1> QED
  BY <1>1, <1>4, <1>6, <1>7, <1>8, <1>9 DEF n

LEMMA OpenPending ==
    ASSUME NEW st \in Files, head \in Nat, branch \in Channels, NEW resetTo \in Known
    PROVE  LET new == OpenDeploy(st, head, branch, resetTo)
           IN  /\ new \in Files /\ new.deploys # <<>> /\ new.packages = st.packages
               /\ PendingReset(new, branch) =
                     IF resetTo # None THEN resetTo ELSE PendingReset(st, branch)
               /\ Range(new.deploys) = Range(st.deploys) \cup
                    {[commit |-> head, channel |-> branch, reset |-> resetTo, packages |-> <<>>]}
<1> DEFINE fresh == [commit |-> head, channel |-> branch, reset |-> resetTo, packages |-> <<>>]
           new == OpenDeploy(st, head, branch, resetTo)
           n == Len(st.deploys)
<1>1. fresh \in DeployType
  BY DEF DeployType
<1>2. st.deploys \in Seq(DeployType) /\ st.packages \in [Packages -> [Channels -> Known]]
      /\ n \in Nat
  BY FileFacts
<1>3. fresh.reset = resetTo /\ fresh.channel = branch
  OBVIOUS
<1>4. new = [st EXCEPT !.deploys = Append(@, fresh)]
  BY DEF OpenDeploy
<1> HIDE DEF fresh, new
<1>5. new = [packages |-> st.packages, deploys |-> Append(st.deploys, fresh)]
  <2> DEFINE y == Append(st.deploys, fresh)
  <2>1. new = [st EXCEPT !.deploys = y]
    BY <1>4
  <2> HIDE DEF y
  <2>2. new = [packages |-> st.packages, deploys |-> y]
    BY <2>1, DeploysOf DEF Files
  <2> QED
    BY <2>2 DEF y
<1>6. Append(st.deploys, fresh) \in Seq(DeployType)
  BY <1>1, <1>2
<1>7. new \in Files
  BY <1>2, <1>5, <1>6 DEF Files
<1>8. /\ Len(new.deploys) = n + 1 /\ new.deploys[n + 1] = fresh
      /\ \A i \in 1..n : new.deploys[i] = st.deploys[i]
  BY <1>1, <1>2, <1>5
<1>9. new.deploys # <<>> /\ new.packages = st.packages
  BY <1>2, <1>5, <1>8
<1>10. Range(new.deploys) = Range(st.deploys) \cup {fresh}
  BY <1>1, <1>2, <1>5, RangeAppend
<1>11. CASE resetTo # None
  <2>1. n + 1 \in 1..n + 1 /\ \A j \in (n + 1) + 1..n + 1 : FALSE
    BY <1>2
  <2>2. PendingReset(new, branch) = resetTo
    BY <1>3, <1>7, <1>8, <1>11, <2>1, PendingIs
  <2> QED
    BY <1>7, <1>9, <1>10, <1>11, <2>2 DEF new, fresh
<1>12. CASE resetTo = None
  <2>1. PendingReset(new, branch) = PendingReset(st, branch)
    <3>1. CASE \A i \in 1..n : st.deploys[i].reset = None
      <4>1. \A i \in 1..n + 1 : new.deploys[i].reset = None
        <5> SUFFICES ASSUME NEW i \in 1..n + 1 PROVE new.deploys[i].reset = None
          OBVIOUS
        <5>1. i = n + 1 \/ i \in 1..n
          BY <1>2
        <5> QED
          BY <1>3, <1>8, <1>12, <3>1, <5>1
      <4>2. PendingReset(new, branch) = None
        BY <1>7, <1>8, <4>1, PendingIs
      <4> QED
        BY <3>1, <4>2, PendingIs
    <3>2. CASE \E i \in 1..n : /\ st.deploys[i].reset # None
                               /\ \A j \in i + 1..n : st.deploys[j].reset = None
      <4>1. PICK i \in 1..n : /\ st.deploys[i].reset # None
                              /\ \A j \in i + 1..n : st.deploys[j].reset = None
        BY <3>2
      <4>2. PendingReset(st, branch) =
               IF st.deploys[i].channel = branch THEN st.deploys[i].reset ELSE None
        BY <4>1, PendingIs
      <4>3. i \in 1..n + 1 /\ new.deploys[i] = st.deploys[i]
        BY <1>2, <1>8
      <4>4. ASSUME NEW j \in i + 1..n + 1 PROVE new.deploys[j].reset = None
        <5>1. j = n + 1 \/ (j \in 1..n /\ j \in i + 1..n)
          BY <1>2
        <5> QED
          BY <1>3, <1>8, <1>12, <4>1, <5>1
      <4>5. PendingReset(new, branch) =
               IF new.deploys[i].channel = branch THEN new.deploys[i].reset ELSE None
        <5>1. new.deploys[i].reset # None
          BY <4>1, <4>3
        <5> QED
          BY <1>7, <1>8, <4>3, <4>4, <5>1, PendingIs
      <4> QED
        BY <4>2, <4>3, <4>5
    <3> QED
      BY <3>1, <3>2, PendingIs
  <2> QED
    BY <1>7, <1>9, <1>10, <1>12, <2>1 DEF new, fresh
<1> QED
  BY <1>11, <1>12

LEMMA PublicationPending ==
    ASSUME NEW st \in Files, st.deploys # <<>>, branch \in Channels, NEW entry \in EntryType
    PROVE  LET new == RecordPublication(st, branch, entry)
           IN  /\ new.deploys # <<>>
               /\ PendingReset(new, branch) = PendingReset(st, branch)
               /\ \A deploy \in Range(new.deploys) : \E old \in Range(st.deploys) :
                     deploy.reset = old.reset /\ deploy.channel = old.channel
<1> DEFINE n == Len(st.deploys)
           last == st.deploys[n]
           longer == [last EXCEPT !.packages = Append(@, entry)]
           deploys == [st.deploys EXCEPT ![n] = longer]
           new == RecordPublication(st, branch, entry)
<1>1. st.deploys \in Seq(DeployType) /\ n \in Nat /\ n # 0 /\ DOMAIN st.deploys = 1..n
  BY FileFacts
<1>2. last \in DeployType
  BY <1>1
<1>3. new.deploys = deploys
  BY DEF RecordPublication
<1>4. longer.reset = last.reset /\ longer.channel = last.channel
  <2> HIDE DEF last
  <2> DEFINE y == Append(last.packages, entry)
  <2>1. longer = [last EXCEPT !.packages = y]
    OBVIOUS
  <2> HIDE DEF y, longer
  <2>2. longer = [commit |-> last.commit, channel |-> last.channel, reset |-> last.reset,
                  packages |-> y]
    BY <1>2, <2>1, PackagesOf DEF DeployType
  <2> QED
    BY <2>2
<1>5. Len(deploys) = n /\ DOMAIN deploys = 1..n /\ deploys[n] = longer
      /\ \A i \in 1..n - 1 : deploys[i] = st.deploys[i]
  <2> HIDE DEF longer, n
  <2> QED
    BY <1>1
<1> HIDE DEF longer, deploys
<1>6. \A i \in 1..n : deploys[i].reset = st.deploys[i].reset
                      /\ deploys[i].channel = st.deploys[i].channel
  <2> SUFFICES ASSUME NEW i \in 1..n
               PROVE  deploys[i].reset = st.deploys[i].reset
                      /\ deploys[i].channel = st.deploys[i].channel
    OBVIOUS
  <2>1. i = n \/ i \in 1..n - 1
    BY <1>1
  <2> QED
    BY <1>4, <1>5, <2>1
<1>7. new \in Files
  BY PublicationKeeps
<1> HIDE DEF new, last
<1>8. Len(new.deploys) = n
  BY <1>3, <1>5
<1> HIDE DEF n
<1>9. PendingReset(new, branch) = PendingReset(st, branch)
  <2>1. CASE \A i \in 1..n : st.deploys[i].reset = None
    <3>1. \A i \in 1..n : new.deploys[i].reset = None
      BY <1>3, <1>6, <2>1
    <3>2. PendingReset(new, branch) = None
      BY <1>7, <1>8, <3>1, PendingIs
    <3> QED
      BY <2>1, <3>2, PendingIs DEF n
  <2>2. CASE \E i \in 1..n : /\ st.deploys[i].reset # None
                             /\ \A j \in i + 1..n : st.deploys[j].reset = None
    <3>1. PICK i \in 1..n : /\ st.deploys[i].reset # None
                            /\ \A j \in i + 1..n : st.deploys[j].reset = None
      BY <2>2
    <3>2. PendingReset(st, branch) =
             IF st.deploys[i].channel = branch THEN st.deploys[i].reset ELSE None
      BY <3>1, PendingIs DEF n
    <3>3. \A j \in i + 1..n : new.deploys[j].reset = None
      <4>1. \A j \in i + 1..n : j \in 1..n
        BY <1>1
      <4> QED
        BY <1>3, <1>6, <3>1, <4>1
    <3>4. new.deploys[i].reset = st.deploys[i].reset
          /\ new.deploys[i].channel = st.deploys[i].channel
      BY <1>3, <1>6
    <3>5. PendingReset(new, branch) =
             IF new.deploys[i].channel = branch THEN new.deploys[i].reset ELSE None
      BY <1>7, <1>8, <3>1, <3>3, <3>4, PendingIs
    <3> QED
      BY <3>2, <3>4, <3>5
  <2> QED
    BY <2>1, <2>2, PendingIs DEF n
<1>10. new.deploys # <<>>
  BY <1>1, <1>8
<1>11. ASSUME NEW deploy \in Range(new.deploys)
       PROVE  \E old \in Range(st.deploys) :
                 deploy.reset = old.reset /\ deploy.channel = old.channel
  <2>1. PICK i \in 1..n : deploy = deploys[i]
    BY <1>3, <1>5 DEF Range
  <2>2. st.deploys[i] \in Range(st.deploys)
    BY <1>1 DEF Range
  <2> QED
    BY <1>6, <2>1, <2>2
<1> QED
  BY <1>9, <1>10, <1>11 DEF new

\* The reset that a run opens its deploy with is the one its file is in.
ResetFits(st, resetTo) ==
    IF st.deploys = <<>> THEN resetTo = ResetVersion(st, branch)
    ELSE resetTo \in {None, PendingReset(st, branch)}

\* A record changes where the next version comes from in no other package, and in its own
\* to the document it records.
LEMMA RecordPoints ==
    ASSUME TypeOK, NEW st, GoodFile(st), NEW opened \in BOOLEAN, opened => Opened(st),
           NEW resetTo \in Known, opened \/ ResetFits(st, resetTo),
           NEW entry \in EntryType, Less(Cur(st, entry.name), entry.version),
           NEW d \in OnNpm(npm, entry.name, entry.version), d.dependencies = entry.dependencies,
           d.commit = IF entry.commit = 0 THEN head ELSE entry.commit, d.commit # 0
    PROVE  LET new == Record(st, opened, entry, resetTo)
               name == entry.name
               v == entry.version
           IN  /\ new.deploys # <<>>
               /\ \A q \in Packages \ {name} :
                     /\ new.packages[q] = st.packages[q] /\ Cur(new, q) = Cur(st, q)
                     /\ BaselineFor(new, q, branch) = BaselineFor(st, q, branch)
                     /\ ResetOf(new, q) = ResetOf(st, q)
               /\ new.packages[name] = [st.packages[name] EXCEPT ![branch] = v]
               /\ Cur(new, name) = v /\ v # None
               /\ BaselineFor(new, name, branch).commit = d.commit
               /\ BaselineFor(new, name, branch).dependencies = d.dependencies
               /\ ResetOf(new, name) = None
               /\ /\ ChannelsApart(branch, st) /\ OfChannel(v, branch)
                  /\ resetTo # None => OfChannel(resetTo, branch)
                  => ChannelsApart(branch, new)
<1> DEFINE new == Record(st, opened, entry, resetTo)
           mid == Open(st, opened, resetTo)
           name == entry.name
           v == entry.version
<1>1. /\ st \in Files /\ branch \in Channels /\ head \in Nat /\ name \in Packages /\ v \in Known
      /\ Sound(log, npm) /\ RecordsWhat(st, npm)
  BY DEF GoodFile, TypeOK, EntryType
<1>2. /\ new \in Files
      /\ new.packages = [st.packages EXCEPT ![name][branch] = v]
      /\ \A p, w : Says(new, p, w) <=> Says(st, p, w) \/ (p = name /\ w = v)
      /\ RecordsWhat(new, npm)
  BY <1>1, RecordKeeps
<1>3. st.packages \in [Packages -> [Channels -> Known]]
  BY <1>1, FileFacts
<1>4. new.packages[name] = [st.packages[name] EXCEPT ![branch] = v]
      /\ new.packages[name][branch] = v
  BY <1>1, <1>2, <1>3
<1>5. new = RecordPublication(mid, branch, entry)
  BY DEF Record, Open
<1>6. /\ mid \in Files /\ mid.deploys # <<>> /\ mid.packages = st.packages
      /\ opened => mid = st
      /\ ~opened =>
           /\ PendingReset(mid, branch) =
                 IF resetTo # None THEN resetTo ELSE PendingReset(st, branch)
           /\ Range(mid.deploys) = Range(st.deploys) \cup
                {[commit |-> head, channel |-> branch, reset |-> resetTo, packages |-> <<>>]}
  <2>1. CASE opened
    BY <1>1, <2>1 DEF Open, Opened
  <2>2. CASE ~opened
    BY <1>1, <2>2, OpenPending DEF Open
  <2> QED
    BY <2>1, <2>2
<1> HIDE DEF mid, new
<1>7. /\ new.deploys # <<>>
      /\ PendingReset(new, branch) = PendingReset(mid, branch)
      /\ \A deploy \in Range(new.deploys) : \E old \in Range(mid.deploys) :
            deploy.reset = old.reset /\ deploy.channel = old.channel
  BY <1>1, <1>5, <1>6, PublicationPending
<1>8. st.deploys # <<>> => PendingReset(new, branch) = PendingReset(st, branch)
  BY <1>6, <1>7 DEF ResetFits
<1>9. st.deploys = <<>> => PendingReset(new, branch) = ResetVersion(st, branch)
  <2> SUFFICES ASSUME st.deploys = <<>>
               PROVE  PendingReset(new, branch) = ResetVersion(st, branch)
    OBVIOUS
  <2>1. ~opened
    BY DEF Opened
  <2>2. resetTo = ResetVersion(st, branch) /\ resetTo # None
    BY <1>1, <2>1, ResetKnown DEF ResetFits
  <2> QED
    BY <1>6, <1>7, <2>1, <2>2
<1>10. /\ Cur(new, name) = v /\ v # None
       /\ \A q \in Packages \ {name} : new.packages[q] = st.packages[q] /\ Cur(new, q) = Cur(st, q)
  <2>1. Less(Cur(st, name), v)
    OBVIOUS
  <2> HIDE DEF name, v
  <2> QED
    BY <1>1, <1>2, <2>1, CurAfter
<1>11. \A x, y \in npm : x.name = y.name /\ x.version = y.version => x = y
  BY <1>1 DEF Sound
<1>12. ASSUME NEW q \in Packages \ {name} PROVE BaselineFor(new, q, branch) = BaselineFor(st, q, branch)
  <2> DEFINE w == BaseOf(st, q)
  <2>1. BaseOf(new, q) = w
    BY <1>10 DEF BaseOf
  <2>2. Says(new, q, w) <=> Says(st, q, w)
    BY <1>2
  <2> HIDE DEF w
  <2>3. /\ FindPublication(new, q, w).commit = FindPublication(st, q, w).commit
        /\ FindPublication(new, q, w).dependencies = FindPublication(st, q, w).dependencies
    <3>1. CASE Says(st, q, w)
      <4>1. PICK x \in OnNpm(npm, q, w) :
              /\ FindPublication(new, q, w).commit = x.commit
              /\ FindPublication(new, q, w).dependencies = x.dependencies
        BY <1>1, <1>2, <2>2, <3>1, FoundIsTrue
      <4>2. PICK y \in OnNpm(npm, q, w) :
              /\ FindPublication(st, q, w).commit = y.commit
              /\ FindPublication(st, q, w).dependencies = y.dependencies
        BY <1>1, <3>1, FoundIsTrue
      <4> QED
        BY <1>11, <4>1, <4>2 DEF OnNpm
    <3>2. CASE ~Says(st, q, w)
      BY <1>1, <1>2, <2>2, <3>2, Found
    <3> QED
      BY <3>1, <3>2
  <2>4. /\ BaselineFor(new, q, branch).commit = BaselineFor(st, q, branch).commit
        /\ BaselineFor(new, q, branch).dependencies = BaselineFor(st, q, branch).dependencies
        /\ BaselineFor(new, q, branch).current = BaselineFor(st, q, branch).current
        /\ BaselineFor(new, q, branch).lastStable = BaselineFor(st, q, branch).lastStable
    BY <1>10, <2>1, <2>3, BaselineIs DEF w
  <2>5. \A s : BaselineFor(s, q, branch) =
          [current |-> BaselineFor(s, q, branch).current,
           lastStable |-> BaselineFor(s, q, branch).lastStable,
           commit |-> BaselineFor(s, q, branch).commit,
           dependencies |-> BaselineFor(s, q, branch).dependencies]
    BY DEF BaselineFor
  <2> QED
    BY <2>4, <2>5
<1>13. ASSUME NEW q \in Packages \ {name} PROVE ResetOf(new, q) = ResetOf(st, q)
  <2>1. ResetOf(new, q) = IF BaselineFor(st, q, branch).commit = 0
                          THEN PendingReset(new, branch) ELSE None
    BY <1>7, <1>12 DEF ResetOf
  <2>2. CASE st.deploys # <<>>
    BY <1>8, <2>1, <2>2 DEF ResetOf
  <2>3. CASE st.deploys = <<>>
    <3>1. ResetOf(st, q) = ResetVersion(st, branch)
      BY <2>3 DEF ResetOf
    <3>2. \A w : ~Says(st, q, w)
      BY <2>3 DEF Says, Range
    <3>3. BaselineFor(st, q, branch).commit = 0
      BY <1>1, <3>2, FoundIsTrue, BaselineIs
    <3> QED
      BY <1>9, <2>1, <2>3, <3>1, <3>3
  <2> QED
    BY <2>2, <2>3
<1>14. /\ BaselineFor(new, name, branch).commit = d.commit
       /\ BaselineFor(new, name, branch).dependencies = d.dependencies
  <2>1. BaseOf(new, name) = v
    BY <1>1, <1>4, <1>10 DEF BaseOf, Prereleases, Channels
  <2>2. Says(new, name, v)
    BY <1>2
  <2>3. PICK e \in OnNpm(npm, name, v) :
          /\ FindPublication(new, name, v).commit = e.commit
          /\ FindPublication(new, name, v).dependencies = e.dependencies
    BY <1>1, <1>2, <2>2, FoundIsTrue
  <2>4. e = d
    BY <1>11, <2>3 DEF OnNpm
  <2> QED
    BY <1>10, <2>1, <2>3, <2>4, BaselineIs
<1>15. ResetOf(new, name) = None
  BY <1>7, <1>14 DEF ResetOf
<1>16. ASSUME ChannelsApart(branch, st), OfChannel(v, branch),
              resetTo # None => OfChannel(resetTo, branch)
       PROVE  ChannelsApart(branch, new)
  <2>1. ASSUME NEW p \in Packages, NEW c \in Channels, new.packages[p][c] # None
        PROVE  OfChannel(new.packages[p][c], c)
    <3>1. new.packages[p][c] = IF p = name /\ c = branch THEN v ELSE st.packages[p][c]
      BY <1>1, <1>3, <1>4, <1>10
    <3> QED
      BY <1>16, <2>1, <3>1 DEF ChannelsApart
  <2>2. ASSUME NEW deploy \in Range(new.deploys), deploy.reset # None, deploy.channel = branch
        PROVE  OfChannel(deploy.reset, branch)
    <3>1. PICK old \in Range(mid.deploys) :
            deploy.reset = old.reset /\ deploy.channel = old.channel
      BY <1>7
    <3>2. CASE old \in Range(st.deploys)
      BY <1>16, <2>2, <3>1, <3>2 DEF ChannelsApart
    <3>3. CASE old \notin Range(st.deploys)
      <4>1. old.reset = resetTo
        BY <1>6, <3>1, <3>3
      <4> QED
        BY <1>16, <2>2, <3>1, <4>1
    <3> QED
      BY <3>2, <3>3
  <2> QED
    BY <2>1, <2>2 DEF ChannelsApart
<1> QED
  BY <1>4, <1>7, <1>10, <1>12, <1>13, <1>14, <1>15, <1>16 DEF new, name, v

\* What the commits between two of a history ask of a package.
AsksIn(lg, p, from, to, b) ==
    b = 1 \/ \E i \in from + 1..to : p \in lg[i].touches /\ lg[i].bump = b
NoMore(lg, p, from, to, b) == \A i \in from + 1..to : p \in lg[i].touches => lg[i].bump <= b

LEMMA BumpSinceIs ==
    ASSUME NEW lg \in Seq(Commit), NEW p, NEW from \in Nat
    PROVE  LET since == BumpSince(lg, p, from)
           IN  /\ since \in 0..3 /\ NoMore(lg, p, from, Len(lg), since)
               /\ since # 0 => \E i \in from + 1..Len(lg) : p \in lg[i].touches /\ lg[i].bump = since
<1> DEFINE I == {j \in from + 1..Len(lg) : p \in lg[j].touches}
           T == {0} \cup {lg[i].bump : i \in I}
<1>1. \A i \in from + 1..Len(lg) : lg[i] \in Commit
  OBVIOUS
<1>2. T \subseteq 0..3 /\ 0 \in T
  BY <1>1 DEF Commit
<1>3. \A i \in I : lg[i].bump \in T
  OBVIOUS
<1>4. \A x \in T : x = 0 \/ \E i \in I : x = lg[i].bump
  OBVIOUS
<1> HIDE DEF T
<1>5. T \subseteq Nat /\ T # {} /\ \A y \in T : y <= 3
  BY <1>2
<1>6. Max(T) \in T /\ \A y \in T : Max(T) >= y
  BY <1>5, MaxIs
<1>7. BumpSince(lg, p, from) = Max(T)
  BY DEF BumpSince, T
<1> DEFINE since == Max(T)
<1> HIDE DEF since
<1>8. since \in T /\ since \in 0..3 /\ \A y \in T : y <= since
  BY <1>2, <1>5, <1>6 DEF since
<1>9. NoMore(lg, p, from, Len(lg), since)
  BY <1>3, <1>8 DEF NoMore
<1>10. since # 0 => \E i \in from + 1..Len(lg) : p \in lg[i].touches /\ lg[i].bump = since
  BY <1>4, <1>8
<1> QED
  BY <1>7, <1>8, <1>9, <1>10 DEF since

LEMMA NextProper ==
    ASSUME NEW current \in Known, NEW stable, NEW bump, NEW prerelease \in BOOLEAN
    PROVE  prerelease <=> NextVersion(current, stable, bump, prerelease).pre # 0
<1> DEFINE n == NextVersion(current, stable, bump, prerelease)
           floor == Increment(stable, bump)
<1>1. floor.pre = 0
  BY DEF Increment, Base
<1>2. Base(1, 0, 0).pre = 0
  BY DEF Base
<1>3. Alpha(floor, 1).pre = 1 /\ Alpha(Base(1, 0, 0), 1).pre = 1
  <2>1. \A x, y, z : Alpha(Base(x, y, z), 1).pre = 1
    BY DEF Alpha, Base
  <2>2. CASE bump = 3
    BY <2>1, <2>2 DEF Increment
  <2>3. CASE bump = 2
    BY <2>1, <2>3 DEF Increment
  <2>4. CASE bump # 3 /\ bump # 2
    BY <2>1, <2>4 DEF Increment
  <2> QED
    BY <2>2, <2>3, <2>4
<1>4. current \in Version /\ current.pre \in Nat
  BY DEF Known, Version
<1>5. Alpha(current, current.pre + 1).pre = current.pre + 1
  <2>1. current.pre + 1 \in Nat
    BY <1>4
  <2> QED
    BY <1>4, <2>1, AlphaIs
<1>6. Stable(current).pre = 0
  <2>1. Stable(current) = Alpha(current, 0)
    BY DEF Stable, Alpha
  <2> QED
    BY <1>4, <2>1, AlphaIs
<1> HIDE DEF floor
<1>7. CASE prerelease
  <2>1. n \in {Alpha(Base(1, 0, 0), 1), Alpha(current, current.pre + 1), Alpha(floor, 1)}
    BY <1>7 DEF NextVersion, floor
  <2> HIDE DEF n
  <2>2. n.pre # 0
    BY <1>3, <1>4, <1>5, <2>1
  <2> QED
    BY <1>7, <2>2 DEF n
<1>8. CASE ~prerelease
  <2>1. n \in {Base(1, 0, 0), Stable(current), floor}
    BY <1>8 DEF NextVersion, floor
  <2> HIDE DEF n
  <2>2. n.pre = 0
    BY <1>1, <1>2, <1>6, <2>1
  <2> QED
    BY <1>8, <2>2 DEF n
<1> QED
  BY <1>7, <1>8

LEMMA ResetProper ==
    ASSUME NEW st \in Files, ChannelsApart(branch, st), NEW p \in Packages
    PROVE  /\ ResetOf(st, p) \in Known
           /\ ResetOf(st, p) # None => OfChannel(ResetOf(st, p), branch)
<1>1. ResetVersion(st, branch) \in Known /\ OfChannel(ResetVersion(st, branch), branch)
  BY ResetKnown
<1>2. PendingReset(st, branch) \in Known
  BY PendingKnown
<1>3. PendingReset(st, branch) # None => OfChannel(PendingReset(st, branch), branch)
  <2> DEFINE n == Len(st.deploys)
  <2>1. CASE \A i \in 1..n : st.deploys[i].reset = None
    BY <2>1, PendingIs
  <2>2. CASE \E i \in 1..n : /\ st.deploys[i].reset # None
                             /\ \A j \in i + 1..n : st.deploys[j].reset = None
    <3>1. PICK i \in 1..n : /\ st.deploys[i].reset # None
                            /\ \A j \in i + 1..n : st.deploys[j].reset = None
      BY <2>2
    <3>2. PendingReset(st, branch) =
             IF st.deploys[i].channel = branch THEN st.deploys[i].reset ELSE None
      BY <3>1, PendingIs
    <3>3. st.deploys[i] \in Range(st.deploys)
      BY FileFacts DEF Range
    <3> QED
      BY <3>1, <3>2, <3>3 DEF ChannelsApart
  <2> QED
    BY <2>1, <2>2, PendingIs
<1> QED
  BY <1>1, <1>2, <1>3, NoneKnown DEF ResetOf

\* What a plan says of a package, and what it means that it says nothing.
PlansIt(some, st, lg, p) ==
    LET baseline == BaselineFor(st, p, branch)
    IN  /\ some[p].reset = ResetOf(st, p)
        /\ some[p].next # None =>
             /\ \E b \in 1..3 : /\ AsksIn(lg, p, baseline.commit, Len(lg), b)
                                /\ NoMore(lg, p, baseline.commit, Len(lg), b)
                                /\ some[p].next = PointOf(st, p).next[b]
             /\ ChannelsApart(branch, st) => OfChannel(some[p].next, branch)
        /\ some[p].next = None =>
             /\ ResetOf(st, p) = None /\ BumpSince(lg, p, baseline.commit) = 0
             /\ \A d \in Deps[p] :
                  /\ some[d].next = None
                  /\ some[d].current = None \/ baseline.dependencies[d] = some[d].current

LEMMA PlanIs ==
    ASSUME TypeOK, NEW st, GoodFile(st), NEW lg \in Seq(Commit), NEW made, NEW name \in Packages,
           made[name] = Planned(made, name, st, branch, lg)
    PROVE  PlansIt(made, st, lg, name)
<1> DEFINE baseline   == BaselineFor(st, name, branch)
           full       == st.deploys = <<>>
           unfinished == ~full /\ baseline.commit = 0
           reset      == CASE full       -> ResetVersion(st, branch)
                           [] unfinished -> PendingReset(st, branch)
                           [] OTHER      -> None
           cascades   == \E d \in Deps[name] :
                            \/ made[d].next # None
                            \/ /\ made[d].current # None
                               /\ baseline.dependencies[d] # made[d].current
           since      == BumpSince(lg, name, baseline.commit)
           bump       == Max({since, IF cascades THEN 1 ELSE 0})
           risen      == NextVersion(baseline.current, baseline.lastStable, bump,
                                     Prereleases(branch))
           next       == CASE reset # None -> reset
                           [] reset = None /\ bump # 0 -> risen
                           [] OTHER -> None
           step       == Planned(made, name, st, branch, lg)
<1>1. step.next = next /\ step.reset = reset
  BY DEF Planned
<1>2. /\ baseline.current \in Known /\ baseline.lastStable \in Known
      /\ baseline.commit \in Nat /\ baseline.current = Cur(st, name)
      /\ baseline.lastStable = st.packages[name]["release"]
  BY BaselineTyped, BaselineIs DEF TypeOK
<1>3. reset = ResetOf(st, name) /\ reset \in Known
  <2>1. reset = ResetOf(st, name)
    BY DEF ResetOf
  <2>2. ResetVersion(st, branch) \in Known /\ PendingReset(st, branch) \in Known
    BY ResetKnown, PendingKnown DEF GoodFile
  <2> QED
    BY <2>1, <2>2, NoneKnown
<1>4. since \in 0..3 /\ NoMore(lg, name, baseline.commit, Len(lg), since)
      /\ (since # 0 => AsksIn(lg, name, baseline.commit, Len(lg), since))
  BY <1>2, BumpSinceIs DEF AsksIn
<1> HIDE DEF since, reset
<1>5. /\ bump \in 0..3 /\ since <= bump /\ (bump = since \/ bump = 1)
      /\ cascades => bump # 0
  <2> DEFINE x == IF cascades THEN 1 ELSE 0
             T == {since, x}
  <2>1. x \in {0, 1} /\ (cascades => x = 1)
    OBVIOUS
  <2> HIDE DEF x
  <2>2. T \subseteq Nat /\ T # {} /\ \A y \in T : y <= 3
    BY <1>4, <2>1
  <2>3. Max(T) \in T /\ \A y \in T : Max(T) >= y
    BY <2>2, MaxIs
  <2>4. bump = Max(T)
    BY DEF x
  <2> HIDE DEF bump
  <2>5. bump \in {since, x} /\ bump >= since /\ bump >= x
    BY <2>3, <2>4
  <2> HIDE DEF cascades
  <2> QED
    BY <1>4, <2>1, <2>5
<1> HIDE DEF bump
<1>6. risen \in Known /\ risen # None /\ OfChannel(risen, branch)
  <2>1. Prereleases(branch) \in BOOLEAN
    BY DEF Prereleases
  <2> QED
    BY <1>2, <1>5, <2>1, NextKnown, NextProper DEF OfChannel
<1>7. \A b \in 1..3 : PointOf(st, name).next[b] =
         IF reset # None THEN reset
         ELSE NextVersion(baseline.current, baseline.lastStable, b, Prereleases(branch))
  BY <1>2, <1>3, NextsAre DEF PointOf
<1> HIDE DEF baseline
<1>8. ASSUME next # None
      PROVE  /\ \E b \in 1..3 : /\ AsksIn(lg, name, baseline.commit, Len(lg), b)
                                /\ NoMore(lg, name, baseline.commit, Len(lg), b)
                                /\ next = PointOf(st, name).next[b]
             /\ ChannelsApart(branch, st) => OfChannel(next, branch)
  <2>1. CASE reset # None
    <3> DEFINE b == IF since = 0 THEN 1 ELSE since
    <3>1. b \in 1..3 /\ since <= b
      BY <1>4
    <3>2. AsksIn(lg, name, baseline.commit, Len(lg), b)
      BY <1>4 DEF AsksIn
    <3>3. NoMore(lg, name, baseline.commit, Len(lg), b)
      <4> SUFFICES ASSUME NEW i \in baseline.commit + 1..Len(lg), name \in lg[i].touches
                   PROVE  lg[i].bump <= b
        BY DEF NoMore
      <4>1. lg[i].bump <= since
        BY <1>4 DEF NoMore
      <4>2. lg[i] \in Commit
        BY <1>2 DEF baseline
      <4> QED
        BY <1>4, <3>1, <4>1, <4>2 DEF Commit
    <3>4. next = reset /\ PointOf(st, name).next[b] = reset
      BY <1>7, <2>1, <3>1
    <3>5. ChannelsApart(branch, st) => OfChannel(reset, branch)
      BY <1>3, <2>1, ResetProper DEF GoodFile
    <3> QED
      BY <3>1, <3>2, <3>3, <3>4, <3>5
  <2>2. CASE reset = None /\ bump # 0
    <3>1. bump \in 1..3 /\ next = risen
      BY <1>5, <2>2
    <3>2. AsksIn(lg, name, baseline.commit, Len(lg), bump)
      BY <1>4, <1>5, <2>2 DEF AsksIn
    <3>3. NoMore(lg, name, baseline.commit, Len(lg), bump)
      <4> SUFFICES ASSUME NEW i \in baseline.commit + 1..Len(lg), name \in lg[i].touches
                   PROVE  lg[i].bump <= bump
        BY DEF NoMore
      <4>1. lg[i].bump <= since
        BY <1>4 DEF NoMore
      <4>2. lg[i] \in Commit
        BY <1>2 DEF baseline
      <4> QED
        BY <1>4, <1>5, <4>1, <4>2 DEF Commit
    <3>4. next = PointOf(st, name).next[bump]
      BY <1>7, <2>2, <3>1
    <3> QED
      BY <1>6, <3>1, <3>2, <3>3, <3>4
  <2> QED
    BY <1>8, <2>1, <2>2
<1>9. ASSUME next = None
      PROVE  /\ reset = None /\ since = 0
             /\ \A d \in Deps[name] :
                  /\ made[d].next = None
                  /\ made[d].current = None \/ baseline.dependencies[d] = made[d].current
  <2>1. reset = None
    BY <1>9
  <2>2. bump = 0
    BY <1>6, <1>9, <2>1
  <2>3. since = 0 /\ ~cascades
    BY <1>4, <1>5, <2>2
  <2> QED
    BY <2>1, <2>3
<1> HIDE DEF next, step
<1> QED
  BY <1>1, <1>3, <1>8, <1>9 DEF PlansIt, since, baseline, step

\* The commits that the run began with, or those of the next one.
Seen == IF pc = "idle" THEN Len(log) ELSE head
Prefix == SubSeq(log, 1, head)

Growing(p) ==
    /\ \A f \in Points(p) : f.commit <= Seen
    /\ \A f, g \in Points(p) : Less(f.version, g.version) => f.commit <= g.commit
Reachable(p) ==
    \A f \in Points(p), b \in 1..3 :
       NoMore(log, p, f.commit, Seen, b)
       => \/ OnNpm(npm, p, f.next[b]) # {}
          \/ \A x \in Points(p) : Less(f.version, x.version) => Less(x.version, f.next[b])
Followed(p) ==
    \A f, g \in Points(p), b \in 1..3 :
       Less(g.version, f.version) /\ AsksIn(log, p, g.commit, f.commit, b)
       => ~Less(f.version, g.next[b])

Due(p) ==
    LET baseline == BaselineFor(state, p, branch)
    IN  /\ OfChannel(plan[p].next, branch)
        /\ \E b \in 1..3 : /\ AsksIn(log, p, baseline.commit, head, b)
                           /\ NoMore(log, p, baseline.commit, head, b)
                           /\ plan[p].next = PointOf(state, p).next[b]

\* As Accounted, of one package.
Fresh(st, lg, p) ==
    LET baseline == BaselineFor(st, p, branch)
    IN  \/ ResetOf(st, p) # None
        \/ baseline.commit # 0 /\ st.packages[p][branch] = baseline.current
        \/ BumpSince(lg, p, baseline.commit) # 0

StandsFor(p) ==
    /\ state.packages[p][branch] = plan[p].current
    /\ \E d \in OnNpm(npm, p, plan[p].current) :
          /\ \A i \in Releasers(p) \cap 1..head : i <= d.built
          /\ \A dep \in Deps[p] :
                plan[dep].next = None /\ d.dependencies[dep] = plan[dep].current
WasPublished(p) ==
    /\ state.packages[p][branch] = plan[p].next
    /\ \E d \in OnNpm(npm, p, plan[p].next) :
          head <= d.built /\ d.dependencies = plan[p].dependencies

\* The file of the run goes on from points of the branch's.
GoesOn(st) ==
    /\ ChannelsApart(branch, st)
    /\ \A p \in Packages :
          /\ PointOf(st, p) \in Points(p)
          /\ Fresh(st, Prefix, p)
          /\ Prereleases(branch) => st.packages[p]["release"] = file.packages[p]["release"]
Resets == \A p \in Packages : plan[p].reset = ResetOf(state, p)
Stands == \A p \in Packages : PlansIt(plan, state, Prefix, p)
Ends ==
    /\ \A p \in Packages \ Releasing(plan) : StandsFor(p)
    /\ \A p \in Releasing(plan) \ left : WasPublished(p)

RunRises ==
    /\ GoesOn(state)
    /\ ~recorded => Resets
    /\ pc = "reconcile" => base = head
    /\ pc \in {"reconcile", "saveReconciled", "pinned"} => Stands
    /\ pc \in {"publish", "record"} => Ends /\ \A p \in left : Due(p)
    /\ pc = "finish" /\ ~failed => Ends /\ left = {}

Rising(p) == Proper(p) /\ Growing(p) /\ Reachable(p) /\ Followed(p)

\* The branch and npm, between them.
BranchRises ==
    /\ ChannelsApart(branch, file)
    /\ \A p \in Packages : Rising(p) /\ Fresh(file, log, p)

RiseInv == BranchRises /\ (pc # "idle" => RunRises)

LEMMA PointTyped ==
    ASSUME TypeOK, GoodFile(file), ChannelsApart(branch, file), NEW p \in Packages, Proper(p),
           NEW f \in Points(p)
    PROVE  /\ f.version \in Version /\ f.commit \in Nat /\ \A b \in 1..3 : f.next[b] \in Version
           /\ ~Less(f.version, Cur(file, p))
           /\ f # PointOf(file, p) => RoundsUp(p, f) /\ Less(Cur(file, p), f.version)
           /\ \/ RoundsUp(p, f)
              \/ f.version = Cur(file, p) /\ \A k \in 1..3 : f.next[k] = f.next[1]
<1> DEFINE o == PointOf(file, p)
<1>1. Cur(file, p) \in Version /\ ~Less(Cur(file, p), Cur(file, p))
  BY VersionsIn, LessOrders DEF TypeOK
<1>2. \A d \in Above(p) :
         /\ PointAt(d).version = d.version /\ PointAt(d).commit = d.commit
         /\ d \in DocumentType /\ d.version \in Version /\ d.commit \in Nat
         /\ Less(Cur(file, p), d.version)
  BY DEF PointAt, Above, TypeOK, Sound, DocumentType, Known
<1>3. \A d \in Above(p) : RoundsUp(p, PointAt(d))
  BY DocRounds
<1>4. o.version = Cur(file, p) /\ o.commit = BaselineFor(file, p, branch).commit
  BY DEF PointOf
<1>5. o.commit \in Nat
  BY <1>4, BaselineTyped DEF TypeOK
<1>6. \A b \in 1..3 : o.next[b] \in Version
  BY FileNextKnown DEF Known
<1>7. RoundsUp(p, o) \/ \A k \in 1..3 : o.next[k] = o.next[1]
  BY FileRounds, FixedSame
<1>8. \A g : RoundsUp(p, g) => \A b \in 1..3 : g.next[b] \in Version
  BY DEF RoundsUp, Level, AsksFor
<1>9. f = o \/ \E d \in Above(p) : f = PointAt(d)
  BY DEF Points
<1> HIDE DEF o
<1>10. CASE f = o
  BY <1>1, <1>4, <1>5, <1>6, <1>7, <1>10 DEF o
<1>11. CASE f # o
  <2>1. PICK d \in Above(p) : f = PointAt(d)
    BY <1>9, <1>11
  <2>2. /\ f.version \in Version /\ f.commit \in Nat /\ Less(Cur(file, p), f.version)
        /\ RoundsUp(p, f)
    BY <1>2, <1>3, <2>1
  <2>3. ~Less(f.version, Cur(file, p))
    BY <1>1, <2>2, LessOrders
  <2> QED
    BY <1>8, <1>11, <2>2, <2>3 DEF o
<1> QED
  BY <1>10, <1>11

\* A version has one point.
LEMMA PointsDiffer ==
    ASSUME TypeOK, GoodFile(file), ChannelsApart(branch, file), NEW p \in Packages, Proper(p),
           NEW f \in Points(p), NEW g \in Points(p), f.version = g.version
    PROVE  f = g
<1> DEFINE o == PointOf(file, p)
<1>1. o.version = Cur(file, p) /\ Cur(file, p) \in Version /\ ~Less(Cur(file, p), Cur(file, p))
  BY VersionsIn, LessOrders DEF TypeOK, PointOf
<1>2. \A x \in {f, g} : x # o => \E d \in Above(p) : x = PointAt(d)
  BY DEF Points
<1>3. \A d \in Above(p) : PointAt(d).version = d.version /\ Less(Cur(file, p), d.version)
  BY DEF PointAt, Above
<1>4. \A d, e \in Above(p) : d.version = e.version => d = e
  BY DEF Above, TypeOK, Sound
<1> HIDE DEF o
<1> QED
  BY <1>1, <1>2, <1>3, <1>4

LEMMA FirstOfReset ==
    ASSUME NEW p \in Packages, Followed(p)
    PROVE  FixedFirst(p)
<1> SUFFICES ASSUME NEW x \in Above(p) PROVE ~Less(x.version, PointOf(file, p).next[1])
  BY DEF FixedFirst
<1>1. PointAt(x) \in Points(p) /\ PointOf(file, p) \in Points(p)
  BY DEF Points
<1>2. PointAt(x).version = x.version /\ PointOf(file, p).version = Cur(file, p)
  BY DEF PointAt, PointOf
<1>3. Less(Cur(file, p), x.version)
  BY DEF Above
<1>4. AsksIn(log, p, PointOf(file, p).commit, PointAt(x).commit, 1)
  BY DEF AsksIn
<1> QED
  BY <1>1, <1>2, <1>3, <1>4 DEF Followed

\* From the point of its file, the version that a run publishes is above all others.
LEMMA Newcomer ==
    ASSUME TypeOK, GoodFile(file), ChannelsApart(branch, file), NEW p \in Packages,
           Proper(p), Growing(p), Reachable(p), Followed(p), Seen = head,
           NEW g \in Points(p), NEW B \in 1..3,
           AsksIn(log, p, g.commit, head, B), NoMore(log, p, g.commit, head, B),
           Less(g.version, g.next[B]), OnNpm(npm, p, g.next[B]) = {}
    PROVE  LET e == g.next[B]
           IN  /\ e \in Version
               /\ \A x \in Points(p) : Less(x.version, e)
               /\ \A f \in Points(p), b \in 1..3 :
                     /\ NoMore(log, p, f.commit, head, b)
                     /\ \A x \in Points(p) : Less(f.version, x.version) => Less(x.version, f.next[b])
                     => ~Less(f.next[b], e)
               /\ \A f \in Points(p), b \in 1..3 :
                     AsksIn(log, p, f.commit, head, b) => ~Less(e, f.next[b])
<1> DEFINE e == g.next[B]
<1>1. \A f \in Points(p) :
         /\ f.version \in Version /\ f.commit \in Nat /\ \A b \in 1..3 : f.next[b] \in Version
         /\ \/ RoundsUp(p, f)
            \/ /\ f.version = Cur(file, p) /\ \A k \in 1..3 : f.next[k] = f.next[1]
         /\ ~Less(f.version, Cur(file, p))
  BY PointTyped
<1>2. \A f, x \in Points(p), b, c \in 1..3 :
         b <= c /\ Less(x.version, f.next[c]) => ~Less(f.next[c], x.next[b])
  BY FirstOfReset, Rounds
<1>3. e \in Version
  BY <1>1
<1>4. head \in Nat /\ log \in Seq(Commit) /\ head <= Len(log) /\ Len(log) \in Nat
      /\ \A i \in 1..head : log[i].bump \in 0..3
  <2>1. head \in Nat /\ log \in Seq(Commit) /\ head <= Len(log) /\ Len(log) \in Nat
    BY DEF TypeOK
  <2>2. \A i \in 1..Len(log) : log[i] \in Commit
    BY <2>1
  <2> QED
    BY <2>1, <2>2 DEF Commit
<1>5. \A x \in Points(p) : Less(x.version, e)
  <2>1. \A x \in Points(p) : Less(g.version, x.version) => Less(x.version, e)
    BY DEF Reachable
  <2> SUFFICES ASSUME NEW x \in Points(p) PROVE Less(x.version, e)
    OBVIOUS
  <2>2. CASE Less(g.version, x.version)
    BY <2>1, <2>2
  <2>3. CASE ~Less(g.version, x.version)
    BY <1>1, <1>3, <2>3, LessOrders
  <2> QED
    BY <2>2, <2>3
\* What is asked for after a point that the file does not stand behind is no more than B.
<1>6. ASSUME NEW from \in Nat, NEW b \in 1..3, AsksIn(log, p, from, head, b), g.commit <= from
      PROVE  b <= B
  <2>1. CASE b = 1
    BY <2>1
  <2>2. CASE b # 1
    <3>1. PICK i \in from + 1..head : p \in log[i].touches /\ log[i].bump = b
      BY <1>6, <2>2 DEF AsksIn
    <3>2. i \in g.commit + 1..head
      BY <1>1, <1>4, <1>6
    <3> QED
      BY <3>1, <3>2 DEF NoMore
  <2> QED
    BY <2>1, <2>2
<1>7. ASSUME NEW f \in Points(p), NEW b \in 1..3, NoMore(log, p, f.commit, head, b),
             f.commit <= g.commit
      PROVE  B <= b
  <2>1. CASE B = 1
    BY <2>1
  <2>2. CASE B # 1
    <3>1. PICK i \in g.commit + 1..head : p \in log[i].touches /\ log[i].bump = B
      BY <2>2 DEF AsksIn
    <3>2. i \in f.commit + 1..head
      BY <1>1, <1>4, <1>7
    <3> QED
      BY <1>7, <3>1, <3>2 DEF NoMore
  <2> QED
    BY <2>1, <2>2
<1>8. \A x, f \in Points(p) : Less(x.version, f.version) => x.commit <= f.commit
  BY DEF Growing
<1>9. \A f \in Points(p) : RoundsUp(p, f) => \A b \in 1..3 : Less(f.version, f.next[b])
  BY DEF RoundsUp
<1>10. ASSUME NEW f \in Points(p), NEW b \in 1..3, NoMore(log, p, f.commit, head, b),
              \A x \in Points(p) : Less(f.version, x.version) => Less(x.version, f.next[b])
       PROVE  ~Less(f.next[b], e)
  <2>1. CASE Less(f.version, g.version)
    <3>1. B <= b
      BY <1>7, <1>8, <1>10, <2>1
    <3>2. Less(g.version, f.next[b])
      BY <1>10, <2>1
    <3> QED
      BY <1>2, <3>1, <3>2
  <2>2. CASE Less(g.version, f.version)
    <3>1. RoundsUp(p, f)
      BY <1>1, <2>2
    <3>2. Less(f.version, f.next[b]) /\ f.next[b] \in Version
      BY <1>1, <1>9, <3>1
    <3>3. Less(g.version, f.next[b])
      BY <1>1, <2>2, <3>2, LessOrders
    <3>4. CASE B <= b
      BY <1>2, <3>3, <3>4
    <3>5. CASE b < B
      <4>1. PICK i \in g.commit + 1..head : p \in log[i].touches /\ log[i].bump = B
        BY <3>5 DEF AsksIn
      <4>2. ~(i \in f.commit + 1..head)
        BY <1>10, <3>5, <4>1 DEF NoMore
      <4>3. i \in g.commit + 1..f.commit
        BY <1>1, <1>4, <4>2
      <4>4. AsksIn(log, p, g.commit, f.commit, B)
        BY <4>1, <4>3 DEF AsksIn
      <4>5. ~Less(f.version, e)
        BY <2>2, <4>4 DEF Followed
      <4> QED
        BY <1>5, <4>5
    <3> QED
      BY <3>4, <3>5
  <2>3. CASE ~Less(f.version, g.version) /\ ~Less(g.version, f.version)
    <3>1. f = g
      BY <1>1, <2>3, LessOrders, PointsDiffer
    <3>2. CASE RoundsUp(p, f)
      <4>1. Less(g.version, f.next[b])
        BY <1>9, <3>1, <3>2
      <4>2. B <= b
        BY <1>1, <1>7, <1>10, <3>1
      <4> QED
        BY <1>2, <4>1, <4>2
    <3>3. CASE ~RoundsUp(p, f)
      <4>1. f.next[b] = e
        BY <1>1, <3>1, <3>3
      <4> QED
        BY <1>3, <4>1, LessOrders
    <3> QED
      BY <3>2, <3>3
  <2> QED
    BY <2>1, <2>2, <2>3
<1>11. ASSUME NEW f \in Points(p), NEW b \in 1..3, AsksIn(log, p, f.commit, head, b)
       PROVE  ~Less(e, f.next[b])
  <2>1. CASE b <= B
    BY <1>2, <1>5, <2>1
  <2>2. CASE B < b
    <3>1. ~(g.commit <= f.commit)
      BY <1>1, <1>6, <1>11, <2>2
    <3>2. f.commit < g.commit
      BY <1>1, <3>1
    <3>3. Less(f.version, g.version)
      <4>1. ~Less(g.version, f.version)
        BY <1>1, <1>8, <3>1
      <4>2. f # g
        BY <1>1, <3>1
      <4> QED
        BY <1>1, <4>1, <4>2, LessOrders, PointsDiffer
    <3>4. AsksIn(log, p, f.commit, g.commit, b)
      <4>1. PICK i \in f.commit + 1..head : p \in log[i].touches /\ log[i].bump = b
        BY <1>11, <2>2 DEF AsksIn
      <4>2. ~(i \in g.commit + 1..head)
        BY <2>2, <4>1 DEF NoMore
      <4>3. i \in f.commit + 1..g.commit
        BY <1>1, <1>4, <4>2
      <4> QED
        BY <4>1, <4>3 DEF AsksIn
    <3>5. ~Less(g.version, f.next[b])
      BY <3>3, <3>4 DEF Followed
    <3>6. f.next[b] \in Version /\ g.version \in Version /\ Less(g.version, e)
      BY <1>1, <1>5
    <3> QED
      BY <1>3, <3>5, <3>6, LessOrders
  <2> QED
    BY <2>1, <2>2
<1> QED
  BY <1>3, <1>5, <1>10, <1>11

\* A file that goes on from a point of the one before leaves the points above it.
LEMMA PointsShrink ==
    ASSUME TypeOK, NEW p \in Packages, NEW st, st \in Files, file' = st, UNCHANGED <<branch, npm>>,
           PointOf(st, p) \in Points(p), ~Less(Cur(st, p), Cur(file, p)),
           Prereleases(branch) => st.packages[p]["release"] = file.packages[p]["release"]
    PROVE  Points(p)' \subseteq Points(p) /\ (Proper(p) => Proper(p)')
<1>1. Above(p)' = {d \in npm : d.name = p /\ Less(Cur(st, p), d.version)}
  BY DEF Above
<1>2. \A d \in npm : d.version \in Version
  BY DEF TypeOK, Sound, DocumentType, Known
<1>3. Cur(st, p) \in Version /\ Cur(file, p) \in Version
  <2>1. \A s \in Files : Cur(s, p) \in Known
    BY FileFacts, NewestIs DEF Cur, Channels
  <2> QED
    BY <2>1 DEF TypeOK, Known
<1>4. Above(p)' \subseteq Above(p)
  BY <1>1, <1>2, <1>3, LessOrders DEF Above
<1>5. PointOf(file, p)' = PointOf(st, p)
  BY DEF PointOf, Nexts, ResetOf
<1>6. ASSUME NEW d \in Above(p) PROVE PointAt(d)' = PointAt(d)
  <2>1. d.name = p
    BY DEF Above
  <2>2. StableAt(d.name, d.version)' = StableAt(d.name, d.version)
    BY <2>1 DEF StableAt
  <2> QED
    BY <2>2 DEF PointAt, Nexts
<1>7. Points(p)' \subseteq Points(p)
  <2>1. Points(p)' = {PointOf(file, p)'} \cup {PointAt(d)' : d \in Above(p)'}
    BY DEF Points
  <2> QED
    BY <1>4, <1>5, <1>6, <2>1 DEF Points
<1>8. Proper(p) => Proper(p)'
  BY <1>4 DEF Proper
<1> QED
  BY <1>7, <1>8

\* A version that is published is one more point of its package.
LEMMA PointsGrow ==
    ASSUME NEW d, npm' = npm \cup {d}, UNCHANGED <<branch, file>>, NEW p,
           d.name = p => Less(Cur(file, p), d.version)
    PROVE  /\ Above(p)' = IF d.name = p THEN Above(p) \cup {d} ELSE Above(p)
           /\ Points(p)' = IF d.name = p THEN Points(p) \cup {PointAt(d)} ELSE Points(p)
<1>1. Above(p)' = IF d.name = p THEN Above(p) \cup {d} ELSE Above(p)
  BY DEF Above
<1>2. PointOf(file, p)' = PointOf(file, p)
  BY DEF PointOf, Nexts, ResetOf
<1>3. ASSUME NEW e PROVE PointAt(e)' = PointAt(e)
  BY DEF PointAt, Nexts, StableAt
<1>4. Points(p)' = {PointOf(file, p)'} \cup {PointAt(e)' : e \in Above(p)'}
  BY DEF Points
<1> QED
  BY <1>1, <1>2, <1>3, <1>4 DEF Points

\* The history that is there stays.
Longer ==
    /\ Len(log) \in Nat /\ Len(log') \in Nat /\ Len(log) <= Len(log')
    /\ \A i \in 1..Len(log) : log'[i] = log[i]

LEMMA AskedBefore ==
    ASSUME Longer, NEW p, NEW from \in Nat, NEW to \in Nat, to <= Len(log), NEW b \in 1..3
    PROVE  /\ AsksIn(log', p, from, to, b) <=> AsksIn(log, p, from, to, b)
           /\ NoMore(log', p, from, to, b) <=> NoMore(log, p, from, to, b)
<1>1. \A i \in from + 1..to : log'[i] = log[i]
  BY DEF Longer
<1> QED
  BY <1>1 DEF AsksIn, NoMore

LEMMA RisingStays ==
    ASSUME TypeOK, GoodFile(file), ChannelsApart(branch, file), NEW p \in Packages, Rising(p),
           Points(p)' \subseteq Points(p), npm \subseteq npm', Longer,
           Seen \in Nat, Seen' \in Nat, Seen <= Seen', Seen <= Len(log)
    PROVE  Growing(p)' /\ Reachable(p)' /\ Followed(p)'
<1>1. \A f \in Points(p) : f.commit \in Nat /\ f.commit <= Seen
  BY PointTyped DEF Rising, Growing
<1>2. Growing(p)'
  <2>1. ASSUME NEW f \in Points(p)' PROVE f.commit <= Seen'
    BY <1>1
  <2> QED
    BY <2>1 DEF Growing, Rising
<1>3. Followed(p)'
  <2> SUFFICES ASSUME NEW f \in Points(p)', NEW g \in Points(p)', NEW b \in 1..3,
                      Less(g.version, f.version), AsksIn(log', p, g.commit, f.commit, b)
               PROVE  ~Less(f.version, g.next[b])
    BY DEF Followed
  <2>1. g.commit \in Nat /\ f.commit \in Nat /\ f.commit <= Len(log)
    BY <1>1
  <2>2. AsksIn(log, p, g.commit, f.commit, b)
    BY <2>1, AskedBefore
  <2> QED
    BY <2>2 DEF Rising, Followed
<1>4. Reachable(p)'
  <2> SUFFICES ASSUME NEW f \in Points(p)', NEW b \in 1..3,
                      NoMore(log', p, f.commit, Seen', b)
               PROVE  \/ OnNpm(npm', p, f.next[b]) # {}
                      \/ \A x \in Points(p)' : Less(f.version, x.version)
                                               => Less(x.version, f.next[b])
    BY DEF Reachable
  <2>1. f \in Points(p) /\ f.commit \in Nat
    BY <1>1
  <2>2. NoMore(log', p, f.commit, Seen, b)
    <3>1. \A i \in f.commit + 1..Seen : i \in f.commit + 1..Seen'
      BY <2>1
    <3> QED
      BY <3>1 DEF NoMore
  <2>3. NoMore(log, p, f.commit, Seen, b)
    BY <2>1, <2>2, AskedBefore
  <2>4. \/ OnNpm(npm, p, f.next[b]) # {}
        \/ \A x \in Points(p) : Less(f.version, x.version) => Less(x.version, f.next[b])
    BY <2>1, <2>3 DEF Rising, Reachable
  <2>5. OnNpm(npm, p, f.next[b]) \subseteq OnNpm(npm', p, f.next[b])
    BY DEF OnNpm
  <2> QED
    BY <2>4, <2>5
<1> QED
  BY <1>2, <1>3, <1>4

\* What is published next rises above all, and stays in order.
LEMMA PublicationRises ==
    ASSUME TypeOK, GoodFile(file), ChannelsApart(branch, file), NEW p \in Packages,
           Rising(p), Seen = head, Seen' = head,
           NEW g \in Points(p), NEW B \in 1..3,
           AsksIn(log, p, g.commit, head, B), NoMore(log, p, g.commit, head, B),
           Less(g.version, g.next[B]), OnNpm(npm, p, g.next[B]) = {},
           OfChannel(g.next[B], branch),
           NEW d, d.name = p, d.version = g.next[B], d.commit = head,
           npm' = npm \cup {d}, UNCHANGED <<branch, log, file, head>>
    PROVE  /\ \A e \in npm : e.name = p => Less(e.version, d.version)
           /\ Rising(p)'
<1> DEFINE e == g.next[B]
           h == PointAt(d)
<1>1. /\ e \in Version
      /\ \A x \in Points(p) : Less(x.version, e)
      /\ \A f \in Points(p), b \in 1..3 :
            /\ NoMore(log, p, f.commit, head, b)
            /\ \A x \in Points(p) : Less(f.version, x.version) => Less(x.version, f.next[b])
            => ~Less(f.next[b], e)
      /\ \A f \in Points(p), b \in 1..3 :
            AsksIn(log, p, f.commit, head, b) => ~Less(e, f.next[b])
  BY Newcomer DEF Rising
<1>2. h.version = e /\ h.commit = head
  BY DEF PointAt
<1>3. \A f \in Points(p) :
         /\ f.version \in Version /\ f.commit \in Nat /\ \A b \in 1..3 : f.next[b] \in Version
  BY PointTyped DEF Rising
<1>4. Less(Cur(file, p), e) /\ Cur(file, p) \in Version
  <2>1. PointOf(file, p) \in Points(p) /\ PointOf(file, p).version = Cur(file, p)
    BY DEF Points, PointOf
  <2> QED
    BY <1>1, <1>3, <2>1
<1>5. Above(p)' = Above(p) \cup {d} /\ Points(p)' = Points(p) \cup {h}
  BY <1>4, PointsGrow
<1>6. ASSUME NEW x \in npm, x.name = p PROVE Less(x.version, e)
  <2>1. x.version \in Version
    BY DEF TypeOK, Sound, DocumentType, Known
  <2>2. CASE Less(Cur(file, p), x.version)
    <3>1. PointAt(x) \in Points(p) /\ PointAt(x).version = x.version
      BY <1>6, <2>2 DEF Points, Above, PointAt
    <3> QED
      BY <1>1, <3>1
  <2>3. CASE ~Less(Cur(file, p), x.version)
    BY <1>1, <1>4, <2>1, <2>3, LessOrders
  <2> QED
    BY <2>2, <2>3
<1> HIDE DEF e, h
<1>7. Proper(p)'
  BY <1>5 DEF Proper, Rising, e
<1>8. Growing(p)'
  <2>1. \A f \in Points(p) : f.commit <= head
    BY DEF Rising, Growing
  <2>2. \A f, x \in Points(p) : Less(f.version, x.version) => f.commit <= x.commit
    BY DEF Rising, Growing
  <2>3. \A f \in Points(p) : ~Less(h.version, f.version)
    BY <1>1, <1>2, <1>3, LessOrders
  <2>4. ~Less(h.version, h.version) /\ head \in Nat
    BY <1>1, <1>2, LessOrders DEF TypeOK
  <2>5. \A f \in Points(p) \cup {h} : f.commit <= head
    BY <1>2, <2>1, <2>4
  <2>6. \A f, x \in Points(p) \cup {h} : Less(f.version, x.version) => f.commit <= x.commit
    BY <1>2, <2>1, <2>2, <2>3, <2>4
  <2> QED
    BY <1>5, <2>5, <2>6 DEF Growing
<1>9. Reachable(p)'
  <2> SUFFICES ASSUME NEW f \in Points(p) \cup {h}, NEW b \in 1..3,
                      NoMore(log, p, f.commit, head, b)
               PROVE  \/ OnNpm(npm', p, f.next[b]) # {}
                      \/ \A x \in Points(p) \cup {h} : Less(f.version, x.version)
                                                       => Less(x.version, f.next[b])
    BY <1>5 DEF Reachable
  <2>1. CASE f = h
    <3>1. \A x \in Points(p) \cup {h} : ~Less(h.version, x.version)
      BY <1>1, <1>2, <1>3, LessOrders
    <3> QED
      BY <2>1, <3>1
  <2>2. CASE f \in Points(p)
    <3>1. \/ OnNpm(npm, p, f.next[b]) # {}
          \/ \A x \in Points(p) : Less(f.version, x.version) => Less(x.version, f.next[b])
      BY <2>2 DEF Rising, Reachable
    <3>2. CASE OnNpm(npm, p, f.next[b]) # {}
      BY <3>2 DEF OnNpm
    <3>3. CASE \A x \in Points(p) : Less(f.version, x.version) => Less(x.version, f.next[b])
      <4>1. ~Less(f.next[b], e)
        BY <1>1, <2>2, <3>3
      <4>2. f.next[b] = e \/ Less(e, f.next[b])
        BY <1>1, <1>3, <2>2, <4>1, LessOrders
      <4>3. CASE f.next[b] = e
        <5>1. d \in OnNpm(npm', p, f.next[b])
          BY <4>3 DEF OnNpm, e
        <5> QED
          BY <5>1
      <4>4. CASE Less(e, f.next[b])
        BY <1>2, <3>3, <4>4
      <4> QED
        BY <4>2, <4>3, <4>4
    <3> QED
      BY <3>1, <3>2, <3>3
  <2> QED
    BY <2>1, <2>2
<1>10. Followed(p)'
  <2> SUFFICES ASSUME NEW f \in Points(p) \cup {h}, NEW x \in Points(p) \cup {h}, NEW b \in 1..3,
                      Less(x.version, f.version), AsksIn(log, p, x.commit, f.commit, b)
               PROVE  ~Less(f.version, x.next[b])
    BY <1>5 DEF Followed
  <2>1. x # h
    BY <1>1, <1>2, <1>3, LessOrders
  <2>2. CASE f = h
    BY <1>1, <1>2, <2>1, <2>2
  <2>3. CASE f # h
    BY <2>1, <2>3 DEF Rising, Followed
  <2> QED
    BY <2>2, <2>3
<1> QED
  BY <1>6, <1>7, <1>8, <1>9, <1>10 DEF Rising, e

\* What a file says of a history.

LEMMA BumpsStay ==
    ASSUME NEW lg \in Seq(Commit), NEW more \in Seq(Commit), Len(lg) <= Len(more),
           \A i \in 1..Len(lg) : more[i] = lg[i], NEW p, NEW from \in Nat,
           BumpSince(lg, p, from) # 0
    PROVE  BumpSince(more, p, from) # 0
<1>1. PICK i \in from + 1..Len(lg) : p \in lg[i].touches /\ lg[i].bump = BumpSince(lg, p, from)
  BY BumpSinceIs
<1>2. i \in 1..Len(lg) /\ i \in from + 1..Len(more) /\ Len(lg) \in Nat
  OBVIOUS
<1>3. p \in more[i].touches /\ more[i].bump = BumpSince(lg, p, from)
  BY <1>1, <1>2
<1>4. NoMore(more, p, from, Len(more), BumpSince(more, p, from))
      /\ BumpSince(more, p, from) \in 0..3 /\ BumpSince(lg, p, from) \in 0..3
  BY BumpSinceIs
<1>5. more[i].bump <= BumpSince(more, p, from)
  BY <1>2, <1>3, <1>4 DEF NoMore
<1> QED
  BY <1>3, <1>4, <1>5

LEMMA FreshStays ==
    ASSUME NEW lg \in Seq(Commit), NEW more \in Seq(Commit), Len(lg) <= Len(more),
           \A i \in 1..Len(lg) : more[i] = lg[i], NEW p, NEW st,
           BaselineFor(st, p, branch).commit \in Nat, Fresh(st, lg, p)
    PROVE  Fresh(st, more, p)
BY BumpsStay DEF Fresh

LEMMA AccountedIsFresh ==
    ASSUME NEW st \in Files, NEW lg, Accounted(branch, lg, st), NEW p \in Packages
    PROVE  Fresh(st, lg, p)
<1>1. CASE st.deploys = <<>>
  <2>1. ResetOf(st, p) = ResetVersion(st, branch)
    BY <1>1 DEF ResetOf
  <2> QED
    BY <2>1, ResetKnown DEF Fresh
<1>2. CASE st.deploys # <<>>
  <2>1. ResetOf(st, p) = IF BaselineFor(st, p, branch).commit = 0 THEN PendingReset(st, branch)
                         ELSE None
    BY <1>2 DEF ResetOf
  <2> QED
    BY <1>2, <2>1 DEF Fresh, Accounted
<1> QED
  BY <1>1, <1>2

\* The history that a run began with stays as it was.
LEMMA PrefixIs ==
    ASSUME TypeOK
    PROVE  /\ Prefix \in Seq(Commit) /\ Len(Prefix) = head /\ head \in Nat /\ head <= Len(log)
           /\ log \in Seq(Commit) /\ Len(log) \in Nat
           /\ \A i \in 1..head : Prefix[i] = log[i]
<1>1. head \in Nat /\ head <= Len(log) /\ log \in Seq(Commit) /\ Len(log) \in Nat
  BY DEF TypeOK
<1>2. Prefix = SubSeq(log, 1, head)
  BY DEF Prefix
<1> QED
  BY <1>1, <1>2

LEMMA PrefixStays ==
    ASSUME TypeOK, Longer, log' \in Seq(Commit), head' = head
    PROVE  Prefix' = Prefix
<1>1. head \in Nat /\ head <= Len(log) /\ log \in Seq(Commit) /\ Len(log) \in Nat
  BY DEF TypeOK
<1>2. Prefix' = SubSeq(log', 1, head) /\ Prefix = SubSeq(log, 1, head)
  BY DEF Prefix
<1>3. Prefix' = [i \in 1..head |-> log'[i]] /\ Prefix = [i \in 1..head |-> log[i]]
  BY <1>1, <1>2 DEF Longer
<1>4. \A i \in 1..head : log'[i] = log[i]
  BY <1>1 DEF Longer
<1> HIDE DEF Prefix
<1> QED
  BY <1>3, <1>4

LEMMA AsksOfPrefix ==
    ASSUME TypeOK, NEW p, NEW from \in Nat, NEW b \in 1..3
    PROVE  /\ AsksIn(Prefix, p, from, head, b) <=> AsksIn(log, p, from, head, b)
           /\ NoMore(Prefix, p, from, head, b) <=> NoMore(log, p, from, head, b)
<1>1. \A i \in from + 1..head : Prefix[i] = log[i]
  BY PrefixIs
<1> QED
  BY <1>1 DEF AsksIn, NoMore

\* What a run knows of its file and its plan does not change while they do not.
LEMMA RunStays ==
    ASSUME TypeOK, GoodFile(state), Longer, log' \in Seq(Commit), npm \subseteq npm',
           UNCHANGED <<branch, head, state, plan>>
    PROVE  /\ Prefix' = Prefix
           /\ (ChannelsApart(branch, state) => ChannelsApart(branch, state)')
           /\ Resets => Resets'
           /\ Stands => Stands'
           /\ \A p \in Packages :
                /\ PointOf(state, p)' = PointOf(state, p)
                /\ Fresh(state, Prefix, p)' <=> Fresh(state, Prefix, p)
                /\ Due(p) => Due(p)'
                /\ StandsFor(p) => StandsFor(p)'
                /\ WasPublished(p) => WasPublished(p)'
<1>1. Prefix' = Prefix
  BY PrefixStays
<1>2. \A p, v : OnNpm(npm, p, v) \subseteq OnNpm(npm', p, v)
  BY DEF OnNpm
<1>3. ASSUME NEW p \in Packages
      PROVE  ResetOf(state, p)' = ResetOf(state, p) /\ PointOf(state, p)' = PointOf(state, p)
  BY DEF ResetOf, PointOf, Nexts
<1>4. \A p \in Packages : BaselineFor(state, p, branch).commit \in Nat
  BY BaselineTyped DEF TypeOK
<1>5. head \in Nat /\ head <= Len(log)
  BY PrefixIs
<1>6. Resets => Resets'
  BY <1>3 DEF Resets
<1>7. Stands => Stands'
  BY <1>1, <1>3 DEF Stands, PlansIt
<1>8. ASSUME NEW p \in Packages PROVE Fresh(state, Prefix, p)' <=> Fresh(state, Prefix, p)
  BY <1>1, <1>3 DEF Fresh
<1>9. ASSUME NEW p \in Packages, Due(p) PROVE Due(p)'
  <2>1. \A b \in 1..3 : LET from == BaselineFor(state, p, branch).commit
                        IN  /\ AsksIn(log, p, from, head, b) => AsksIn(log', p, from, head, b)
                            /\ NoMore(log, p, from, head, b) => NoMore(log', p, from, head, b)
    BY <1>4, <1>5, AskedBefore
  <2> QED
    BY <1>3, <1>9, <2>1 DEF Due
<1>10. ASSUME NEW p \in Packages, StandsFor(p) PROVE StandsFor(p)'
  <2>1. Releasers(p)' \cap 1..head = Releasers(p) \cap 1..head
    <3>1. \A i \in 1..head : i \in DOMAIN log /\ i \in DOMAIN log' /\ log'[i] = log[i]
      BY <1>5 DEF Longer, TypeOK
    <3> QED
      BY <3>1 DEF Releasers
  <2>2. PICK d \in OnNpm(npm, p, plan[p].current) :
          /\ \A i \in Releasers(p) \cap 1..head : i <= d.built
          /\ \A dep \in Deps[p] :
                plan[dep].next = None /\ d.dependencies[dep] = plan[dep].current
    BY <1>10 DEF StandsFor
  <2>3. d \in OnNpm(npm', p, plan[p].current)
    BY <1>2
  <2> QED
    BY <1>10, <2>1, <2>2, <2>3 DEF StandsFor
<1>11. ASSUME NEW p \in Packages, WasPublished(p) PROVE WasPublished(p)'
  BY <1>2, <1>11 DEF WasPublished
<1>12. ChannelsApart(branch, state) => ChannelsApart(branch, state)'
  OBVIOUS
<1> QED
  BY <1>1, <1>3, <1>6, <1>7, <1>8, <1>9, <1>10, <1>11, <1>12

\* A file with one more record goes on from the document that it records.
LEMMA RecordGoesOn ==
    ASSUME TypeOK, NEW st, GoodFile(st), NotBelow(st), GoesOn(st),
           NEW opened \in BOOLEAN, opened => Opened(st),
           NEW resetTo \in Known, opened \/ ResetFits(st, resetTo),
           resetTo # None => OfChannel(resetTo, branch),
           NEW entry \in EntryType, Less(Cur(st, entry.name), entry.version),
           OfChannel(entry.version, branch),
           NEW d \in OnNpm(npm, entry.name, entry.version), d.dependencies = entry.dependencies,
           d.commit = IF entry.commit = 0 THEN head ELSE entry.commit, d.commit # 0
    PROVE  LET new == Record(st, opened, entry, resetTo)
               name == entry.name
           IN  /\ GoesOn(new)
               /\ new.packages[name][branch] = entry.version
               /\ \A q \in Packages \ {name} :
                     /\ new.packages[q] = st.packages[q] /\ PointOf(new, q) = PointOf(st, q)
                     /\ BaselineFor(new, q, branch) = BaselineFor(st, q, branch)
<1> DEFINE new == Record(st, opened, entry, resetTo)
           name == entry.name
           v == entry.version
<1>1. /\ \A q \in Packages \ {name} :
            /\ new.packages[q] = st.packages[q] /\ Cur(new, q) = Cur(st, q)
            /\ BaselineFor(new, q, branch) = BaselineFor(st, q, branch)
            /\ ResetOf(new, q) = ResetOf(st, q)
      /\ new.packages[name] = [st.packages[name] EXCEPT ![branch] = v]
      /\ Cur(new, name) = v /\ v # None
      /\ BaselineFor(new, name, branch).commit = d.commit
      /\ ResetOf(new, name) = None
      /\ ChannelsApart(branch, new)
  BY RecordPoints DEF GoesOn
<1> HIDE DEF new
<1>2. name \in Packages /\ st \in Files /\ branch \in Channels /\ file \in Files /\ v \in Version
      /\ Sound(log, npm)
  BY DEF EntryType, GoodFile, TypeOK, Known
<1>3. st.packages[name] \in [Channels -> Known]
  BY <1>2, FileFacts
<1>4. /\ new.packages[name][branch] = v
      /\ Prereleases(branch) => new.packages[name]["release"] = st.packages[name]["release"]
      /\ ~Prereleases(branch) => new.packages[name]["release"] = v
  BY <1>1, <1>2, <1>3 DEF Channels, Prereleases
<1>5. \A q \in Packages \ {name} : PointOf(new, q) = PointOf(st, q)
  BY <1>1 DEF PointOf
<1>6. PointOf(new, name) \in Points(name)
  <2>1. d \in npm /\ d.name = name /\ d.version = v
    BY DEF OnNpm
  <2>2. d \in Above(name)
    <3>1. Cur(st, name) \in Version /\ Cur(file, name) \in Version
      <4>1. \A s \in Files : Cur(s, name) \in Known
        BY <1>2, FileFacts, NewestIs DEF Cur, Channels
      <4> QED
        BY <1>2, <4>1 DEF Known
    <3>2. ~Less(Cur(st, name), Cur(file, name)) /\ Less(Cur(st, name), v)
      BY <1>2 DEF NotBelow
    <3>3. Less(Cur(file, name), v)
      BY <1>2, <3>1, <3>2, LessOrders
    <3> QED
      BY <2>1, <3>3 DEF Above
  <2>3. new.packages[name]["release"] = StableAt(name, v)
    BY <1>2, <1>4 DEF StableAt, GoesOn
  <2>4. PointOf(new, name) = PointAt(d)
    BY <1>1, <2>1, <2>3 DEF PointOf, PointAt
  <2> QED
    BY <2>2, <2>4 DEF Points
<1>7. Fresh(new, Prefix, name)
  <2>1. BaselineFor(new, name, branch).current = v
    BY <1>1, BaselineIs
  <2> QED
    BY <1>1, <1>4, <2>1 DEF Fresh
<1>8. ASSUME NEW q \in Packages
      PROVE  /\ PointOf(new, q) \in Points(q)
             /\ Fresh(new, Prefix, q)
             /\ Prereleases(branch) => new.packages[q]["release"] = file.packages[q]["release"]
  <2>1. CASE q = name
    BY <1>2, <1>4, <1>6, <1>7, <2>1 DEF GoesOn
  <2>2. CASE q # name
    BY <1>1, <1>5, <2>2 DEF GoesOn, Fresh
  <2> QED
    BY <2>1, <2>2
<1>9. GoesOn(new)
  BY <1>1, <1>8 DEF GoesOn
<1> QED
  BY <1>1, <1>4, <1>5, <1>9 DEF new

\* The first record opens its deploy with the reset that the file is in.
LEMMA ResetUsedFits ==
    ASSUME GoodFile(state), ChannelsApart(branch, state), plan \in Plans, Resets,
           NEW p \in Packages
    PROVE  /\ ResetFits(state, ResetUsed(plan))
           /\ ResetUsed(plan) # None => OfChannel(ResetUsed(plan), branch)
<1> DEFINE T == {plan[q].reset : q \in Packages} \ {None}
           u == ResetUsed(plan)
<1>1. u = IF T = {} THEN None ELSE CHOOSE version \in T : TRUE
  BY DEF ResetUsed
<1>2. \A q \in Packages : plan[q].reset = ResetOf(state, q)
  BY DEF Resets
<1>3. \A x \in T : \E q \in Packages : x = ResetOf(state, q)
  BY <1>2
<1>4. \A x \in T : OfChannel(x, branch)
  BY <1>3, ResetProper DEF GoodFile
<1>5. T = {} => \A q \in Packages : ResetOf(state, q) = None
  BY <1>2
<1> HIDE DEF T, u
<1>6. u = None \/ u \in T
  BY <1>1
<1>7. T # {} => u \in T
  BY <1>1
<1>8. u # None => OfChannel(u, branch)
  BY <1>4, <1>6
<1>9. CASE state.deploys = <<>>
  <2>1. \A q \in Packages : ResetOf(state, q) = ResetVersion(state, branch)
    BY <1>9 DEF ResetOf
  <2>2. ResetVersion(state, branch) # None
    BY ResetKnown DEF GoodFile
  <2>3. u = ResetVersion(state, branch)
    BY <1>3, <1>5, <1>7, <2>1, <2>2
  <2> QED
    BY <1>8, <1>9, <2>3 DEF ResetFits, u
<1>10. CASE state.deploys # <<>>
  <2>1. \A q \in Packages : ResetOf(state, q) \in {None, PendingReset(state, branch)}
    BY <1>10 DEF ResetOf
  <2>2. u \in {None, PendingReset(state, branch)}
    BY <1>3, <1>6, <2>1
  <2> QED
    BY <1>8, <1>10, <2>2 DEF ResetFits, u
<1> QED
  BY <1>9, <1>10

LEMMA FromNpmGoesOn ==
    ASSUME TypeOK, Running, Planning, GoesOn(state), ~recorded => Resets, Stands,
           \A p \in PublishedBefore : Doc(p).commit \in 1..head
    PROVE  GoesOn(RecordedFromNpm)
<1> DEFINE N == Len(Order)
           reset == ResetUsed(plan)
<1>1. PICK known : TakesOver(known)
  BY FromNpmSteps
<1>2. /\ known[0] = state /\ known[N] = RecordedFromNpm
      /\ \A i \in 1..N : known[i] = TakenOver(i, known[i - 1])
      /\ \A i \in 0..N : GoodTaken(i, known[i])
  BY <1>1 DEF TakesOver
<1>3. N \in Nat
  BY Places
<1>4. plan \in Plans /\ GoodFile(state) /\ reset \in Known
  BY ResetUsedKnown DEF Running
<1>5. \A i : OpenedBy(i) \in BOOLEAN
  BY DEF OpenedBy, TypeOK
<1> HIDE DEF N
<1> DEFINE S == {n \in Nat : n <= N =>
                    GoesOn(known[n]) /\ (~OpenedBy(n) => known[n] = state)}
<1>6. 0 \in S
  BY <1>2
<1>7. ASSUME NEW n \in Nat, n \in S PROVE n + 1 \in S
  <2> SUFFICES ASSUME n + 1 <= N
               PROVE  /\ GoesOn(known[n + 1])
                      /\ ~OpenedBy(n + 1) => known[n + 1] = state
    OBVIOUS
  <2> DEFINE x == known[n]
             y == known[n + 1]
             q == Order[n + 1]
  <2>1. GoesOn(x) /\ (~OpenedBy(n) => x = state) /\ n \in 0..N /\ n + 1 \in 1..N /\ (n + 1) - 1 = n
    BY <1>3, <1>7
  <2>2. GoodFile(x) /\ NotBelow(x) /\ (OpenedBy(n) => Opened(x))
        /\ \A j \in n + 1..N : Cur(x, Order[j]) = Cur(state, Order[j])
    BY <1>2, <2>1 DEF GoodTaken, N
  <2>3. OpenedBy(n + 1) <=> OpenedBy(n) \/ q \in PublishedBefore
    <3>1. 1..n + 1 = 1..n \cup {n + 1}
      OBVIOUS
    <3> QED
      BY <3>1 DEF OpenedBy
  <2>4. y = TakenOver(n + 1, x)
    <3>1. known[n + 1] = TakenOver(n + 1, known[(n + 1) - 1])
      BY <1>2, <2>1
    <3> QED
      BY <2>1, <3>1
  <2> HIDE DEF x, y
  <2>5. CASE q \notin PublishedBefore
    <3>1. y = x
      BY <2>4, <2>5 DEF TakenOver
    <3> QED
      BY <2>1, <2>3, <2>5, <3>1 DEF y
  <2>6. CASE q \in PublishedBefore
    <3> DEFINE entry == EntryOfNpm(q)
    <3>1. y = Record(x, OpenedBy(n), entry, reset)
      BY <2>1, <2>4, <2>6 DEF TakenOver
    <3>2. /\ q \in Packages /\ Doc(q) \in OnNpm(npm, q, plan[q].next)
          /\ plan[q].next # None /\ entry \in EntryType
          /\ entry.name = q /\ entry.version = plan[q].next
          /\ entry.dependencies = Doc(q).dependencies
          /\ entry.commit = Doc(q).commit
      BY <1>4, <2>6, DocIs
    <3>3. Doc(q).commit # 0
      BY <2>6 DEF TypeOK
    <3>4. Less(Cur(x, q), plan[q].next)
      <4>1. n + 1 \in n + 1..N
        BY <2>1, <1>3
      <4>2. Cur(x, q) = plan[q].current
        BY <2>2, <3>2, <4>1 DEF Planning, Starts
      <4> QED
        BY <3>2, <4>2 DEF Running, Rises, Releasing
    <3>5. OfChannel(plan[q].next, branch)
      BY <3>2 DEF Stands, PlansIt, GoesOn
    <3>6. OpenedBy(n) \/ ResetFits(x, reset)
      <4> SUFFICES ASSUME ~OpenedBy(n) PROVE ResetFits(x, reset)
        OBVIOUS
      <4>1. x = state /\ Resets
        BY <2>1 DEF OpenedBy
      <4> QED
        BY <1>4, <3>2, <4>1, ResetUsedFits DEF GoesOn
    <3>7. reset # None => OfChannel(reset, branch)
      <4>1. \A r \in {plan[p].reset : p \in Packages} \ {None} : OfChannel(r, branch)
        <5> SUFFICES ASSUME NEW p \in Packages, plan[p].reset # None
                     PROVE  OfChannel(plan[p].reset, branch)
          OBVIOUS
        <5>1. plan[p].reset = ResetOf(state, p)
          BY DEF Stands, PlansIt
        <5> QED
          BY <1>4, <5>1, ResetProper DEF GoodFile, GoesOn
      <4> QED
        BY <4>1 DEF ResetUsed
    <3> HIDE DEF entry, q, reset
    <3>8. /\ entry.name \in Packages
          /\ Doc(q) \in OnNpm(npm, entry.name, entry.version)
          /\ Doc(q).commit = IF entry.commit = 0 THEN head ELSE entry.commit
          /\ Less(Cur(x, entry.name), entry.version) /\ OfChannel(entry.version, branch)
      BY <3>2, <3>3, <3>4, <3>5
    <3>9. GoesOn(y)
      BY <1>4, <1>5, <2>1, <2>2, <3>1, <3>2, <3>3, <3>6, <3>7, <3>8, RecordGoesOn
    <3> QED
      BY <2>3, <2>6, <3>9 DEF y
  <2> QED
    BY <2>5, <2>6
<1>8. N \in S
  <2> HIDE DEF S
  <2>1. Nat \subseteq S
    BY <1>6, <1>7, Induct
  <2> QED
    BY <1>3, <2>1
<1>9. GoesOn(known[N])
  BY <1>3, <1>8
<1> QED
  BY <1>2, <1>9

LEMMA PlanStands ==
    ASSUME TypeOK, NEW st, GoodFile(st), NEW lg \in Seq(Commit)
    PROVE  \A p \in Packages : PlansIt(BuildPlan(branch, st, lg), st, lg, p)
<1> DEFINE made == BuildPlan(branch, st, lg)
<1>1. \A p \in Packages : made[p] = Planned(made, p, st, branch, lg)
  BY BuildPlanIs
<1> HIDE DEF made
<1>2. \A p \in Packages : PlansIt(made, st, lg, p)
  BY <1>1, PlanIs
<1> QED
  BY <1>2 DEF made

\* When a run starts to publish, what it plans to publish is asked for, and what it does
\* not is as the commits that it began with ask.
LEMMA PlanStarts ==
    ASSUME TypeOK, Running, Planning, GoesOn(state), Stands
    PROVE  /\ \A p \in Releasing(plan) : Due(p)
           /\ \A p \in Packages \ Releasing(plan) : StandsFor(p)
<1>1. /\ GoodFile(state) /\ Sound(log, npm) /\ branch \in Channels /\ state \in Files
      /\ RecordsWhat(state, npm)
  BY DEF Running, TypeOK, GoodFile
<1>2. \A p \in Packages : BaselineFor(state, p, branch).commit \in Nat
  BY <1>1, BaselineTyped
<1>3. Prefix \in Seq(Commit) /\ Len(Prefix) = head /\ head \in Nat /\ head <= Len(log)
      /\ \A i \in 1..head : Prefix[i] = log[i]
  BY PrefixIs
<1>4. ASSUME NEW p \in Releasing(plan) PROVE Due(p)
  <2>1. p \in Packages /\ plan[p].next # None
    BY DEF Releasing
  <2>2. PlansIt(plan, state, Prefix, p)
    BY <2>1 DEF Stands
  <2>3. OfChannel(plan[p].next, branch)
    BY <2>1, <2>2 DEF PlansIt, GoesOn
  <2>4. PICK b \in 1..3 :
          /\ AsksIn(Prefix, p, BaselineFor(state, p, branch).commit, head, b)
          /\ NoMore(Prefix, p, BaselineFor(state, p, branch).commit, head, b)
          /\ plan[p].next = PointOf(state, p).next[b]
    BY <1>3, <2>1, <2>2 DEF PlansIt
  <2>5. /\ AsksIn(log, p, BaselineFor(state, p, branch).commit, head, b)
        /\ NoMore(log, p, BaselineFor(state, p, branch).commit, head, b)
    BY <1>2, <2>1, <2>4, AsksOfPrefix
  <2> QED
    BY <2>3, <2>4, <2>5 DEF Due
\* A package that is not released has what npm has, and its baseline stands for it.
<1>5. ASSUME NEW p \in Packages \ Releasing(plan)
      PROVE  /\ plan[p].current = Cur(state, p) /\ Cur(state, p) # None
             /\ state.packages[p][branch] = Cur(state, p)
             /\ \E d \in OnNpm(npm, p, Cur(state, p)) :
                   /\ d.dependencies = BaselineFor(state, p, branch).dependencies
                   /\ d.commit = BaselineFor(state, p, branch).commit
             /\ BumpSince(Prefix, p, BaselineFor(state, p, branch).commit) = 0
             /\ \A dep \in Deps[p] :
                   /\ plan[dep].next = None
                   /\ \/ plan[dep].current = None
                      \/ BaselineFor(state, p, branch).dependencies[dep] = plan[dep].current
  <2> DEFINE baseline == BaselineFor(state, p, branch)
  <2>1. plan[p].next = None
    BY DEF Releasing
  <2>2. /\ ResetOf(state, p) = None /\ BumpSince(Prefix, p, baseline.commit) = 0
        /\ \A dep \in Deps[p] :
             /\ plan[dep].next = None
             /\ plan[dep].current = None \/ baseline.dependencies[dep] = plan[dep].current
    BY <2>1 DEF Stands, PlansIt
  <2>3. baseline.commit # 0 /\ state.packages[p][branch] = baseline.current
    BY <2>2 DEF GoesOn, Fresh
  <2>4. plan[p].current = Cur(state, p) /\ baseline.current = Cur(state, p)
    BY BaselineIs DEF Planning, Starts
  <2>5. BaseOf(state, p) # None /\ BaseOf(state, p) = Cur(state, p)
        /\ baseline.commit = FindPublication(state, p, BaseOf(state, p)).commit
        /\ baseline.dependencies = FindPublication(state, p, BaseOf(state, p)).dependencies
    <3>1. BaseOf(state, p) # None
      BY <2>3, BaselineIs
    <3>2. BaseOf(state, p) = Cur(state, p)
      BY <1>1, <2>3, <2>4 DEF BaseOf, Prereleases, Channels
    <3> QED
      BY <3>1, <3>2, BaselineIs
  <2>6. Says(state, p, Cur(state, p))
    BY <1>1, <2>3, <2>5, FoundIsTrue
  <2>7. \E d \in OnNpm(npm, p, Cur(state, p)) :
           d.dependencies = baseline.dependencies /\ d.commit = baseline.commit
    BY <1>1, <2>5, <2>6, FoundIsTrue
  <2> QED
    BY <2>2, <2>3, <2>4, <2>5, <2>7
<1>6. ASSUME NEW p \in Packages \ Releasing(plan) PROVE StandsFor(p)
  <2>1. PICK d \in OnNpm(npm, p, Cur(state, p)) :
          /\ d.dependencies = BaselineFor(state, p, branch).dependencies
          /\ d.commit = BaselineFor(state, p, branch).commit
    BY <1>5
  <2>2. ASSUME NEW i \in Releasers(p) \cap 1..head PROVE i <= d.built
    <3>1. p \in log[i].touches /\ log[i].bump # 0
      BY DEF Releasers
    <3>2. NoMore(Prefix, p, d.commit, head, 0)
      BY <1>2, <1>3, <1>5, <2>1, BumpSinceIs
    <3>3. log[i] \in Commit
      BY <1>3 DEF TypeOK
    <3>4. ~(i \in d.commit + 1..head)
      BY <1>3, <3>1, <3>2, <3>3 DEF NoMore, Commit
    <3>5. d.commit \in Nat /\ d.built \in Nat /\ d.commit <= d.built
      BY <1>1 DEF OnNpm, Sound, DocumentType
    <3> QED
      BY <1>3, <3>4, <3>5
  <2>3. ASSUME NEW dep \in Deps[p]
        PROVE  plan[dep].next = None /\ d.dependencies[dep] = plan[dep].current
    <3>1. dep \in Packages
      BY Places
    <3>2. plan[dep].next = None
      BY <1>5
    <3>3. plan[dep].current # None
      BY <1>5, <3>1, <3>2 DEF Releasing
    <3> QED
      BY <1>5, <2>1, <3>2, <3>3
  <2> QED
    BY <1>5, <2>1, <2>2, <2>3 DEF StandsFor
<1> QED
  BY <1>4, <1>6

LEMMA LogLonger ==
    ASSUME TypeOK
    PROVE  /\ UNCHANGED log => Longer /\ log' \in Seq(Commit)
           /\ \A more \in Seq(Commit) : log' = log \o more => Longer /\ log' \in Seq(Commit)
           /\ \A st : \A n \in Nat : Pushed(st, n) => Longer /\ log' \in Seq(Commit) /\ file' = st
<1>1. log \in Seq(Commit) /\ Len(log) \in Nat
  BY DEF TypeOK
<1>2. UNCHANGED log => Longer /\ log' \in Seq(Commit)
  BY <1>1 DEF Longer
<1>3. ASSUME NEW more \in Seq(Commit), log' = log \o more PROVE Longer /\ log' \in Seq(Commit)
  BY <1>1, <1>3 DEF Longer
<1>4. ASSUME NEW st, NEW n \in Nat, Pushed(st, n) PROVE Longer /\ log' \in Seq(Commit) /\ file' = st
  <2> DEFINE more == [i \in 1..n |-> RecordCommit]
  <2>1. more \in Seq(Commit)
    <3>1. RecordCommit \in Commit
      BY DEF RecordCommit, Commit
    <3> QED
      BY <3>1
  <2>2. log' = log \o more /\ file' = st
    BY <1>4 DEF Pushed
  <2> HIDE DEF more
  <2> QED
    BY <1>3, <2>1, <2>2
<1> QED
  BY <1>2, <1>3, <1>4

LEMMA SeenGrows ==
    ASSUME TypeOK, TypeOK', Longer, pc # "idle" /\ pc' # "idle" => head' = head,
           pc = "idle" /\ pc' # "idle" => head' = Len(log)
    PROVE  Seen \in Nat /\ Seen' \in Nat /\ Seen <= Seen' /\ Seen <= Len(log)
<1>1. head \in Nat /\ head <= Len(log) /\ head' \in Nat
  BY DEF TypeOK
<1>2. Len(log) \in Nat /\ Len(log') \in Nat /\ Len(log) <= Len(log')
  BY DEF Longer
<1> QED
  BY <1>1, <1>2 DEF Seen

\* The branch and npm as they were, with more commits.
LEMMA BranchStays ==
    ASSUME RecordIsTrue, BranchRises, UNCHANGED <<branch, file, npm>>, Longer,
           log' \in Seq(Commit), Seen \in Nat, Seen' \in Nat, Seen <= Seen', Seen <= Len(log)
    PROVE  BranchRises' /\ \A p \in Packages : Points(p)' = Points(p)
<1>1. TypeOK /\ GoodFile(file) /\ ChannelsApart(branch, file)
  BY FileIsGood DEF RecordIsTrue, BranchRises
<1>2. ASSUME NEW p \in Packages PROVE Points(p)' = Points(p) /\ (Proper(p) => Proper(p)')
  BY DEF Points, PointOf, PointAt, Above, Nexts, StableAt, ResetOf, Proper
<1>3. ASSUME NEW p \in Packages PROVE Rising(p)'
  <2>1. Rising(p)
    BY DEF BranchRises
  <2>2. Growing(p)' /\ Reachable(p)' /\ Followed(p)'
    BY <1>1, <1>2, <2>1, RisingStays
  <2> QED
    BY <1>2, <2>1, <2>2 DEF Rising
<1>4. ASSUME NEW p \in Packages PROVE Fresh(file, log, p)'
  <2>1. Fresh(file, log, p) /\ BaselineFor(file, p, branch).commit \in Nat /\ log \in Seq(Commit)
    BY <1>1, BaselineTyped DEF BranchRises, TypeOK
  <2>2. Fresh(file, log', p)
    BY <2>1, FreshStays DEF Longer
  <2> QED
    BY <2>2 DEF Fresh, ResetOf
<1>5. ChannelsApart(branch, file)'
  BY <1>1
<1> QED
  BY <1>2, <1>3, <1>4, <1>5 DEF BranchRises

\* The branch gets the file of the run.
LEMMA BranchGoesOn ==
    ASSUME RecordIsTrue, BranchRises, NEW st, GoodFile(st), NotBelow(st), GoesOn(st),
           UNCHANGED <<branch, npm>>, file' = st, Longer,
           log' \in Seq(Commit), Seen \in Nat, Seen' \in Nat, Seen <= Seen', Seen <= Len(log)
    PROVE  /\ BranchRises'
           /\ \A p \in Packages : PointOf(st, p) \in Points(p)'
<1>1. TypeOK /\ GoodFile(file) /\ ChannelsApart(branch, file) /\ st \in Files
  BY FileIsGood DEF RecordIsTrue, BranchRises, GoodFile
<1>2. ASSUME NEW p \in Packages PROVE Rising(p)'
  <2>1. Rising(p)
    BY DEF BranchRises
  <2>2. Points(p)' \subseteq Points(p) /\ (Proper(p) => Proper(p)')
    <3>1. /\ PointOf(st, p) \in Points(p) /\ ~Less(Cur(st, p), Cur(file, p))
          /\ Prereleases(branch) => st.packages[p]["release"] = file.packages[p]["release"]
      BY DEF GoesOn, NotBelow
    <3> QED
      BY <1>1, <3>1, PointsShrink
  <2>3. Growing(p)' /\ Reachable(p)' /\ Followed(p)'
    BY <1>1, <2>1, <2>2, RisingStays
  <2> QED
    BY <2>1, <2>2, <2>3 DEF Rising
<1>3. ASSUME NEW p \in Packages PROVE Fresh(file, log, p)'
  <2>1. Fresh(st, Prefix, p) /\ BaselineFor(st, p, branch).commit \in Nat
    BY <1>1, BaselineTyped DEF GoesOn, TypeOK
  <2>2. /\ Prefix \in Seq(Commit) /\ Len(Prefix) <= Len(log')
        /\ \A i \in 1..Len(Prefix) : log'[i] = Prefix[i]
    <3>1. /\ Prefix \in Seq(Commit) /\ Len(Prefix) = head /\ head \in Nat /\ head <= Len(log)
          /\ \A i \in 1..head : Prefix[i] = log[i]
      BY <1>1, PrefixIs
    <3> QED
      BY <3>1 DEF Longer
  <2>3. Fresh(st, log', p)
    BY <2>1, <2>2, FreshStays
  <2> QED
    BY <2>3 DEF Fresh, ResetOf
<1>4. ChannelsApart(branch, file)'
  BY DEF GoesOn
<1>5. ASSUME NEW p \in Packages PROVE PointOf(st, p) \in Points(p)'
  BY DEF Points, PointOf, Nexts, ResetOf
<1> QED
  BY <1>2, <1>3, <1>4, <1>5 DEF BranchRises

\* A run that goes on with its file: it goes on from points that are still there.
LEMMA GoesOnStays ==
    ASSUME TypeOK, GoodFile(state), GoesOn(state), Longer, log' \in Seq(Commit), npm \subseteq npm',
           UNCHANGED <<branch, head, state, plan>>,
           \A p \in Packages : PointOf(state, p) \in Points(p)',
           \/ UNCHANGED file
           \/ file' = state
    PROVE  GoesOn(state)'
<1>1. /\ Prefix' = Prefix
      /\ \A p \in Packages : /\ PointOf(state, p)' = PointOf(state, p)
                             /\ Fresh(state, Prefix, p)' <=> Fresh(state, Prefix, p)
  BY RunStays
<1>2. ASSUME NEW p \in Packages, Prereleases(branch)
      PROVE  state.packages[p]["release"] = file'.packages[p]["release"]
  BY <1>2 DEF GoesOn
<1> QED
  BY <1>1, <1>2 DEF GoesOn

\* A step that leaves the run, its file and npm.
LEMMA QuietRises ==
    ASSUME ReleaseInv, ReleaseInv', RiseInv, Longer, log' \in Seq(Commit),
           UNCHANGED <<branch, file, npm, pc, head, base, state, plan, left, recorded, failed>>
    PROVE  RiseInv'
<1>1. TypeOK /\ TypeOK' /\ RecordIsTrue /\ RunOK /\ BranchRises
  BY DEF ReleaseInv, RecordIsTrue, RiseInv
<1>2. Seen \in Nat /\ Seen' \in Nat /\ Seen <= Seen' /\ Seen <= Len(log)
  BY <1>1, SeenGrows
<1>3. BranchRises' /\ \A p \in Packages : Points(p)' = Points(p)
  BY <1>1, <1>2, BranchStays
<1>4. ASSUME pc # "idle" PROVE RunRises'
  <2>1. RunRises /\ GoodFile(state)
    BY <1>1, <1>4 DEF RiseInv, RunOK, Running
  <2>2. GoesOn(state)'
    BY <1>1, <1>3, <2>1, GoesOnStays DEF RunRises, GoesOn
  <2>3. /\ Resets => Resets'
        /\ Stands => Stands'
        /\ \A p \in Packages : /\ Due(p) => Due(p)'
                               /\ StandsFor(p) => StandsFor(p)'
                               /\ WasPublished(p) => WasPublished(p)'
    BY <1>1, <2>1, RunStays
  <2>4. Releasing(plan) \subseteq Packages /\ (pc \in {"publish", "record"} => left \subseteq Packages)
    BY <1>1 DEF Releasing, RunOK, Publishing
  <2> QED
    BY <2>1, <2>2, <2>3, <2>4 DEF RunRises, Ends
<1> QED
  BY <1>3, <1>4 DEF RiseInv

LEMMA PushRises ==
    ASSUME ReleaseInv, ReleaseInv', RiseInv, NEW touched \in SUBSET Packages, NEW bump \in Bumps,
           Push(touched, bump)
    PROVE  RiseInv'
<1> DEFINE commit == [touches |-> touched, bump |-> bump]
<1>1. <<commit>> \in Seq(Commit)
  <2>1. commit \in Commit
    BY BumpsAssumption DEF Commit
  <2> HIDE DEF commit
  <2> QED
    BY <2>1
<1>2. TypeOK /\ log \in Seq(Commit)
  BY DEF ReleaseInv, RecordIsTrue, TypeOK
<1>3. log' = log \o <<commit>>
  <2>1. log' = Append(log, commit)
    BY DEF Push
  <2> HIDE DEF commit
  <2> QED
    BY <1>1, <1>2, <2>1
<1>4. Longer /\ log' \in Seq(Commit)
  <2> HIDE DEF commit
  <2> QED
    BY <1>1, <1>2, <1>3, LogLonger
<1> QED
  BY <1>4, QuietRises DEF Push, registry, run

\* A step after which no run is under way, and origin as it was.
LEMMA RestsRises ==
    ASSUME ReleaseInv, ReleaseInv', RiseInv, Rests, UNCHANGED <<branch, log, file, npm>>
    PROVE  RiseInv'
<1>1. TypeOK /\ TypeOK' /\ RecordIsTrue /\ BranchRises /\ pc' = "idle"
  BY DEF ReleaseInv, RecordIsTrue, RiseInv, Rests
<1>2. Longer /\ log' \in Seq(Commit)
  BY <1>1, LogLonger
<1>3. Seen \in Nat /\ Seen' \in Nat /\ Seen <= Seen' /\ Seen <= Len(log)
  BY <1>1, <1>2, SeenGrows
<1>4. BranchRises'
  BY <1>1, <1>2, <1>3, BranchStays
<1> QED
  BY <1>1, <1>4 DEF RiseInv

LEMMA BeginRises ==
    ASSUME ReleaseInv, ReleaseInv', RiseInv, Begin
    PROVE  RiseInv'
<1> DEFINE made == BuildPlan(branch, file, log)
<1>1. /\ TypeOK /\ TypeOK' /\ RecordIsTrue /\ BranchRises /\ GoodFile(file) /\ pc = "idle"
      /\ log \in Seq(Commit) /\ Len(log) \in Nat
  BY FileIsGood DEF ReleaseInv, RecordIsTrue, TypeOK, RiseInv, Begin
<1>2. UNCHANGED <<branch, log, file, npm>>
  BY DEF Begin, origin, registry
<1>3. Longer /\ log' \in Seq(Commit)
  BY <1>1, <1>2, LogLonger
<1>4. CASE UNCHANGED run
  BY <1>2, <1>3, <1>4, QuietRises DEF run
<1>5. CASE ~UNCHANGED run
  <2>1. /\ pc' = "reconcile" /\ head' = Len(log) /\ base' = Len(log)
        /\ state' = file /\ plan' = made
        /\ UNCHANGED <<left, recorded, failed>>
    BY <1>5 DEF Begin
  <2>2. Seen \in Nat /\ Seen' \in Nat /\ Seen <= Seen' /\ Seen <= Len(log)
    BY <1>1, <1>3, <2>1, SeenGrows
  <2>3. BranchRises' /\ \A p \in Packages : Points(p)' = Points(p)
    BY <1>1, <1>2, <1>3, <2>2, BranchStays
  <2>4. \A p \in Packages : PlansIt(made, file, log, p)
    BY <1>1, PlanStands
  <2> HIDE DEF made
  <2>5. Prefix' = log
    <3>1. Prefix' = SubSeq(log, 1, Len(log))
      BY <1>2, <2>1 DEF Prefix
    <3> QED
      BY <1>1, <3>1
  <2>6. GoesOn(state)'
    <3> SUFFICES ASSUME NEW p \in Packages
                 PROVE  PointOf(state, p)' \in Points(p)' /\ Fresh(state, Prefix, p)'
      BY <1>1, <1>2, <2>1 DEF GoesOn, BranchRises
    <3>1. PointOf(state, p)' = PointOf(file, p)
      BY <1>2, <2>1 DEF PointOf, Nexts, ResetOf
    <3>2. Fresh(state, Prefix, p)' <=> Fresh(file, log, p)
      BY <1>2, <2>1, <2>5 DEF Fresh, ResetOf
    <3> QED
      BY <1>1, <2>3, <3>1, <3>2 DEF BranchRises, Points
  <2>7. Resets'
    BY <1>2, <2>1, <2>4 DEF Resets, PlansIt, ResetOf
  <2>8. Stands'
    <3> SUFFICES ASSUME NEW p \in Packages PROVE PlansIt(plan, state, Prefix, p)'
      BY DEF Stands
    <3>1. ResetOf(state, p)' = ResetOf(file, p) /\ PointOf(state, p)' = PointOf(file, p)
      BY <1>2, <2>1 DEF ResetOf, PointOf, Nexts
    <3> QED
      BY <1>2, <2>1, <2>4, <2>5, <3>1 DEF PlansIt
  <2> QED
    BY <2>1, <2>3, <2>6, <2>7, <2>8 DEF RiseInv, RunRises
<1> QED
  BY <1>4, <1>5

LEMMA ReconcileRises ==
    ASSUME ReleaseInv, ReleaseInv', RiseInv, Reconcile
    PROVE  RiseInv'
<1> DEFINE new == RecordedFromNpm
           made == BuildPlan(branch, RecordedFromNpm, SubSeq(log, 1, base))
           foreign == \E p \in PublishedBefore : Doc(p).commit \notin 1..head
<1>1. /\ TypeOK /\ TypeOK' /\ RecordIsTrue /\ RunOK /\ Running /\ Planning /\ pc = "reconcile"
      /\ BranchRises /\ RunRises /\ GoodFile(state)
  BY DEF ReleaseInv, RecordIsTrue, RunOK, Reconcile, RiseInv, Running
<1>2. UNCHANGED <<branch, log, file, npm>>
  BY DEF Reconcile, origin, registry
<1>3. Longer /\ log' \in Seq(Commit)
  BY <1>1, <1>2, LogLonger
<1>4. CASE Rests
  BY <1>2, <1>4, RestsRises
<1>5. CASE ~Rests
  <2>1. pc' # "idle" /\ head' = head
    BY <1>1, <1>5 DEF Reconcile
  <2>2. Seen \in Nat /\ Seen' \in Nat /\ Seen <= Seen' /\ Seen <= Len(log)
    BY <1>1, <1>3, <2>1, SeenGrows
  <2>3. BranchRises' /\ \A p \in Packages : Points(p)' = Points(p)
    BY <1>1, <1>2, <1>3, <2>2, BranchStays
  <2>4. CASE /\ pc' = IF recorded THEN "saveReconciled" ELSE "pinned"
             /\ UNCHANGED <<head, base, ahead, state, plan, left, recorded, failed>>
    <3>1. GoesOn(state)'
      BY <1>1, <1>2, <1>3, <2>3, <2>4, GoesOnStays DEF RunRises, GoesOn
    <3>2. (Resets => Resets') /\ (Stands => Stands')
      BY <1>1, <1>2, <1>3, <2>4, RunStays
    <3> QED
      BY <1>1, <2>3, <2>4, <3>1, <3>2 DEF RiseInv, RunRises
  <2>5. CASE /\ ~foreign /\ state' = new /\ plan' = made /\ recorded' = TRUE
             /\ PublishedBefore # {} /\ UNCHANGED <<pc, head, base, ahead, left, failed>>
    <3>1. GoodFile(new) /\ GoesOn(new)
      BY <1>1, <2>5, FromNpmIsGood, FromNpmGoesOn DEF RunRises
    <3>2. SubSeq(log, 1, base) = Prefix /\ Prefix \in Seq(Commit)
      BY <1>1, PrefixIs DEF RunRises, Prefix
    <3>3. \A p \in Packages : PlansIt(made, new, Prefix, p)
      BY <1>1, <3>1, <3>2, PlanStands
    <3>4. Prefix' = Prefix
      BY <1>1, <1>3, <2>5, PrefixStays
    <3> HIDE DEF made, new
    <3>5. \A p \in Packages : /\ ResetOf(state, p)' = ResetOf(new, p)
                              /\ PointOf(state, p)' = PointOf(new, p)
                              /\ Fresh(state, Prefix, p)' <=> Fresh(new, Prefix, p)
      BY <1>2, <2>5, <3>4 DEF ResetOf, PointOf, Nexts, Fresh
    <3>6. GoesOn(state)'
      BY <1>2, <2>3, <2>5, <3>1, <3>5 DEF GoesOn
    <3>7. Stands'
      BY <1>2, <2>5, <3>3, <3>4, <3>5 DEF Stands, PlansIt
    <3> QED
      BY <1>1, <2>3, <2>5, <3>6, <3>7 DEF RiseInv, RunRises
  <2> QED
    BY <1>5, <2>4, <2>5 DEF Reconcile
<1> QED
  BY <1>4, <1>5

\* A save of a file that goes on, or of none.
LEMMA SaveRises ==
    ASSUME RecordIsTrue, TypeOK', BranchRises, pc # "idle", pc' # "idle",
           NEW st, GoodFile(st), NotBelow(st), GoesOn(st), Save(st, ahead + 1),
           UNCHANGED <<branch, npm, head>>
    PROVE  /\ BranchRises' /\ Longer /\ log' \in Seq(Commit) /\ file' \in {file, st}
           /\ \A p \in Packages : PointOf(st, p) \in Points(p)'
<1>1. TypeOK /\ ahead \in Nat /\ ahead + 1 \in Nat
  BY DEF RecordIsTrue, TypeOK
<1>2. CASE Pushed(st, ahead + 1)
  <2>1. Longer /\ log' \in Seq(Commit) /\ file' = st
    BY <1>1, <1>2, LogLonger
  <2>2. Seen \in Nat /\ Seen' \in Nat /\ Seen <= Seen' /\ Seen <= Len(log)
    BY <1>1, <2>1, SeenGrows
  <2> QED
    BY <2>1, <2>2, BranchGoesOn
<1>3. CASE UNCHANGED origin
  <2>1. Longer /\ log' \in Seq(Commit) /\ file' = file
    BY <1>1, <1>3, LogLonger DEF origin
  <2>2. Seen \in Nat /\ Seen' \in Nat /\ Seen <= Seen' /\ Seen <= Len(log)
    BY <1>1, <2>1, SeenGrows
  <2>3. BranchRises' /\ \A p \in Packages : Points(p)' = Points(p)
    BY <2>1, <2>2, BranchStays
  <2> QED
    BY <2>1, <2>3 DEF GoesOn
<1> QED
  BY <1>2, <1>3 DEF Save

LEMMA SaveReconciledRises ==
    ASSUME ReleaseInv, ReleaseInv', RiseInv, SaveReconciled
    PROVE  RiseInv'
<1>1. /\ TypeOK /\ TypeOK' /\ RecordIsTrue /\ Running /\ BranchRises /\ RunRises
      /\ pc = "saveReconciled" /\ recorded
  BY DEF ReleaseInv, RecordIsTrue, RunOK, SaveReconciled, RiseInv
<1>2. /\ UNCHANGED <<branch, npm, head, state, plan, left, recorded, failed>>
      /\ pc' = "pinned" /\ Save(state, ahead + 1)
  BY DEF SaveReconciled, registry
<1>3. GoodFile(state) /\ NotBelow(state) /\ GoesOn(state)
  BY <1>1 DEF Running, RunRises
<1>4. /\ BranchRises' /\ Longer /\ log' \in Seq(Commit) /\ file' \in {file, state}
      /\ \A p \in Packages : PointOf(state, p) \in Points(p)'
  BY <1>1, <1>2, <1>3, SaveRises
<1>5. GoesOn(state)'
  BY <1>1, <1>2, <1>3, <1>4, GoesOnStays
<1>6. Stands => Stands'
  BY <1>1, <1>2, <1>3, <1>4, RunStays
<1> QED
  BY <1>1, <1>2, <1>4, <1>5, <1>6 DEF RiseInv, RunRises

LEMMA CheckPinnedRises ==
    ASSUME ReleaseInv, ReleaseInv', RiseInv, CheckPinnedDependencies
    PROVE  RiseInv'
<1>1. /\ TypeOK /\ TypeOK' /\ RecordIsTrue /\ Running /\ Planning /\ BranchRises /\ RunRises
      /\ pc = "pinned" /\ GoodFile(state)
  BY DEF ReleaseInv, RecordIsTrue, RunOK, CheckPinnedDependencies, RiseInv, Running
<1>2. UNCHANGED <<branch, log, file, npm>>
  BY DEF CheckPinnedDependencies, origin, registry
<1>3. CASE Rests
  BY <1>2, <1>3, RestsRises
<1>4. CASE /\ pc' = "publish" /\ left' = Releasing(plan)
           /\ UNCHANGED <<head, base, ahead, state, plan, recorded, failed>>
  <2>1. Longer /\ log' \in Seq(Commit)
    BY <1>1, <1>2, LogLonger
  <2>2. Seen \in Nat /\ Seen' \in Nat /\ Seen <= Seen' /\ Seen <= Len(log)
    BY <1>1, <1>4, <2>1, SeenGrows
  <2>3. BranchRises' /\ \A p \in Packages : Points(p)' = Points(p)
    BY <1>1, <1>2, <2>1, <2>2, BranchStays
  <2>4. GoesOn(state)'
    BY <1>1, <1>2, <1>4, <2>1, <2>3, GoesOnStays DEF RunRises, GoesOn
  <2>5. /\ \A p \in Releasing(plan) : Due(p)
        /\ \A p \in Packages \ Releasing(plan) : StandsFor(p)
    BY <1>1, PlanStarts DEF RunRises
  <2>6. /\ Resets => Resets'
        /\ \A p \in Packages : /\ Due(p) => Due(p)'
                               /\ StandsFor(p) => StandsFor(p)'
    BY <1>1, <1>2, <1>4, <2>1, RunStays
  <2>7. Releasing(plan) \subseteq Packages /\ Releasing(plan)' = Releasing(plan)
    BY <1>4 DEF Releasing
  <2>8. Ends' /\ \A p \in left' : Due(p)'
    BY <1>4, <2>5, <2>6, <2>7 DEF Ends
  <2> QED
    BY <1>1, <1>4, <2>3, <2>4, <2>6, <2>8 DEF RiseInv, RunRises
<1> QED
  BY <1>3, <1>4 DEF CheckPinnedDependencies

LEMMA AllPublishedRises ==
    ASSUME ReleaseInv, ReleaseInv', RiseInv, AllPublished
    PROVE  RiseInv'
<1>1. /\ TypeOK /\ TypeOK' /\ RecordIsTrue /\ BranchRises /\ RunRises /\ GoodFile(state)
      /\ pc = "publish" /\ left = {}
  BY DEF ReleaseInv, RecordIsTrue, RunOK, AllPublished, RiseInv, Running
<1>2. UNCHANGED <<branch, log, file, npm, head, base, state, plan, left, recorded, failed>>
      /\ pc' = "finish"
  BY DEF AllPublished, origin, registry
<1>3. Longer /\ log' \in Seq(Commit)
  BY <1>1, <1>2, LogLonger
<1>4. Seen \in Nat /\ Seen' \in Nat /\ Seen <= Seen' /\ Seen <= Len(log)
  BY <1>1, <1>2, <1>3, SeenGrows
<1>5. BranchRises' /\ \A p \in Packages : Points(p)' = Points(p)
  BY <1>1, <1>2, <1>3, <1>4, BranchStays
<1>6. GoesOn(state)'
  BY <1>1, <1>2, <1>3, <1>5, GoesOnStays DEF RunRises, GoesOn
<1>7. /\ Resets => Resets'
      /\ \A p \in Packages : /\ StandsFor(p) => StandsFor(p)'
                             /\ WasPublished(p) => WasPublished(p)'
  BY <1>1, <1>2, <1>3, RunStays
<1>8. Releasing(plan) \subseteq Packages
  BY DEF Releasing
<1> QED
  BY <1>1, <1>2, <1>5, <1>6, <1>7, <1>8 DEF RiseInv, RunRises, Ends

LEMMA FinishRises ==
    ASSUME ReleaseInv, ReleaseInv', RiseInv, Finish
    PROVE  RiseInv'
<1>1. /\ TypeOK /\ TypeOK' /\ RecordIsTrue /\ Running /\ BranchRises /\ RunRises
      /\ pc = "finish"
  BY DEF ReleaseInv, RecordIsTrue, RunOK, Finish, RiseInv
<1>2. UNCHANGED <<branch, npm>> /\ Rests /\ pc' = "idle"
  BY DEF Finish, registry, Rests
<1>3. CASE Pushed(state, ahead)
  <2>1. Longer /\ log' \in Seq(Commit) /\ file' = state
    BY <1>1, <1>3, LogLonger DEF TypeOK
  <2>2. Seen \in Nat /\ Seen' \in Nat /\ Seen <= Seen' /\ Seen <= Len(log)
    BY <1>1, <1>2, <2>1, SeenGrows
  <2>3. GoodFile(state) /\ NotBelow(state) /\ GoesOn(state)
    BY <1>1 DEF Running, RunRises
  <2>4. BranchRises'
    BY <1>1, <1>2, <2>1, <2>2, <2>3, BranchGoesOn
  <2> QED
    BY <1>2, <2>4 DEF RiseInv
<1>4. CASE UNCHANGED origin
  BY <1>2, <1>4, RestsRises DEF origin
<1> QED
  BY <1>3, <1>4 DEF Finish

LEMMA DiesRises ==
    ASSUME ReleaseInv, ReleaseInv', RiseInv, Dies
    PROVE  RiseInv'
BY RestsRises DEF Dies, origin, registry

LEMMA UnchangedRises ==
    ASSUME ReleaseInv, ReleaseInv', RiseInv, UNCHANGED log,
           UNCHANGED <<branch, file, npm, pc, head, base, state, plan, left, recorded, failed>>
    PROVE  RiseInv'
<1>1. Longer /\ log' \in Seq(Commit)
  BY LogLonger DEF ReleaseInv, RecordIsTrue
<1> QED
  BY <1>1, QuietRises

\* The document that is published is a point above those of its package.
LEMMA PublishedRises ==
    ASSUME ReleaseInv, RiseInv, pc = "publish", left # {},
           OnNpm(npm, FirstOf(left), plan[FirstOf(left)].next) = {},
           npm' = npm \cup {Document(FirstOf(left))},
           UNCHANGED <<branch, log, file, head>>, pc' # "idle"
    PROVE  /\ \A e \in npm : e.name = FirstOf(left)
                => Less(e.version, Document(FirstOf(left)).version)
           /\ BranchRises'
           /\ \A p \in Packages : Points(p) \subseteq Points(p)'
<1>0. PICK name : name = FirstOf(left)
  OBVIOUS
<1> DEFINE g == PointOf(state, name)
           d == Document(name)
<1>1. /\ TypeOK /\ Running /\ Publishing /\ BranchRises /\ RunRises /\ GoodFile(file)
      /\ ChannelsApart(branch, file)
  BY FileIsGood DEF ReleaseInv, RecordIsTrue, RunOK, RiseInv, BranchRises
<1>2. name \in left /\ name \in Releasing(plan) /\ name \in Packages
  <2>1. left \in SUBSET Packages
    BY <1>1 DEF Publishing, Releasing
  <2> QED
    BY <1>0, <1>1, <2>1, FirstIs DEF Publishing
<1>3. Seen = head /\ Seen' = head
  BY DEF Seen
<1>4. Due(name) /\ g \in Points(name)
  BY <1>1, <1>2 DEF RunRises, GoesOn
<1>5. /\ d.name = name /\ d.version = plan[name].next /\ d.commit = head
      /\ npm' = npm \cup {d}
  BY <1>0 DEF Document
<1>6. g.version = Cur(state, name) /\ g.commit = BaselineFor(state, name, branch).commit
  BY DEF PointOf
<1>7. Less(Cur(state, name), plan[name].next)
  BY <1>1, <1>2 DEF Publishing, Starts, Running, Rises
<1>8. PICK B \in 1..3 : /\ AsksIn(log, name, g.commit, head, B)
                        /\ NoMore(log, name, g.commit, head, B)
                        /\ plan[name].next = g.next[B]
  BY <1>4, <1>6 DEF Due
<1>9. OfChannel(plan[name].next, branch) /\ OnNpm(npm, name, plan[name].next) = {}
  BY <1>0, <1>4 DEF Due
<1>10. Less(Cur(file, name), d.version)
  <2>1. /\ Cur(file, name) \in Version /\ Cur(state, name) \in Version
        /\ plan[name].next \in Version
    <3>1. \A s \in Files : Cur(s, name) \in Known
      BY <1>2, FileFacts, NewestIs DEF Cur, Channels
    <3> QED
      BY <1>1, <1>2, <3>1 DEF Known, Running, GoodFile, Plans, Step
  <2>2. ~Less(Cur(state, name), Cur(file, name))
    BY <1>1, <1>2 DEF Running, NotBelow
  <2> QED
    BY <1>5, <1>7, <2>1, <2>2, LessOrders
<1> HIDE DEF g, d
<1>11. Rising(name)
  BY <1>1, <1>2 DEF BranchRises
<1>12. /\ \A e \in npm : e.name = name => Less(e.version, d.version)
       /\ Rising(name)'
  BY <1>1, <1>2, <1>3, <1>4, <1>5, <1>6, <1>7, <1>8, <1>9, <1>11, PublicationRises
<1>13. ASSUME NEW p \in Packages
       PROVE  /\ Points(p) \subseteq Points(p)'
              /\ p # name => Points(p)' = Points(p) /\ Above(p)' = Above(p)
  BY <1>5, <1>10, PointsGrow
<1>14. ASSUME NEW p \in Packages, p # name PROVE Rising(p)'
  <2>1. Rising(p) /\ Points(p)' = Points(p) /\ Above(p)' = Above(p)
    BY <1>1, <1>13, <1>14 DEF BranchRises
  <2>2. Longer /\ npm \subseteq npm' /\ Seen \in Nat /\ Seen <= Seen' /\ Seen <= Len(log)
    BY <1>1, <1>3, <1>5, LogLonger DEF TypeOK
  <2>3. Growing(p)' /\ Reachable(p)' /\ Followed(p)'
    BY <1>1, <1>3, <2>1, <2>2, RisingStays
  <2>4. Proper(p)'
    BY <2>1 DEF Rising, Proper
  <2> QED
    BY <2>3, <2>4 DEF Rising
<1>15. ASSUME NEW p \in Packages PROVE Fresh(file, log, p)'
  <2>1. Fresh(file, log, p)
    BY <1>1 DEF BranchRises
  <2> QED
    BY <2>1 DEF Fresh, ResetOf
<1>16. ChannelsApart(branch, file)'
  BY <1>1
<1>17. BranchRises'
  BY <1>12, <1>14, <1>15, <1>16 DEF BranchRises
<1> QED
  BY <1>0, <1>12, <1>13, <1>17 DEF d

LEMMA PublishNextRises ==
    ASSUME ReleaseInv, ReleaseInv', RiseInv, PublishNext
    PROVE  RiseInv'
<1>1. /\ TypeOK /\ TypeOK' /\ RecordIsTrue /\ Running /\ BranchRises /\ RunRises
      /\ GoodFile(state) /\ pc = "publish" /\ left # {}
  BY DEF ReleaseInv, RecordIsTrue, RunOK, PublishNext, RiseInv, Running
<1>2. UNCHANGED <<branch, log, file, head, base, state, plan, left, recorded>>
  BY DEF PublishNext, origin
<1>3. /\ npm' = npm \/ /\ OnNpm(npm, FirstOf(left), plan[FirstOf(left)].next) = {}
                       /\ npm' = npm \cup {Document(FirstOf(left))}
      /\ Stops \/ (pc' = "record" /\ UNCHANGED failed)
  BY DEF PublishNext
<1>4. pc' # "idle" /\ npm \subseteq npm'
  BY <1>3 DEF Stops
<1>5. Longer /\ log' \in Seq(Commit)
  BY <1>1, <1>2, LogLonger
<1>6. BranchRises' /\ \A p \in Packages : Points(p) \subseteq Points(p)'
  <2>1. CASE npm' = npm
    <3>1. Seen \in Nat /\ Seen' \in Nat /\ Seen <= Seen' /\ Seen <= Len(log)
      BY <1>1, <1>2, <1>4, <1>5, SeenGrows
    <3> QED
      BY <1>1, <1>2, <1>5, <2>1, <3>1, BranchStays
  <2>2. CASE npm' # npm
    BY <1>1, <1>2, <1>3, <1>4, <2>2, PublishedRises
  <2> QED
    BY <2>1, <2>2
<1>7. GoesOn(state)'
  <2>1. GoesOn(state) /\ \A p \in Packages : PointOf(state, p) \in Points(p)'
    BY <1>1, <1>6 DEF RunRises, GoesOn
  <2> QED
    BY <1>1, <1>2, <1>4, <1>5, <2>1, GoesOnStays
<1>8. /\ Resets => Resets'
      /\ \A p \in Packages : /\ Due(p) => Due(p)'
                             /\ StandsFor(p) => StandsFor(p)'
                             /\ WasPublished(p) => WasPublished(p)'
  BY <1>1, <1>2, <1>4, <1>5, RunStays
<1>9. Releasing(plan) \subseteq Packages /\ left \subseteq Packages
  BY <1>1 DEF Releasing, ReleaseInv, RunOK, Publishing
<1>10. Ends' /\ \A p \in left' : Due(p)'
  BY <1>1, <1>2, <1>8, <1>9 DEF RunRises, Ends
<1> QED
  BY <1>1, <1>2, <1>3, <1>6, <1>7, <1>8, <1>10 DEF RiseInv, RunRises, Stops

LEMMA RecordPublishedRises ==
    ASSUME ReleaseInv, ReleaseInv', RiseInv, RecordPublished
    PROVE  RiseInv'
<1>0. PICK name : name = FirstOf(left)
  OBVIOUS
<1> DEFINE entry == Entry(name, plan, plan[name].dependencies, 0)
           reset == IF recorded THEN None ELSE ResetUsed(plan)
           new == Record(state, recorded, entry, reset)
<1>1. /\ TypeOK /\ TypeOK' /\ RecordIsTrue /\ Running /\ Publishing /\ Unrecorded
      /\ BranchRises /\ RunRises /\ GoodFile(state) /\ NotBelow(state) /\ GoesOn(state)
      /\ pc = "record" /\ Sound(log, npm)
  BY DEF ReleaseInv, RecordIsTrue, RunOK, RecordPublished, RiseInv, Running, RunRises, TypeOK
<1>2. /\ UNCHANGED <<branch, npm, head, plan, failed>>
      /\ pc' = "publish" /\ state' = new /\ recorded' = TRUE /\ left' = left \ {name}
      /\ Save(new, ahead + 1)
  <2>1. state' = new
    BY <1>0 DEF RecordPublished, Record
  <2> HIDE DEF new
  <2> QED
    BY <1>0, <2>1 DEF RecordPublished, registry
<1>3. name \in left /\ name \in Releasing(plan) /\ name \in Packages /\ left \subseteq Packages
  <2>1. left \in SUBSET Packages /\ left # {}
    BY <1>1 DEF Publishing, Releasing, Unrecorded
  <2> QED
    BY <1>0, <1>1, <2>1, FirstIs DEF Publishing
<1>4. plan[name] \in Step
  BY <1>1, <1>3 DEF Running, Plans
<1>5. /\ entry \in EntryType /\ entry.name = name /\ entry.version = plan[name].next
      /\ entry.commit = 0 /\ entry.dependencies = plan[name].dependencies
  BY <1>3, <1>4 DEF Entry, EntryType, Step
<1>6. /\ reset \in Known
      /\ recorded \/ ResetFits(state, reset)
      /\ reset # None => OfChannel(reset, branch)
  <2>1. CASE recorded
    BY <2>1, NoneKnown
  <2>2. CASE ~recorded
    BY <1>1, <1>3, <2>2, ResetUsedKnown, ResetUsedFits DEF RunRises, Running, GoesOn
  <2> QED
    BY <2>1, <2>2
<1>7. PICK d \in OnNpm(npm, name, plan[name].next) :
        d.commit = head /\ d.dependencies = plan[name].dependencies
  BY <1>0, <1>1 DEF Unrecorded
<1>8. Less(Cur(state, name), plan[name].next) /\ OfChannel(plan[name].next, branch)
  BY <1>1, <1>3 DEF Publishing, Starts, Running, Rises, RunRises, Due
<1>9. recorded \in BOOLEAN /\ (recorded => Opened(state)) /\ head # 0
  BY <1>1 DEF Running, TypeOK
<1> HIDE DEF entry, reset
<1>a. /\ Less(Cur(state, entry.name), entry.version) /\ OfChannel(entry.version, branch)
      /\ d \in OnNpm(npm, entry.name, entry.version) /\ d.dependencies = entry.dependencies
      /\ d.commit = (IF entry.commit = 0 THEN head ELSE entry.commit) /\ d.commit # 0
  BY <1>5, <1>7, <1>8, <1>9
<1>b. /\ TypeOK /\ GoodFile(state) /\ NotBelow(state) /\ GoesOn(state)
      /\ recorded \in BOOLEAN /\ (recorded => Opened(state))
      /\ reset \in Known /\ entry \in EntryType
  BY <1>1, <1>5, <1>6, <1>9
<1>10. GoodFile(new) /\ NotBelow(new)
  <2>1. \E doc \in OnNpm(npm, entry.name, entry.version) :
           /\ doc.dependencies = entry.dependencies
           /\ doc.commit = IF entry.commit = 0 THEN head ELSE entry.commit
    BY <1>a
  <2> QED
    BY <1>a, <1>b, <2>1, RecordGood, Zenon
<1>11. /\ GoesOn(new)
       /\ new.packages[name][branch] = plan[name].next
       /\ \A q \in Packages \ {name} :
             /\ new.packages[q] = state.packages[q] /\ PointOf(new, q) = PointOf(state, q)
             /\ BaselineFor(new, q, branch) = BaselineFor(state, q, branch)
  BY <1>5, <1>6, <1>a, <1>b, RecordGoesOn
<1> HIDE DEF new
<1>12. /\ BranchRises' /\ Longer /\ log' \in Seq(Commit) /\ file' \in {file, new}
       /\ \A p \in Packages : PointOf(new, p) \in Points(p)'
  BY <1>1, <1>2, <1>10, <1>11, SaveRises
<1>13. Prefix' = Prefix
  BY <1>1, <1>2, <1>12, PrefixStays
<1>14. GoesOn(state)'
  <2>1. ASSUME NEW p \in Packages
        PROVE  PointOf(state, p)' \in Points(p)' /\ Fresh(state, Prefix, p)'
    <3>1. PointOf(state, p)' = PointOf(new, p) /\ (Fresh(state, Prefix, p)' <=> Fresh(new, Prefix, p))
      BY <1>2, <1>13 DEF PointOf, Nexts, ResetOf, Fresh
    <3> QED
      BY <1>11, <1>12, <3>1 DEF GoesOn
  <2>2. ChannelsApart(branch, state)'
    BY <1>2, <1>11 DEF GoesOn
  <2>3. ASSUME NEW p \in Packages, Prereleases(branch)
        PROVE  new.packages[p]["release"] = file'.packages[p]["release"]
    BY <1>11, <1>12, <2>3 DEF GoesOn
  <2> QED
    BY <1>2, <2>1, <2>2, <2>3 DEF GoesOn
<1>15. ASSUME NEW p \in Packages \ {name}
       PROVE  /\ Due(p) => Due(p)'
              /\ StandsFor(p) => StandsFor(p)'
              /\ WasPublished(p) => WasPublished(p)'
  <2>1. /\ new.packages[p] = state.packages[p]
        /\ BaselineFor(new, p, branch) = BaselineFor(state, p, branch)
        /\ PointOf(state, p)' = PointOf(state, p)
    <3>1. PointOf(state, p)' = PointOf(new, p)
      BY <1>2 DEF PointOf, Nexts, ResetOf
    <3> QED
      BY <1>11, <3>1
  <2>2. BaselineFor(state, p, branch).commit \in Nat /\ head \in Nat /\ head <= Len(log)
    BY <1>1, BaselineTyped, PrefixIs DEF GoodFile, TypeOK
  <2>3. Due(p) => Due(p)'
    <3> SUFFICES ASSUME Due(p) PROVE Due(p)'
      OBVIOUS
    <3>1. PICK b \in 1..3 : /\ AsksIn(log, p, BaselineFor(state, p, branch).commit, head, b)
                            /\ NoMore(log, p, BaselineFor(state, p, branch).commit, head, b)
                            /\ plan[p].next = PointOf(state, p).next[b]
      BY DEF Due
    <3>2. /\ AsksIn(log', p, BaselineFor(state, p, branch).commit, head, b)
          /\ NoMore(log', p, BaselineFor(state, p, branch).commit, head, b)
      BY <1>12, <2>2, <3>1, AskedBefore
    <3> QED
      BY <1>2, <2>1, <3>1, <3>2 DEF Due
  <2>4. StandsFor(p) => StandsFor(p)'
    <3>1. (Releasers(p) \cap 1..head)' = Releasers(p) \cap 1..head
      BY <1>1, <1>2, <1>12, <2>2 DEF Releasers, Longer, TypeOK
    <3> QED
      BY <1>2, <2>1, <3>1 DEF StandsFor
  <2>5. WasPublished(p) => WasPublished(p)'
    BY <1>2, <2>1 DEF WasPublished
  <2> QED
    BY <2>3, <2>4, <2>5
<1>16. WasPublished(name)'
  <2>1. d.commit <= d.built
    BY <1>1, <1>7 DEF Sound, OnNpm
  <2> QED
    BY <1>2, <1>7, <1>11, <2>1 DEF WasPublished
<1>17. Ends' /\ \A p \in left' : Due(p)'
  <2>1. Releasing(plan) \subseteq Packages /\ Releasing(plan)' = Releasing(plan)
    BY <1>2 DEF Releasing
  <2> QED
    BY <1>1, <1>2, <1>3, <1>15, <1>16, <2>1 DEF RunRises, Ends
<1> QED
  BY <1>2, <1>12, <1>14, <1>17 DEF RiseInv, RunRises

LEMMA InitRises ==
    ASSUME Init
    PROVE  RiseInv
<1>1. PICK b \in Beginnings :
        branch = b.branch /\ log = b.log /\ file = b.file /\ npm = b.npm
  BY DEF Init
<1>2. /\ ChannelsApart(branch, file) /\ Accounted(branch, log, file)
      /\ NoneAbove(branch, file, npm)
  BY <1>1, BeginningsAssumption
<1>3. pc = "idle" /\ TypeOK /\ GoodFile(file)
  BY InitHolds, FileIsGood DEF Init, ReleaseInv, RecordIsTrue
<1>4. ASSUME NEW p \in Packages PROVE Rising(p)
  <2>1. Above(p) = {}
    BY <1>2, BaselineIs DEF NoneAbove, Above
  <2>2. Points(p) = {PointOf(file, p)}
    BY <2>1 DEF Points
  <2>3. PointOf(file, p).version \in Version
    <3>1. Cur(file, p) \in Version
      BY <1>2, <1>3, VersionsIn DEF TypeOK
    <3> QED
      BY <3>1 DEF PointOf
  <2>4. ~Less(PointOf(file, p).version, PointOf(file, p).version)
    BY <2>3, LessOrders
  <2>5. PointOf(file, p).commit <= Seen
    BY <1>3, BaselineTyped DEF PointOf, Seen, TypeOK
  <2>6. Growing(p) /\ Reachable(p) /\ Followed(p)
    BY <2>2, <2>4, <2>5 DEF Growing, Reachable, Followed
  <2> QED
    BY <2>1, <2>6 DEF Rising, Proper
<1>5. ASSUME NEW p \in Packages PROVE Fresh(file, log, p)
  BY <1>2, <1>3, AccountedIsFresh DEF TypeOK
<1> QED
  BY <1>2, <1>3, <1>4, <1>5 DEF RiseInv, BranchRises

LEMMA NextRises ==
    ASSUME ReleaseInv, ReleaseInv', RiseInv, [Next]_vars
    PROVE  RiseInv'
<1>1. CASE UNCHANGED vars
  BY <1>1, UnchangedRises DEF vars, origin, registry, run
<1>2. ASSUME NEW touched \in SUBSET Packages \ {{}}, NEW bump \in Bumps, Push(touched, bump)
      PROVE  RiseInv'
  BY <1>2, PushRises
<1>3. ASSUME NEW document \in npm, Serve(document) PROVE RiseInv'
  BY <1>3, UnchangedRises DEF Serve, origin, run
<1> QED
  BY <1>1, <1>2, <1>3, BeginRises, ReconcileRises, SaveReconciledRises, CheckPinnedRises,
     PublishNextRises, RecordPublishedRises, AllPublishedRises, FinishRises, DiesRises DEF Next

\* Every run, whatever failed before it, goes on from a version below the next one for what
\* is asked of its package (release-plan.js:27-102, release.js:145-330).
THEOREM RunsGoOn == Spec => []RiseInv
<1>1. Init => RiseInv
  BY InitRises
<1>2. ReleaseInv /\ ReleaseInv' /\ RiseInv /\ [Next]_vars => RiseInv'
  BY NextRises
<1> QED
  BY <1>1, <1>2, ReleaseHolds, PTL DEF Spec

\* A step that publishes gives its package a version above the ones that npm has of it.
LEMMA RisesAbove ==
    ASSUME ReleaseInv, RiseInv, [Next]_vars
    PROVE  [\A d \in npm' \ npm, e \in npm : d.name = e.name => Less(e.version, d.version)]_vars
<1> SUFFICES ASSUME NEW d \in npm' \ npm, NEW e \in npm, d.name = e.name
             PROVE  Less(e.version, d.version)
  OBVIOUS
<1>1. npm' # npm
  OBVIOUS
<1>2. PublishNext
  BY <1>1 DEF Next, vars, origin, registry, run, Push, Serve, Begin, Reconcile, SaveReconciled,
              CheckPinnedDependencies, RecordPublished, AllPublished, Finish, Dies
<1>3. /\ pc = "publish" /\ left # {}
      /\ OnNpm(npm, FirstOf(left), plan[FirstOf(left)].next) = {}
      /\ npm' = npm \cup {Document(FirstOf(left))} /\ d = Document(FirstOf(left))
      /\ UNCHANGED <<branch, log, file, head>> /\ pc' # "idle"
  BY <1>1, <1>2 DEF PublishNext, origin, Stops
<1>4. d.name = FirstOf(left)
  BY <1>3 DEF Document
<1> QED
  BY <1>3, <1>4, PublishedRises

\* Whatever a run that died could not record, no version is published below one that npm
\* has of its package (release-plan.js:27-43, release.js:145-205).
THEOREM VersionsAlwaysRise == Spec => VersionsRise
<1>1. ReleaseInv /\ RiseInv /\ [Next]_vars =>
        [\A d \in npm' \ npm, e \in npm : d.name = e.name => Less(e.version, d.version)]_vars
  BY RisesAbove
<1> QED
  BY <1>1, ReleaseHolds, RunsGoOn, PTL DEF Spec, VersionsRise

\* The end of a run that published its plan.
LEMMA RunSettles ==
    ASSUME ReleaseInv, RiseInv, [Next]_vars, pc = "finish", pc' = "idle", ~failed, file' = state
    PROVE  LET Latest(p) == file'.packages[p][branch]
           IN  \A p \in Packages : \E d \in OnNpm(npm, p, Latest(p)) :
                  /\ \A i \in Releasers(p) \cap 1..head : i <= d.built
                  /\ \A dep \in Deps[p] : d.dependencies[dep] = Latest(dep)
<1>1. /\ Running /\ Ends /\ left = {}
  BY DEF ReleaseInv, RunOK, RiseInv, RunRises
<1>2. ASSUME NEW p \in Packages
      PROVE  state.packages[p][branch] = IF plan[p].next # None THEN plan[p].next ELSE plan[p].current
  BY <1>1 DEF Ends, Releasing, StandsFor, WasPublished
<1> SUFFICES ASSUME NEW p \in Packages
             PROVE  \E d \in OnNpm(npm, p, state.packages[p][branch]) :
                       /\ \A i \in Releasers(p) \cap 1..head : i <= d.built
                       /\ \A dep \in Deps[p] : d.dependencies[dep] = state.packages[dep][branch]
  OBVIOUS
<1>3. \A dep \in Deps[p] : dep \in Packages
  BY Places
<1>4. CASE p \in Releasing(plan)
  <2>1. WasPublished(p) /\ plan[p].next # None
    BY <1>1, <1>4 DEF Ends, Releasing
  <2>2. PICK d \in OnNpm(npm, p, plan[p].next) :
          head <= d.built /\ d.dependencies = plan[p].dependencies
    BY <2>1 DEF WasPublished
  <2>3. \A i \in Releasers(p) \cap 1..head : i <= d.built
    <3>1. d.built \in Nat /\ head \in Nat
      BY DEF ReleaseInv, RecordIsTrue, TypeOK, Sound, DocumentType, OnNpm
    <3> QED
      BY <2>2, <3>1
  <2>4. \A dep \in Deps[p] : d.dependencies[dep] = state.packages[dep][branch]
    BY <1>1, <1>2, <1>3, <1>4, <2>2 DEF Running, Fits
  <2> QED
    BY <1>2, <2>1, <2>2, <2>3, <2>4
<1>5. CASE p \notin Releasing(plan)
  <2>1. StandsFor(p) /\ plan[p].next = None
    BY <1>1, <1>5 DEF Ends, Releasing
  <2> QED
    BY <1>2, <1>3, <2>1 DEF StandsFor
<1> QED
  BY <1>4, <1>5

\* A run that ended well and pushed its file leaves nothing of the commits it began with to
\* be released: what its file has of each package was built from them and depends on what
\* its file has of the others (release-plan.js:27-102, release.js:145-330).
THEOREM RunsSettle == Spec => Settled
<1>1. ReleaseInv /\ RiseInv /\ [Next]_vars =>
        [pc = "finish" /\ pc' = "idle" /\ ~failed /\ file' = state
         => LET Latest(p) == file'.packages[p][branch]
            IN  \A p \in Packages : \E d \in OnNpm(npm, p, Latest(p)) :
                   /\ \A i \in Releasers(p) \cap 1..head : i <= d.built
                   /\ \A dep \in Deps[p] : d.dependencies[dep] = Latest(dep)]_vars
  BY RunSettles
<1> QED
  BY <1>1, ReleaseHolds, RunsGoOn, PTL DEF Spec, Settled
===============================================================================
