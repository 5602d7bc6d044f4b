------------------------------- MODULE MCRelease ------------------------------
(***************************************************************************)
(* Releases of two packages for TLC, app on core, that begin with a new    *)
(* repository, one that was released from its only commit, and one whose   *)
(* list of deploys was emptied to start a new major.                       *)
(***************************************************************************)
EXTENDS Release

CONSTANTS core, app

MCOrder == <<core, app>>
MCDeps == (core :> {}) @@ (app :> {core})

First == [touches |-> {core, app}, bump |-> 2]

OneDotZero(channel) ==
    IF Prereleases(channel) THEN Alpha(Base(1, 0, 0), 1) ELSE Base(1, 0, 0)

PinsOf(name, version) ==
    [p \in Packages |-> IF p \in Deps[name] THEN version ELSE None]

Released(channel, versions) ==
    {[name |-> p, version |-> versions[channel], commit |-> 1, built |-> 1,
      dependencies |-> PinsOf(p, versions[channel])] : p \in Packages}

FileOf(channel, versions, deploys) ==
    [packages |-> [p \in Packages |-> versions], deploys |-> deploys]

DeployOf(channel, versions) ==
    [commit |-> 1, channel |-> channel, reset |-> None,
     packages |-> [i \in DOMAIN Order |->
        [name |-> Order[i], version |-> versions[channel], commit |-> 0,
         dependencies |-> PinsOf(Order[i], versions[channel])]]]

Versions(channel) == [c \in Channels |-> IF c = channel THEN OneDotZero(c) ELSE None]

New(channel) ==
    [branch |-> channel, log |-> <<First>>, file |-> EmptyState, npm |-> {}, waiting |-> 1]

Recorded(channel) ==
    [branch |-> channel, log |-> <<First>>, waiting |-> 0,
     file |-> FileOf(channel, Versions(channel), <<DeployOf(channel, Versions(channel))>>),
     npm |-> Released(channel, Versions(channel))]

Emptied(channel) ==
    [branch |-> channel, log |-> <<First>>, waiting |-> 1,
     file |-> FileOf(channel, Versions(channel), <<>>),
     npm |-> Released(channel, Versions(channel))]

\* main was merged into release: the file has the deploys of both channels.
Merged ==
    LET stable == Versions("release")
        both == [main |-> Alpha(Base(1, 1, 0), 2), release |-> Base(1, 0, 0)]
    IN  [branch |-> "release", log |-> <<First, First>>, waiting |-> 2,
         file |-> FileOf("release", both,
                         <<DeployOf("release", stable), DeployOf("main", both)>>),
         npm |-> Released("release", stable) \cup Released("main", both)]

MCBeginnings ==
    {New("main"), Recorded("main"), Recorded("release"), Emptied("main"), Merged}
===============================================================================
