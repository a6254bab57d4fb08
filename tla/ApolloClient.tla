---------------------------- MODULE ApolloClient ----------------------------
(***************************************************************************)
(* The apollo client (source/client/apollo): the namespaces of one app and *)
(* cluster, which share one long-polling goroutine.                        *)
(*                                                                         *)
(* The server numbers its releases; the number of a namespace's release is *)
(* also the id of the notification that announces it.  listen asks, with   *)
(* the ids it has seen, which namespaces have newer ones, and loads each   *)
(* of those, with the release it has, so that the server can say "not      *)
(* modified".  Contents loaded there are kept in a snapshot directory, to  *)
(* which Pull turns when the server cannot be reached.                     *)
(***************************************************************************)
EXTENDS Naturals, FiniteSets

CONSTANTS
    Namespaces,
    MaxReleases,    \* bound: releases published at the server
    SnapshotOn,     \* cfg.CacheDir is set
    WatchDisabled,
    Nobody          \* no namespace

ConstantsOK ==
    /\ Nobody \notin Namespaces /\ MaxReleases \in Nat \ {0}
    /\ SnapshotOn \in BOOLEAN /\ WatchDisabled \in BOOLEAN

VARIABLES
    version,    \* server: the last release of each namespace, 0 if none
    clock,      \* server: the last release of all
    pc,         \* addPath of each namespace: pull, merge, watch, done
    pulled,     \* the release Pull returned, 0 if none
    releases,   \* c.releases
    nIDs,       \* c.nIDs, 0 if it has no entry
    watches,    \* c.watches[watchKey] and the keys of c.callbacks
    at,         \* listen: off, ask, poll, changed, save, call, stuck
    asked,      \* the ids in the poll under way
    changes,    \* the notifications still to be handled
    current,    \* the namespace onConfigChanged is called for
    saved,      \* the snapshot of each namespace, 0 if there is none
    taken,      \* the release last given to the source
    crashed     \* has the process died?

server == <<version, clock>>
adding == <<pc, pulled>>
listener == <<at, asked, changes, current>>
vars == <<server, adding, releases, nIDs, watches, listener, saved, taken, crashed>>

Releases == 0..MaxReleases
NoIds    == [n \in Namespaces |-> 0]
NoPoll   == [n \in {} |-> 0]
Change   == [name : Namespaces, id : Releases]

(* The server may have releases and an earlier process snapshots of them.  *)
Init == /\ version \in [Namespaces -> 0..1] /\ clock = 1
        /\ saved \in [Namespaces -> {0}] \cup (IF SnapshotOn THEN {version} ELSE {})
        /\ pc = [n \in Namespaces |-> "pull"] /\ pulled = NoIds
        /\ releases = NoIds /\ nIDs = NoIds
        /\ watches = {}
        /\ at = "off" /\ asked = NoPoll /\ changes = {} /\ current = Nobody
        /\ taken = NoIds
        /\ crashed = FALSE

Goto(n, label) == pc' = [pc EXCEPT ![n] = label]

(* External: somebody publishes a release of the namespace.                *)
Publish(n) ==
    /\ clock < MaxReleases
    /\ clock' = clock + 1
    /\ version' = [version EXCEPT ![n] = clock + 1]
    /\ UNCHANGED <<adding, releases, nIDs, watches, listener, saved, taken>>

-----------------------------------------------------------------------------
(* addPath.                                                                *)

(* Pull, and the server answers; no notification id comes with it.         *)
Pull(n) ==
    /\ pc[n] = "pull" /\ Goto(n, "merge")
    /\ version[n] # 0
    /\ pulled' = [pulled EXCEPT ![n] = version[n]]
    /\ releases' = [releases EXCEPT ![n] = version[n]]
    /\ UNCHANGED <<server, nIDs, watches, listener, saved, taken>>

(* It does not, or has no such namespace, and there is no snapshot.        *)
PullFails(n) ==
    /\ pc[n] = "pull" /\ Goto(n, "merge")
    /\ saved[n] = 0
    /\ UNCHANGED <<server, pulled, releases, nIDs, watches, listener, saved, taken, crashed>>

(* There is one: getReleaseKey read-locks the snapshots and write-unlocks  *)
(* them.  Go's runtime ends the process for that, unless listen is waiting *)
(* to save at that moment: then the unlock passes, the writer it was meant *)
(* for is never woken, and Pull answers with the snapshot.  The release it *)
(* records is no release of the server, which is what 0 stands for.        *)
PullFromSnapshot(n) ==
    /\ pc[n] = "pull"
    /\ saved[n] # 0
    /\ \/ crashed' = TRUE /\ UNCHANGED <<adding, at>>
       \/ /\ at = "save" /\ at' = "stuck"
          /\ Goto(n, "merge")
          /\ pulled' = [pulled EXCEPT ![n] = saved[n]]
          /\ UNCHANGED crashed
    /\ UNCHANGED <<server, releases, nIDs, watches, asked, changes, current, saved, taken>>

Merge(n) ==
    /\ pc[n] = "merge" /\ Goto(n, "watch")
    /\ taken' = [taken EXCEPT ![n] = pulled[n]]
    /\ UNCHANGED <<server, pulled, releases, nIDs, watches, listener, saved>>

(* The first Watch starts listen; later ones add to what it asks for.      *)
Watch(n) ==
    /\ pc[n] = "watch" /\ Goto(n, "done")
    /\ watches' = IF WatchDisabled THEN watches ELSE watches \cup {n}
    /\ at' = IF at = "off" /\ ~WatchDisabled THEN "ask" ELSE at
    /\ UNCHANGED <<server, pulled, releases, nIDs, asked, changes, current, saved, taken>>

-----------------------------------------------------------------------------
(* listen and onConfigChanged.                                             *)

Ask ==
    /\ at = "ask" /\ at' = "poll"
    /\ asked' = [n \in watches |-> nIDs[n]]
    /\ UNCHANGED <<server, adding, releases, nIDs, watches, changes, current, saved, taken>>

(* External: the server answers with some of the namespaces that were      *)
(* asked for and have a newer release.                                     *)
Newer == {n \in DOMAIN asked : version[n] > asked[n]}
ServerAnswers(n) ==
    /\ at = "poll" /\ at' = "changed"
    /\ \E some \in SUBSET Newer :
          /\ n \in some
          /\ changes' = {[name |-> m, id |-> version[m]] : m \in some}
    /\ UNCHANGED <<server, adding, releases, nIDs, watches, asked, current, saved, taken>>

(* Time is up, or the answer gets lost: it asks again.                     *)
PollFails ==
    /\ at = "poll" /\ at' = "ask"
    /\ UNCHANGED <<server, adding, releases, nIDs, watches, asked, changes, current, saved, taken>>

(* Mistake: the notification is recorded before the release is loaded.     *)
NotLoaded_recorded(ch) ==
    /\ at = "changed" /\ ch \in changes
    /\ changes' = changes \ {ch}
    /\ nIDs' = [nIDs EXCEPT ![ch.name] = ch.id]
    /\ UNCHANGED <<server, adding, releases, watches, at, asked, current, saved, taken>>

(* "Not modified", or an error: nothing is recorded, not even that the     *)
(* notification was seen, so the next poll is answered at once again.      *)
NotLoaded(ch) ==
    /\ at = "changed" /\ ch \in changes
    /\ changes' = changes \ {ch}
    /\ UNCHANGED <<server, adding, releases, nIDs, watches, at, asked, current, saved, taken>>

(* Mistake: what was loaded is never handed over.                          *)
Loaded_uncalled(ch) ==
    /\ at = "changed" /\ ch \in changes
    /\ version[ch.name] # releases[ch.name]
    /\ releases' = [releases EXCEPT ![ch.name] = version[ch.name]]
    /\ nIDs' = [nIDs EXCEPT ![ch.name] = ch.id]
    /\ changes' = changes \ {ch}
    /\ UNCHANGED <<server, adding, watches, at, asked, current, saved, taken>>

(* The server has another release than the one known, perhaps an even      *)
(* newer one than it announced.                                            *)
Loaded(ch) ==
    /\ at = "changed" /\ ch \in changes
    /\ version[ch.name] # releases[ch.name]
    /\ releases' = [releases EXCEPT ![ch.name] = version[ch.name]]
    /\ nIDs' = [nIDs EXCEPT ![ch.name] = ch.id]
    /\ changes' = changes \ {ch}
    /\ current' = ch.name /\ at' = "save"
    /\ UNCHANGED <<server, adding, watches, asked, saved, taken>>

Save ==
    /\ at = "save" /\ at' = "call"
    /\ saved' = IF SnapshotOn THEN [saved EXCEPT ![current] = releases[current]] ELSE saved
    /\ UNCHANGED <<server, adding, releases, nIDs, watches, asked, changes, current, taken>>

Call ==
    /\ at = "call" /\ at' = "changed"
    /\ taken' = [taken EXCEPT ![current] = releases[current]]
    /\ current' = Nobody
    /\ UNCHANGED <<server, adding, releases, nIDs, watches, asked, changes, saved>>

AllHandled ==
    /\ at = "changed" /\ changes = {} /\ at' = "ask"
    /\ UNCHANGED <<server, adding, releases, nIDs, watches, asked, changes, current, saved, taken>>

-----------------------------------------------------------------------------
Lives(A) == ~crashed /\ A /\ UNCHANGED crashed

Listen == Ask \/ Save \/ Call \/ AllHandled
          \/ \E ch \in changes : Loaded(ch) \/ NotLoaded(ch)

Next == \/ \E n \in Namespaces : \/ Lives(Publish(n) \/ Pull(n) \/ PullFails(n))
                                 \/ Lives(Merge(n) \/ Watch(n) \/ ServerAnswers(n))
                                 \/ ~crashed /\ PullFromSnapshot(n)
        \/ Lives(Listen \/ PollFails)

(* The steps that Clients assumes to be taken.                             *)
GoOn(n)       == Lives(Merge(n) \/ Watch(n))
Answered(n)   == Lives(ServerAnswers(n))
GetsLoaded(n) == Lives(\E ch \in changes : ch.name = n /\ Loaded(ch))
ListenGoesOn  == Lives(Listen)
PollEnds      == Lives(PollFails)
-----------------------------------------------------------------------------
(* Types; listen runs if and only if something is watched.                 *)
TypeOK ==
    /\ clock \in Releases /\ version \in [Namespaces -> 0..clock]
    /\ pc \in [Namespaces -> {"pull", "merge", "watch", "done"}]
    /\ pulled \in [Namespaces -> 0..clock]
    /\ releases \in [Namespaces -> 0..clock] /\ nIDs \in [Namespaces -> 0..clock]
    /\ watches \subseteq {n \in Namespaces : pc[n] = "done"}
    /\ at \in {"off", "ask", "poll", "changed", "save", "call", "stuck"}
    /\ at = "off" <=> watches = {}
    /\ DOMAIN asked \subseteq watches /\ \A n \in DOMAIN asked : asked[n] \in 0..clock
    /\ changes \subseteq Change /\ \A a, b \in changes : a.name = b.name => a = b
    /\ current \in watches \cup {Nobody}
    /\ saved \in [Namespaces -> 0..clock] /\ taken \in [Namespaces -> 0..clock]
    /\ crashed \in BOOLEAN

(* client.go:60-69, 179-197: a notification is recorded only with a        *)
(* release at least as new, so that one whose release could not be loaded  *)
(* will be announced again.                                                *)
AcknowledgedIsLoaded == \A n \in Namespaces : nIDs[n] <= releases[n]

(* What a follower is promised, unless a snapshot has killed the process   *)
(* or the listener.                                                        *)
UpToDate == ~crashed /\ at # "stuck" => \A n \in watches : taken[n] = version[n]
=============================================================================
