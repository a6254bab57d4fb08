------------------------------- MODULE Clients ------------------------------
(***************************************************************************)
(* The clients side by side: does each keep the promise of module Feed     *)
(* to the source that uses it?  They share nothing, so a behaviour is one  *)
(* of one client, chosen at the start; what belongs to the others is       *)
(* Unused.  One path of etcd, consul and file; several of nacos, which     *)
(* share the client's callbacks, and of apollo, which share one poll.      *)
(***************************************************************************)
EXTENDS Naturals, Sequences

CONSTANTS
    FirstLogs, MaxRevision, MayCancel,  \* etcd
    MaxIndex,                           \* consul
    Edits, MaxEdits,                    \* file
    WatchDisabled,                      \* consul, file, nacos and apollo
    NacosPaths, Configs, ConfigOf, QueryOf, NacosNamespaces, MaxVersion,    \* nacos
    Namespaces, MaxReleases, SnapshotOn, Nobody,                            \* apollo
    Unused

VARIABLES
    client,                                     \* which one it is
    pc, pulled, taken,                          \* addPath, of every client
    log, rev, watch, cursor,                    \* etcd
    written, exists,                            \* consul and file; written also nacos
    modified, listening, index, answer,         \* consul
    attached, events, registered, loop, blanked, calm, edits,   \* file
    namespace, callbacks, listened, announced, call,            \* nacos
    version, clock, releases, nIDs, watches, at, asked, changes,
    current, saved, crashed                                     \* apollo

etcdOnly   == <<log, rev, watch, cursor>>
shared     == <<written, exists>>
consulOnly == <<modified, listening, index, answer>>
fileOnly   == <<attached, events, registered, loop, blanked, calm, edits>>
nacosOnly  == <<namespace, callbacks, listened, announced, call>>
apolloOnly == <<version, clock, releases, nIDs, watches, at, asked, changes,
                current, saved, crashed>>
vars == <<client, pc, pulled, taken, etcdOnly, shared, consulOnly, fileOnly, nacosOnly,
          apolloOnly>>

Etcd   == INSTANCE EtcdClient
Consul == INSTANCE ConsulClient
File   == INSTANCE FileClient
Nacos  == INSTANCE NacosClient WITH Namespaces <- NacosNamespaces
Apollo == INSTANCE ApolloClient

ASSUME ClientsAssumption == /\ Etcd!ConstantsOK /\ Consul!ConstantsOK
                            /\ File!ConstantsOK /\ Nacos!ConstantsOK
                            /\ Apollo!ConstantsOK

NoEtcd   == log = Unused /\ rev = Unused /\ watch = Unused /\ cursor = Unused
NoShared == written = Unused /\ exists = Unused
NoNacos  == /\ namespace = Unused /\ callbacks = Unused /\ listened = Unused
            /\ announced = Unused /\ call = Unused
NoConsul == modified = Unused /\ listening = Unused /\ index = Unused /\ answer = Unused
NoFile   == /\ attached = Unused /\ events = Unused /\ registered = Unused /\ loop = Unused
            /\ blanked = Unused /\ calm = Unused /\ edits = Unused

NoApollo == /\ version = Unused /\ clock = Unused /\ releases = Unused /\ nIDs = Unused
            /\ watches = Unused /\ at = Unused /\ asked = Unused /\ changes = Unused
            /\ current = Unused /\ saved = Unused /\ crashed = Unused

Init == \/ client = "etcd"   /\ Etcd!Init   /\ NoShared /\ NoConsul /\ NoFile /\ NoNacos /\ NoApollo
        \/ client = "consul" /\ Consul!Init /\ NoEtcd /\ NoFile /\ NoNacos /\ NoApollo
        \/ client = "file"   /\ File!Init   /\ NoEtcd /\ NoConsul /\ NoNacos /\ NoApollo
        \/ client = "nacos"  /\ Nacos!Init  /\ exists = Unused
                             /\ NoEtcd /\ NoConsul /\ NoFile /\ NoApollo
        \/ client = "apollo" /\ Apollo!Init /\ NoShared /\ NoEtcd /\ NoConsul /\ NoFile /\ NoNacos

OfEtcd   == client = "etcd"   /\ UNCHANGED <<client, shared, consulOnly, fileOnly, nacosOnly, apolloOnly>>
OfConsul == client = "consul" /\ UNCHANGED <<client, etcdOnly, fileOnly, nacosOnly, apolloOnly>>
OfFile   == client = "file"   /\ UNCHANGED <<client, etcdOnly, consulOnly, nacosOnly, apolloOnly>>
OfNacos  == client = "nacos"  /\ UNCHANGED <<client, exists, etcdOnly, consulOnly, fileOnly, apolloOnly>>
OfApollo == client = "apollo" /\ UNCHANGED <<client, shared, etcdOnly, consulOnly, fileOnly, nacosOnly>>

Next == \/ OfEtcd /\ Etcd!Next
        \/ OfConsul /\ Consul!Next
        \/ OfFile /\ File!Next
        \/ OfNacos /\ Nacos!Next
        \/ OfApollo /\ Apollo!Next

Spec == Init /\ [][Next]_vars

(* A goroutine that can go on does, the servers set watches up and answer, *)
(* and an answer with a value gets through sooner or later; so do a poll   *)
(* and a load that apollo's listen tries again and again.  That its Pull   *)
(* returns is not assumed.                                                 *)
Fairness ==
    /\ WF_vars(OfEtcd /\ Etcd!AddPath) /\ WF_vars(OfEtcd /\ Etcd!OpenWatch)
    /\ WF_vars(OfEtcd /\ Etcd!Deliver)
    /\ WF_vars(OfConsul /\ Consul!AddPath) /\ WF_vars(OfConsul /\ Consul!Listen)
    /\ SF_vars(OfConsul /\ Consul!ServerAnswers /\ answer' # Consul!Fail)
    /\ WF_vars(OfFile /\ File!AddPath) /\ WF_vars(OfFile /\ File!Handle)
    /\ \A c \in Configs : /\ WF_vars(OfNacos /\ Nacos!OnChange(c))
                          /\ WF_vars(OfNacos /\ Nacos!HandleUpdated(c))
    /\ \A n \in Namespaces : /\ WF_vars(OfApollo /\ Apollo!GoOn(n))
                             /\ SF_vars(OfApollo /\ Apollo!Answered(n))
                             /\ SF_vars(OfApollo /\ Apollo!GetsLoaded(n))
    /\ WF_vars(OfApollo /\ Apollo!ListenGoesOn) /\ WF_vars(OfApollo /\ Apollo!PollEnds)
FairSpec == Spec /\ Fairness

-----------------------------------------------------------------------------
TypeOK == CASE client = "etcd"   -> Etcd!TypeOK
            [] client = "consul" -> Consul!TypeOK
            [] client = "file"   -> File!TypeOK
            [] client = "nacos"  -> Nacos!TypeOK
            [] client = "apollo" -> Apollo!TypeOK

(* etcd/client.go:65, 87-98, consul/client.go:77-101, file.go:101-113,     *)
(* nacos/client.go:93-101, apollo/client.go:77-99, 187-195: the source is  *)
(* given the versions of a path in the order they were written and never   *)
(* an older one again, although what is watched starts with a version that *)
(* may have been pulled already.  (In nacos, a configuration that is also  *)
(* asked for in another namespace is left out: a call under way for that   *)
(* one may be late.)                                                       *)
Paths == CASE client = "nacos"  -> {p \in NacosPaths : Nacos!InOneNamespace(p)}
           [] client = "apollo" -> Namespaces
           [] OTHER             -> {"path"}
Written(p) == CASE client = "etcd"   -> Etcd!written
                [] client = "nacos"  -> written[ConfigOf[p]]
                [] client = "apollo" -> version[p]
                [] OTHER             -> written
Taken(p) == IF client \in {"nacos", "apollo"} THEN taken[p] ELSE taken
Contract == INSTANCE Feed WITH written <- [p \in Paths |-> Written(p)],
                               taken <- [p \in Paths |-> Taken(p)]
InOrder == Contract!Spec

(* README.md:2: configuration changes are followed as they happen.  What   *)
(* is written to etcd between Pull and Watch, or while the watch is being  *)
(* set up, reaches the source (etcd/client.go:64-66, 87-89).               *)
EtcdFollows == <>[](client = "etcd" => Etcd!UpToDate)

(* The same of consul, although polls fail and are answered late, and even *)
(* if the path was not there when it was pulled (consul/client.go:77-101). *)
ConsulFollows == <>[](client = "consul" => Consul!UpToDate)

(* The same of a file, although an editor replaces the watched file by     *)
(* another, and again while the client is dealing with that                *)
(* (file.go:123-153).                                                      *)
FileFollows == <>[](client = "file" => File!UpToDate)

(* The same of nacos, for the paths the SDK's calls can reach, whether the *)
(* public namespace is spelled out or left empty (nacos/client.go:68-101). *)
NacosFollows == <>[](client = "nacos" => Nacos!UpToDate)

(* The same of apollo, although polls and loads fail, other namespaces     *)
(* change and paths are added while a poll is under way (listen.go:41-94). *)
ApolloFollows == <>[](client = "apollo" => Apollo!UpToDate)

(* apollo/client.go:60-69, 179-197: a notification is recorded only with   *)
(* a release at least as new, so that one whose release could not be       *)
(* loaded will be announced again.                                         *)
AcknowledgedIsLoaded == client = "apollo" => Apollo!AcknowledgedIsLoaded

(* file.go:124-133: and the file that has the name then is watched.        *)
FileStaysAttached == client = "file" => File!StaysAttached
=============================================================================
