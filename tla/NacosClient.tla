----------------------------- MODULE NacosClient ----------------------------
(***************************************************************************)
(* The nacos client (source/client/nacos): the paths of one client, each   *)
(* from BaseSource.addPath's Pull to the callbacks of the nacos SDK.       *)
(*                                                                         *)
(* A path names a configuration (data id and group) and may name a         *)
(* namespace.  The SDK knows configurations only, all in the namespace of  *)
(* the client, and calls the one handleUpdated for each; it finds the path *)
(* in c.callbacks by data id, group and namespace put together.            *)
(***************************************************************************)
EXTENDS Naturals

CONSTANTS
    NacosPaths,
    Configs,        \* data id and group of a path, as newPath finds them
    ConfigOf,
    QueryOf,        \* the namespace a path asks for, "" if it does not
    Namespaces,     \* for cfg.Namespace
    MaxVersion,     \* bound: writes of each configuration
    WatchDisabled

NoCall == 0

ConstantsOK == /\ ConfigOf \in [NacosPaths -> Configs]
               /\ QueryOf \in [NacosPaths -> Namespaces] /\ "" \in Namespaces
               /\ MaxVersion \in Nat \ {0} /\ WatchDisabled \in BOOLEAN

VARIABLES
    namespace,  \* c.namespace
    written,    \* server: the version of each configuration, 0 if there is none
    pc,         \* addPath of each path: pull, merge, watch, done
    pulled,     \* the version Pull returned, 0 if none
    callbacks,  \* the paths that have their callback in c.callbacks
    listened,   \* SDK: the configurations it listens to
    announced,  \* SDK: the last version it called handleUpdated for
    call,       \* the version handleUpdated is called with, or NoCall
    taken       \* the version last given to the source

listener == <<callbacks, listened, announced, call>>
vars == <<namespace, written, pc, pulled, listener, taken>>

Init == /\ namespace \in Namespaces
        /\ written \in [Configs -> 0..1]
        /\ pc = [p \in NacosPaths |-> "pull"]
        /\ pulled = [p \in NacosPaths |-> 0] /\ taken = pulled
        /\ callbacks = {} /\ listened = {}
        /\ announced = [c \in Configs |-> 0]
        /\ call = [c \in Configs |-> NoCall]

(* Mistake: the namespace is used as it is written.                        *)
Key_asWritten(c, ns) == <<c, ns>>

(* nPath.String, which knows that the empty namespace is the public one.   *)
Key(c, ns) == <<c, IF ns = "" THEN "public" ELSE ns>>
KeyOf(p)   == Key(ConfigOf[p], IF QueryOf[p] # "" THEN QueryOf[p] ELSE namespace)

(* NewClient tells the SDK no namespace if it is the public one.           *)
SdkNamespace == IF namespace = "public" THEN "" ELSE namespace

Goto(p, label) == pc' = [pc EXCEPT ![p] = label]

(* External: Push, or anybody else.                                        *)
Publish(c) ==
    /\ written[c] < MaxVersion
    /\ written' = [written EXCEPT ![c] = @ + 1]
    /\ UNCHANGED <<namespace, pc, pulled, listener, taken>>

-----------------------------------------------------------------------------
(* Pull reads the configuration, whatever namespace the path asks for.     *)
Pull(p) ==
    /\ pc[p] = "pull" /\ Goto(p, "merge")
    /\ \/ pulled' = [pulled EXCEPT ![p] = written[ConfigOf[p]]]
       \/ UNCHANGED pulled      \* an error
    /\ UNCHANGED <<namespace, written, listener, taken>>

Merge(p) ==
    /\ pc[p] = "merge" /\ Goto(p, "watch")
    /\ taken' = [taken EXCEPT ![p] = pulled[p]]
    /\ UNCHANGED <<namespace, written, pulled, listener>>

(* A path is not watched if another spelling of it is.  The callback stays *)
(* even if ListenConfig fails.                                             *)
Watch(p) ==
    /\ pc[p] = "watch" /\ Goto(p, "done")
    /\ IF WatchDisabled \/ \E r \in callbacks : KeyOf(r) = KeyOf(p)
       THEN UNCHANGED <<callbacks, listened>>
       ELSE /\ callbacks' = callbacks \cup {p}
            /\ \/ listened' = listened \cup {ConfigOf[p]}
               \/ UNCHANGED listened
    /\ UNCHANGED <<namespace, written, pulled, announced, call, taken>>

(* External: the SDK calls handleUpdated for a version it has not called   *)
(* it for, one call at a time for each configuration.                      *)
OnChange(c) ==
    /\ c \in listened /\ call[c] = NoCall /\ announced[c] < written[c]
    /\ call' = [call EXCEPT ![c] = written[c]]
    /\ announced' = [announced EXCEPT ![c] = written[c]]
    /\ UNCHANGED <<namespace, written, pc, pulled, callbacks, listened, taken>>

(* What arrives for a key that has no callback is dropped.                 *)
HandleUpdated(c) ==
    /\ call[c] # NoCall
    /\ call' = [call EXCEPT ![c] = NoCall]
    /\ taken' = [p \in NacosPaths |->
                    IF p \in callbacks /\ KeyOf(p) = Key(c, SdkNamespace)
                    THEN call[c] ELSE taken[p]]
    /\ UNCHANGED <<namespace, written, pc, pulled, callbacks, listened, announced>>

AddPath(p) == Pull(p) \/ Merge(p) \/ Watch(p)

Next == \/ \E p \in NacosPaths : AddPath(p)
        \/ \E c \in Configs : Publish(c) \/ OnChange(c) \/ HandleUpdated(c)

-----------------------------------------------------------------------------
(* Types; no two callbacks have one key.                                   *)
TypeOK ==
    LET Versions == 0..MaxVersion IN
    /\ namespace \in Namespaces
    /\ written \in [Configs -> Versions]
    /\ pc \in [NacosPaths -> {"pull", "merge", "watch", "done"}]
    /\ pulled \in [NacosPaths -> Versions] /\ taken \in [NacosPaths -> Versions]
    /\ callbacks \subseteq {p \in NacosPaths : pc[p] = "done"}
    /\ \A p, q \in callbacks : KeyOf(p) = KeyOf(q) => p = q
    /\ listened \subseteq {ConfigOf[p] : p \in callbacks}
    /\ announced \in [Configs -> Versions] /\ call \in [Configs -> Versions]

(* The configuration of path p is asked for in one namespace only.  If it  *)
(* is not, a call that was meant for another path, and dropped there, is   *)
(* all the SDK will make of that version.                                  *)
InOneNamespace(p) == \A r \in NacosPaths : ConfigOf[r] = ConfigOf[p] => KeyOf(r) = KeyOf(p)

(* The paths the SDK's calls reach: the first spelling of a configuration  *)
(* that was watched, in the namespace of the client.                       *)
Reached == {p \in callbacks : /\ InOneNamespace(p) /\ ConfigOf[p] \in listened
                              /\ KeyOf(p) = Key(ConfigOf[p], namespace)}
UpToDate == \A p \in Reached : taken[p] = written[ConfigOf[p]]
=============================================================================
