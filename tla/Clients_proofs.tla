--------------------------- MODULE Clients_proofs ---------------------------
(***************************************************************************)
(* Proofs about the clients: for every client, any paths, servers and      *)
(* files, what reaches the source of a path never goes back to an older    *)
(* version (module Feed), a notification of apollo that is recorded has    *)
(* been loaded, and a file that is edited in place or replaced stays       *)
(* watched.                                                                *)
(***************************************************************************)
EXTENDS Clients, Sequence_lemmas

(* What a step may do to a path that had version w and of which the source *)
(* had t: module Feed's three cases.                                       *)
Feeds(w, t, w2, t2) == \/ w2 > w /\ t2 = t
                       \/ t2 \in t + 1 .. w /\ w2 = w
                       \/ w2 = w /\ t2 = t

-----------------------------------------------------------------------------
(***************************************************************************)
(* etcd.  What is watched begins with the revision of the pull, which is   *)
(* no older than what was pulled, and goes on one by one.                  *)
(***************************************************************************)
EtcdInv ==
    /\ Etcd!TypeOK
    /\ taken <= Etcd!written /\ pulled <= Etcd!written
    /\ pc \in {"pull", "merge"} => taken = 0
    /\ pc # "done" => watch = "none"
    /\ pulled <= rev
    /\ watch \in {"none", "asked"} => taken <= pulled
    /\ watch = "open" => taken <= cursor /\ cursor # 0

LEMMA LastIsGreatest ==
    ASSUME NEW n \in Nat, NEW R \in SUBSET (1..n), R # {}
    PROVE  Etcd!LastOf(R) \in R /\ \A q \in R : q <= Etcd!LastOf(R)
<1> DEFINE B == {n - r : r \in R}
<1>1. B \in SUBSET Nat /\ B # {}
  <2>1. \A r \in R : n - r \in Nat
    OBVIOUS
  <2> QED
    BY <2>1
<1>2. PICK b \in B : \A x \in B : b <= x
  BY <1>1, MinIsLeast
<1>3. PICK m \in R : b = n - m
  BY <1>2
<1>4. \A q \in R : q <= m
  <2> TAKE q \in R
  <2>1. n - q \in B
    OBVIOUS
  <2> QED
    BY <1>2, <1>3, <2>1
<1> QED
  BY <1>4 DEF Etcd!LastOf

LEMMA LastIsBounded ==
    ASSUME NEW n \in Nat, NEW R \in SUBSET (1..n)
    PROVE  Etcd!LastOf(R) \in 0..n
<1>1. CASE R = {}
  BY <1>1 DEF Etcd!LastOf
<1>2. CASE R # {}
  <2>1. Etcd!LastOf(R) \in R
    BY <1>2, LastIsGreatest
  <2>2. \A m \in R : m \in 0..n
    OBVIOUS
  <2> QED
    BY <2>1, <2>2
<1> QED
  BY <1>1, <1>2

LEMMA NewIsLast ==
    ASSUME NEW n \in Nat, NEW R \in SUBSET (1..n + 1), n + 1 \in R
    PROVE  Etcd!LastOf(R) = n + 1
<1>1. n + 1 \in Nat /\ R # {}
  OBVIOUS
<1>2. Etcd!LastOf(R) \in R /\ \A q \in R : q <= Etcd!LastOf(R)
  BY <1>1, LastIsGreatest
<1>3. \A m \in R : (\A q \in R : q <= m) => m = n + 1
  OBVIOUS
<1> QED
  BY <1>2, <1>3

(* The version of the path is a revision of the log, and any put in the    *)
(* log is one of its versions.                                             *)
LEMMA WrittenIsARevision ==
    ASSUME log \in Seq(Etcd!Entries)
    PROVE  /\ Etcd!written \in 0..Len(log)
           /\ \A i \in 1..Len(log) : log[i] = "put" => i <= Etcd!written
<1>1. Len(log) \in Nat /\ Etcd!Puts \in SUBSET (1..Len(log))
  BY DEF Etcd!Puts
<1>2. Etcd!written \in 0..Len(log)
  BY <1>1, LastIsBounded DEF Etcd!written
<1>3. ASSUME NEW i \in 1..Len(log), log[i] = "put" PROVE i <= Etcd!written
  <2>1. i \in Etcd!Puts
    BY <1>3 DEF Etcd!Puts
  <2> QED
    BY <1>1, <2>1, LastIsGreatest DEF Etcd!written
<1> QED
  BY <1>2, <1>3

LEMMA EtcdInit ==
    ASSUME Etcd!ConstantsOK, Etcd!Init
    PROVE  EtcdInv
<1>1. log \in Seq(Etcd!Entries)
  BY DEF Etcd!ConstantsOK, Etcd!Init
<1>2. Etcd!written \in 0..Len(log) /\ Len(log) \in Nat
  BY <1>1, WrittenIsARevision
<1> QED
  BY <1>1, <1>2 DEF Etcd!Init, EtcdInv, Etcd!TypeOK

(* A write at the server makes a new version or leaves the last one.       *)
LEMMA EtcdServerWrite ==
    ASSUME EtcdInv, NEW entry \in Etcd!Entries, Etcd!ServerWrite(entry)
    PROVE  EtcdInv' /\ Feeds(Etcd!written, taken, Etcd!written', taken')
<1>1. /\ log \in Seq(Etcd!Entries) /\ log' = Append(log, entry)
      /\ UNCHANGED <<pc, pulled, rev, watch, cursor, taken>>
  BY DEF EtcdInv, Etcd!TypeOK, Etcd!ServerWrite
<1> DEFINE n == Len(log)
<1>2. /\ n \in Nat /\ log' \in Seq(Etcd!Entries) /\ Len(log') = n + 1
      /\ \A i \in 1..n : log'[i] = log[i]
      /\ log'[n + 1] = entry
      /\ DOMAIN log = 1..n /\ DOMAIN log' = 1..n + 1
  BY <1>1
<1>3. Etcd!written \in 0..n
  BY <1>1, WrittenIsARevision
<1>4. CASE entry = "put"
  <2>1. Etcd!Puts' \in SUBSET (1..n + 1) /\ n + 1 \in Etcd!Puts'
    BY <1>2, <1>4 DEF Etcd!Puts
  <2>2. Etcd!LastOf(Etcd!Puts') = n + 1
    BY <1>2, <2>1, NewIsLast
  <2>3. Etcd!written' = n + 1
    BY <2>2 DEF Etcd!written, Etcd!LastOf
  <2> QED
    BY <1>1, <1>2, <1>3, <2>3 DEF EtcdInv, Etcd!TypeOK, Feeds
<1>5. CASE entry # "put"
  <2>1. Etcd!Puts' = Etcd!Puts
    BY <1>2, <1>5 DEF Etcd!Puts
  <2>2. Etcd!written' = Etcd!written
    BY <2>1 DEF Etcd!written, Etcd!LastOf
  <2> QED
    BY <1>1, <1>2, <1>3, <2>2 DEF EtcdInv, Etcd!TypeOK, Feeds
<1> QED
  BY <1>4, <1>5

LEMMA EtcdStep ==
    ASSUME EtcdInv, Etcd!Next
    PROVE  EtcdInv' /\ Feeds(Etcd!written, taken, Etcd!written', taken')
<1> USE DEF EtcdInv, Etcd!TypeOK
<1>1. /\ log \in Seq(Etcd!Entries) /\ Len(log) \in Nat
      /\ Etcd!written \in 0..Len(log)
      /\ \A i \in 1..Len(log) : log[i] = "put" => i <= Etcd!written
  BY WrittenIsARevision
<1>2. ASSUME UNCHANGED log PROVE Etcd!written' = Etcd!written
  BY <1>2 DEF Etcd!written, Etcd!LastOf, Etcd!Puts
<1>3. CASE Etcd!Server
  BY <1>3, EtcdServerWrite DEF Etcd!Server
<1>4. CASE Etcd!Pull
  BY <1>1, <1>2, <1>4 DEF Etcd!Pull, Feeds
<1>5. CASE Etcd!PullFails
  BY <1>1, <1>2, <1>5 DEF Etcd!PullFails, Feeds
<1>6. CASE Etcd!Merge
  BY <1>1, <1>2, <1>6 DEF Etcd!Merge, Feeds
<1>7. CASE Etcd!Watch
  BY <1>1, <1>2, <1>7 DEF Etcd!Watch, Feeds
<1>8. CASE Etcd!OpenWatch
  BY <1>1, <1>2, <1>8 DEF Etcd!OpenWatch, Feeds
<1>9. CASE Etcd!Deliver
  BY <1>1, <1>2, <1>9 DEF Etcd!Deliver, Feeds
<1>10. CASE Etcd!Cancel \/ Etcd!Close
  BY <1>1, <1>2, <1>10 DEF Etcd!Cancel, Etcd!Close, Feeds
<1> QED
  BY <1>3, <1>4, <1>5, <1>6, <1>7, <1>8, <1>9, <1>10 DEF Etcd!Next, Etcd!AddPath

-----------------------------------------------------------------------------
(***************************************************************************)
(* consul.  There is one answer on its way at most, and it tells of no     *)
(* older version than the source has.                                      *)
(***************************************************************************)
ConsulInv ==
    /\ Consul!TypeOK
    /\ taken <= written /\ pulled <= written /\ written <= modified
    /\ pc \in {"pull", "merge"} => taken = 0
    /\ pc # "done" => ~listening
    /\ ~listening => answer = Consul!None
    /\ answer \in Consul!Value => taken <= answer.version /\ answer.version <= written

LEMMA ConsulInit ==
    ASSUME Consul!ConstantsOK, Consul!Init
    PROVE  ConsulInv
<1> USE DEF Consul!ConstantsOK, Consul!Init, ConsulInv, Consul!TypeOK, Consul!None, Consul!Value
<1>1. Consul!TypeOK
  <2>1. exists \in BOOLEAN /\ listening \in BOOLEAN
    BY Zenon
  <2>2. modified \in 0..MaxIndex /\ modified = written /\ 0 \in 0..MaxIndex
    OBVIOUS
  <2> QED
    BY <2>1, <2>2, Zenon
<1>2. answer \notin Consul!Value
  OBVIOUS
<1> QED
  BY <1>1, <1>2

LEMMA ConsulStep ==
    ASSUME Consul!ConstantsOK, ConsulInv, Consul!Next
    PROVE  ConsulInv' /\ Feeds(written, taken, written', taken')
<1> USE DEF ConsulInv, Consul!TypeOK, Consul!None, Consul!Fail, Consul!Value, Feeds,
            Consul!ConstantsOK, Consul!server
<1>1. CASE Consul!Put
  BY <1>1 DEF Consul!Put
<1>2. CASE Consul!Delete
  <2>1. exists' \in BOOLEAN
    BY <1>2, Zenon DEF Consul!Delete
  <2>2. Consul!TypeOK'
    BY <1>2, <2>1 DEF Consul!Delete
  <2> QED
    BY <1>2, <2>2 DEF Consul!Delete
<1>3. CASE Consul!Pull
  BY <1>3 DEF Consul!Pull
<1>4. CASE Consul!Merge
  BY <1>4 DEF Consul!Merge
<1>5. CASE Consul!Watch
  BY <1>5 DEF Consul!Watch
<1>6. CASE Consul!ServerAnswers
  BY <1>6 DEF Consul!ServerAnswers
<1>7. CASE Consul!AskAgain
  BY <1>7 DEF Consul!AskAgain
<1>8. CASE Consul!HandOver
  BY <1>8 DEF Consul!HandOver
<1> QED
  BY <1>1, <1>2, <1>3, <1>4, <1>5, <1>6, <1>7, <1>8
     DEF Consul!Next, Consul!AddPath, Consul!Listen
-----------------------------------------------------------------------------
(***************************************************************************)
(* file.  While a calm file is not watched, the event that tells so has    *)
(* not been handled yet.                                                   *)
(***************************************************************************)
RemoveIsDue == loop = "Remove" \/ "Remove" \in ToSet(events)

FileInv ==
    /\ File!TypeOK
    /\ written <= edits + 1
    /\ pc \in {"pull", "merge"} => taken = 0
    /\ pc # "done" => ~registered /\ ~attached /\ events = <<>> /\ loop = "select"
    /\ calm => exists
    /\ calm /\ registered /\ ~attached => RemoveIsDue

LEMMA FileInit ==
    ASSUME File!ConstantsOK, File!Init
    PROVE  FileInv
<1> USE DEF File!ConstantsOK, File!Init, FileInv, File!TypeOK
<1>1. exists \in BOOLEAN /\ calm = exists /\ registered = FALSE
  BY Zenon
<1>2. written \in 0..MaxEdits + 1 /\ edits \in 0..MaxEdits /\ written <= edits + 1
  BY <1>1
<1>3. /\ events \in Seq({"Write", "Chmod", "Remove", "Rename"})
      /\ pulled \in 0..written /\ taken \in 0..written
  BY <1>1, <1>2
<1>4. attached = FALSE /\ loop = "select" /\ pc = "pull" /\ blanked = FALSE /\ events = <<>>
  BY Zenon
<1>5. File!TypeOK
  BY <1>1, <1>2, <1>3, <1>4, Zenon
<1> QED
  BY <1>1, <1>2, <1>4, <1>5

FileEvents == {"Write", "Chmod", "Remove", "Rename"}

LEMMA EventsOfType ==
    ASSUME NEW kind \in File!EditKinds
    PROVE  File!EventsOf(kind) \in Seq(FileEvents)
<1> USE DEF File!EditKinds, File!EventsOf, FileEvents
<1>1. CASE kind \in {"write", "chmod", "create"}
  BY <1>1
<1>2. CASE kind \in {"replace", "delete"}
  <2>1. File!EventsOf(kind) = <<"Chmod", "Remove">>
    BY <1>2
  <2>2. <<"Chmod", "Remove">> \in Seq(FileEvents)
    OBVIOUS
  <2> QED
    BY ONLY <2>1, <2>2
<1>3. CASE kind = "move"
  BY <1>3
<1> QED
  BY <1>1, <1>2, <1>3

LEMMA QueuedEvents ==
    ASSUME events \in Seq(FileEvents), NEW ops \in Seq(FileEvents)
    PROVE  /\ File!Queued(ops) \in Seq(FileEvents)
           /\ ToSet(File!Queued(ops)) = ToSet(events) \cup ToSet(ops)
<1>1. CASE ~(events # <<>> /\ ops # <<>> /\ File!Last(events) = Head(ops))
  <2>1. File!Queued(ops) = events \o ops
    BY <1>1 DEF File!Queued
  <2> QED
    BY <2>1, ToSetConcat
<1>2. CASE events # <<>> /\ ops # <<>> /\ File!Last(events) = Head(ops)
  <2>1. File!Queued(ops) = events \o Tail(ops)
    BY <1>2 DEF File!Queued
  <2>2. /\ Tail(ops) \in Seq(FileEvents)
        /\ ToSet(ops) = ToSet(Tail(ops)) \cup {Head(ops)}
    BY <1>2, ToSetTail
  <2>3. Head(ops) \in ToSet(events)
    BY <1>2 DEF File!Last, ToSet
  <2>4. /\ events \o Tail(ops) \in Seq(FileEvents)
        /\ ToSet(events \o Tail(ops)) = ToSet(events) \cup ToSet(Tail(ops))
    <3>1. \A rest \in Seq(FileEvents) :
             /\ events \o rest \in Seq(FileEvents)
             /\ ToSet(events \o rest) = ToSet(events) \cup ToSet(rest)
      BY ToSetConcat
    <3> QED
      BY <2>2, <3>1
  <2>5. ToSet(events) \cup ToSet(Tail(ops)) = ToSet(events) \cup ToSet(ops)
    BY <2>2, <2>3, Zenon
  <2> QED
    BY <2>1, <2>4, <2>5
<1> QED
  BY <1>1, <1>2

LEMMA FileEdit ==
    ASSUME FileInv, NEW kind \in File!EditKinds, File!Edit(kind)
    PROVE  FileInv' /\ Feeds(written, taken, written', taken')
<1> USE DEF FileInv, File!TypeOK
<1>1. /\ edits < MaxEdits /\ edits' = edits + 1
      /\ written' \in {written, written + 1}
      /\ UNCHANGED <<pc, pulled, registered, loop, taken, blanked>>
  BY DEF File!Edit
<1>2. written' \in 0..MaxEdits + 1 /\ edits' \in 0..MaxEdits /\ written' <= edits' + 1
  <2>1. MaxEdits \in Nat
    BY ClientsAssumption DEF File!ConstantsOK
  <2> QED
    BY <1>1, <2>1
<1>3. pulled' \in 0..written' /\ taken' \in 0..written'
  BY <1>1
<1>4. /\ calm' \in BOOLEAN /\ exists' \in BOOLEAN /\ attached' \in BOOLEAN
      /\ calm' => calm /\ pc = "done" /\ kind \in {"write", "replace", "chmod"}
      /\ exists' <=> kind \notin {"delete", "move"}
      /\ attached' <=> attached /\ kind \in {"write", "chmod"}
  BY Zenon DEF File!Edit, File!Calm
<1>5. /\ attached' => exists'
      /\ calm' => exists'
      /\ pc # "done" => ~attached'
  BY <1>4
<1>6. ASSUME attached
      PROVE  /\ events' \in Seq(FileEvents)
             /\ ToSet(events') = ToSet(events) \cup ToSet(File!EventsOf(kind))
  <2>1. events' = File!Queued(File!EventsOf(kind))
    BY <1>6 DEF File!Edit
  <2>2. events \in Seq(FileEvents)
    BY DEF FileEvents
  <2> QED
    BY <2>1, <2>2, EventsOfType, QueuedEvents
<1>7. ASSUME ~attached PROVE events' = events
  BY <1>7 DEF File!Edit
<1>8. events' \in Seq({"Write", "Chmod", "Remove", "Rename"})
  BY <1>6, <1>7 DEF FileEvents
<1>9. pc # "done" => events' = <<>>
  BY <1>7
<1>10. ASSUME calm', registered', ~attached' PROVE RemoveIsDue'
  <2>1. CASE ~attached
    <3>1. RemoveIsDue
      BY <1>1, <1>4, <1>10, <2>1
    <3> QED
      BY <1>1, <1>7, <2>1, <3>1 DEF RemoveIsDue
  <2>2. CASE attached
    <3>1. kind = "replace"
      BY <1>4, <1>10, <2>2
    <3>2. File!EventsOf(kind) = <<"Chmod", "Remove">>
      BY <3>1 DEF File!EventsOf
    <3>3. "Remove" \in ToSet(File!EventsOf(kind))
      BY <3>2 DEF ToSet
    <3> QED
      BY <1>6, <2>2, <3>3 DEF RemoveIsDue
  <2> QED
    BY <2>1, <2>2
<1>11. Feeds(written, taken, written', taken')
  BY <1>1 DEF Feeds
<1> QED
  BY <1>1, <1>2, <1>3, <1>4, <1>5, <1>8, <1>9, <1>10, <1>11

LEMMA FileStep ==
    ASSUME FileInv, File!Next
    PROVE  FileInv' /\ Feeds(written, taken, written', taken')
<1> USE DEF FileInv, File!TypeOK, Feeds, RemoveIsDue, File!disk
<1>1. CASE \E kind \in File!EditKinds : File!Edit(kind)
  BY <1>1, FileEdit
<1>2. CASE File!Pull
  BY <1>2 DEF File!Pull
<1>3. CASE File!Merge
  BY <1>3 DEF File!Merge
<1>4. CASE File!Watch
  BY <1>4 DEF File!Watch
<1>5. CASE File!Select
  <2>1. /\ Head(events) \in ToSet(events) /\ Head(events) = events[1]
        /\ Tail(events) \in Seq({"Write", "Chmod", "Remove", "Rename"})
        /\ ToSet(events) = ToSet(Tail(events)) \cup {Head(events)}
    BY <1>5, ToSetTail DEF File!Select
  <2>2. Head(events) \in {"Write", "Chmod", "Remove", "Rename"}
    BY <1>5 DEF File!Select
  <2> QED
    BY <1>5, <2>1, <2>2 DEF File!Select
<1>6. CASE File!HandleRemove
  BY <1>6 DEF File!HandleRemove
<1>7. CASE File!HandleChmodOrRename
  BY <1>7 DEF File!HandleChmodOrRename
<1>8. CASE File!HandleUpdated
  <2>1. blanked' \in BOOLEAN
    BY <1>8, Zenon DEF File!HandleUpdated
  <2>2. /\ loop' = "select" /\ taken' \in {taken, written}
        /\ UNCHANGED <<written, exists, calm, edits, attached, events, pc, pulled, registered>>
    BY <1>8 DEF File!HandleUpdated
  <2>3. File!TypeOK'
    BY <2>1, <2>2
  <2> QED
    BY <1>8, <2>2, <2>3 DEF File!HandleUpdated
<1> QED
  BY <1>1, <1>2, <1>3, <1>4, <1>5, <1>6, <1>7, <1>8 DEF File!Next, File!AddPath, File!Handle

-----------------------------------------------------------------------------
(***************************************************************************)
(* nacos.  A path that gets its callback is the only one of its            *)
(* configuration, unless that is asked for in another namespace as well;   *)
(* so no call for the configuration is under way then.                     *)
(***************************************************************************)
NacosTypes ==
    /\ namespace \in NacosNamespaces
    /\ written \in [Configs -> 0..MaxVersion]
    /\ pc \in [NacosPaths -> {"pull", "merge", "watch", "done"}]
    /\ pulled \in [NacosPaths -> 0..MaxVersion] /\ taken \in [NacosPaths -> 0..MaxVersion]
    /\ announced \in [Configs -> 0..MaxVersion] /\ call \in [Configs -> 0..MaxVersion]

NacosCallbacks ==
    /\ callbacks \subseteq NacosPaths /\ \A p \in callbacks : pc[p] = "done"
    /\ \A p, q \in callbacks : Nacos!KeyOf(p) = Nacos!KeyOf(q) => p = q
    /\ \A c \in listened : \E p \in callbacks : ConfigOf[p] = c

NacosVersions ==
    /\ \A p \in NacosPaths : /\ pulled[p] <= written[ConfigOf[p]]
                             /\ taken[p] <= written[ConfigOf[p]]
                             /\ pc[p] \in {"pull", "merge"} => taken[p] = 0
    /\ \A c \in Configs : /\ call[c] <= announced[c] /\ announced[c] <= written[c]
                          /\ c \notin listened => announced[c] = 0
    /\ \A p \in callbacks : Nacos!InOneNamespace(p) /\ call[ConfigOf[p]] # 0
                            => taken[p] <= call[ConfigOf[p]]

NacosInv == NacosTypes /\ NacosCallbacks /\ NacosVersions

NacosFeeds == \A p \in NacosPaths :
    Nacos!InOneNamespace(p) =>
        Feeds(written[ConfigOf[p]], taken[p], written'[ConfigOf[p]], taken'[p])

LEMMA NacosTyped == NacosTypes /\ NacosCallbacks => Nacos!TypeOK
<1> SUFFICES ASSUME NacosTypes, NacosCallbacks PROVE Nacos!TypeOK
  OBVIOUS
<1>1. callbacks \subseteq {p \in NacosPaths : pc[p] = "done"}
  BY DEF NacosCallbacks
<1>2. listened \subseteq {ConfigOf[p] : p \in callbacks}
  BY DEF NacosCallbacks
<1> QED
  BY <1>1, <1>2, Zenon DEF NacosTypes, NacosCallbacks, Nacos!TypeOK

LEMMA NacosInit ==
    ASSUME Nacos!ConstantsOK, Nacos!Init
    PROVE  NacosInv
<1>1. MaxVersion \in Nat \ {0} /\ ConfigOf \in [NacosPaths -> Configs]
  BY Zenon DEF Nacos!ConstantsOK
<1> USE DEF Nacos!Init, Nacos!NoCall
<1>2. NacosTypes
  <2>1. 0 \in 0..MaxVersion /\ 0..1 \subseteq 0..MaxVersion
    BY <1>1
  <2>2. written \in [Configs -> 0..MaxVersion]
    BY <2>1
  <2> QED
    BY <2>1, <2>2 DEF NacosTypes
<1>3. NacosCallbacks
  BY DEF NacosCallbacks
<1>4. NacosVersions
  <2>1. /\ \A p \in NacosPaths : pulled[p] = 0 /\ taken[p] = 0 /\ written[ConfigOf[p]] \in 0..1
        /\ \A c \in Configs : call[c] = 0 /\ announced[c] = 0 /\ written[c] \in 0..1
    BY <1>1
  <2> QED
    BY <2>1 DEF NacosVersions
<1> QED
  BY <1>2, <1>3, <1>4 DEF NacosInv

(* The spellings of a configuration do not change, nor does the namespace. *)
LEMMA KeysStay ==
    ASSUME UNCHANGED namespace, NEW p \in NacosPaths
    PROVE  /\ Nacos!KeyOf(p)' = Nacos!KeyOf(p)
           /\ Nacos!InOneNamespace(p)' <=> Nacos!InOneNamespace(p)
BY DEF Nacos!KeyOf, Nacos!Key, Nacos!InOneNamespace

(* When p gets its callback, nobody has listened to its configuration.     *)
LEMMA FirstOfItsConfiguration ==
    ASSUME NacosInv, NEW p \in NacosPaths, Nacos!InOneNamespace(p),
           ~ \E r \in callbacks : Nacos!KeyOf(r) = Nacos!KeyOf(p), ConfigOf[p] \in Configs
    PROVE  ConfigOf[p] \notin listened /\ call[ConfigOf[p]] = 0
<1>1. ConfigOf[p] \notin listened
  BY DEF NacosInv, NacosCallbacks, Nacos!InOneNamespace
<1> QED
  BY <1>1 DEF NacosInv, NacosTypes, NacosVersions

(* What is called for a key is of the configuration in it.                 *)
LEMMA KeyHasConfiguration ==
    ASSUME NEW p \in NacosPaths, NEW c, NEW ns, Nacos!KeyOf(p) = Nacos!Key(c, ns)
    PROVE  ConfigOf[p] = c
BY DEF Nacos!KeyOf, Nacos!Key

LEMMA NacosStep ==
    ASSUME Nacos!ConstantsOK, NacosInv, Nacos!Next
    PROVE  NacosInv' /\ NacosFeeds /\ UNCHANGED namespace
<1> USE DEF NacosInv
<1>1. UNCHANGED namespace
  BY DEF Nacos!Next, Nacos!AddPath, Nacos!Pull, Nacos!Merge, Nacos!Watch, Nacos!Publish,
         Nacos!OnChange, Nacos!HandleUpdated
<1>2. \A p \in NacosPaths : /\ Nacos!KeyOf(p)' = Nacos!KeyOf(p)
                            /\ Nacos!InOneNamespace(p)' <=> Nacos!InOneNamespace(p)
  BY <1>1, KeysStay
<1>c. /\ \A p \in NacosPaths : ConfigOf[p] \in Configs
      /\ MaxVersion \in Nat \ {0}
  BY DEF Nacos!ConstantsOK
<1>3. ASSUME NEW c \in Configs, Nacos!Publish(c) PROVE NacosInv' /\ NacosFeeds
  <2> USE <1>2, <1>3, <1>c DEF Nacos!Publish, Nacos!listener
  <2>1. NacosTypes'
    BY DEF NacosTypes
  <2>2. NacosCallbacks'
    BY DEF NacosCallbacks
  <2>3. NacosVersions'
    BY DEF NacosVersions, NacosTypes, NacosCallbacks
  <2>4. NacosFeeds
    BY DEF NacosFeeds, Feeds, NacosTypes
  <2> QED
    BY <2>1, <2>2, <2>3, <2>4
<1>4. ASSUME NEW p \in NacosPaths, Nacos!Pull(p) PROVE NacosInv' /\ NacosFeeds
  <2> USE <1>2, <1>4, <1>c DEF Nacos!Pull, Nacos!listener, Nacos!Goto
  <2>1. NacosTypes'
    BY DEF NacosTypes
  <2>2. NacosCallbacks'
    BY DEF NacosCallbacks, NacosTypes
  <2>3. NacosVersions'
    BY DEF NacosVersions, NacosTypes, NacosCallbacks
  <2>4. NacosFeeds
    BY DEF NacosFeeds, Feeds, NacosTypes
  <2> QED
    BY <2>1, <2>2, <2>3, <2>4
<1>5. ASSUME NEW p \in NacosPaths, Nacos!Merge(p) PROVE NacosInv' /\ NacosFeeds
  <2> USE <1>2, <1>5, <1>c DEF Nacos!Merge, Nacos!listener, Nacos!Goto
  <2>1. NacosTypes'
    BY DEF NacosTypes
  <2>2. NacosCallbacks'
    BY DEF NacosCallbacks, NacosTypes
  <2>3. NacosVersions'
    BY DEF NacosVersions, NacosTypes, NacosCallbacks
  <2>4. NacosFeeds
    BY DEF NacosFeeds, Feeds, NacosTypes, NacosVersions
  <2> QED
    BY <2>1, <2>2, <2>3, <2>4
<1>6. ASSUME NEW p \in NacosPaths, Nacos!Watch(p) PROVE NacosInv' /\ NacosFeeds
  <2> USE <1>2, <1>6, <1>c DEF Nacos!Watch, Nacos!listener, Nacos!Goto
  <2>1. NacosTypes'
    BY DEF NacosTypes
  <2>2. NacosFeeds
    BY DEF NacosFeeds, Feeds, NacosTypes
  <2>3. CASE callbacks' = callbacks /\ listened' = listened
    <3>1. NacosCallbacks'
      BY <2>3 DEF NacosCallbacks, NacosTypes
    <3>2. NacosVersions'
      BY <2>3 DEF NacosVersions, NacosTypes, NacosCallbacks
    <3> QED
      BY <2>1, <2>2, <3>1, <3>2
  <2>4. CASE /\ ~ \E r \in callbacks : Nacos!KeyOf(r) = Nacos!KeyOf(p)
             /\ callbacks' = callbacks \cup {p}
             /\ listened' = listened \/ listened' = listened \cup {ConfigOf[p]}
    <3>1. NacosCallbacks'
      BY <2>4 DEF NacosCallbacks, NacosTypes
    <3>2. Nacos!InOneNamespace(p) => call[ConfigOf[p]] = 0
      BY <2>4, FirstOfItsConfiguration
    <3>3. NacosVersions'
      BY <2>4, <3>2 DEF NacosVersions, NacosTypes, NacosCallbacks
    <3> QED
      BY <2>1, <2>2, <3>1, <3>3
  <2> QED
    BY <2>3, <2>4
<1>7. ASSUME NEW c \in Configs, Nacos!OnChange(c) PROVE NacosInv' /\ NacosFeeds
  <2> USE <1>2, <1>7, <1>c DEF Nacos!OnChange
  <2>1. NacosTypes'
    BY DEF NacosTypes
  <2>2. NacosCallbacks'
    BY DEF NacosCallbacks
  <2>3. NacosVersions'
    BY DEF NacosVersions, NacosTypes, NacosCallbacks
  <2>4. NacosFeeds
    BY DEF NacosFeeds, Feeds, NacosTypes
  <2> QED
    BY <2>1, <2>2, <2>3, <2>4
<1>8. ASSUME NEW c \in Configs, Nacos!HandleUpdated(c) PROVE NacosInv' /\ NacosFeeds
  <2> USE <1>2, <1>8, <1>c DEF Nacos!HandleUpdated, Nacos!NoCall
  <2>1. NacosTypes'
    BY DEF NacosTypes
  <2>2. NacosCallbacks'
    BY DEF NacosCallbacks
  <2>3. /\ \A p \in NacosPaths :
              \/ taken'[p] = taken[p]
              \/ p \in callbacks /\ ConfigOf[p] = c /\ taken'[p] = call[c]
        /\ \A d \in Configs : call'[d] = IF d = c THEN 0 ELSE call[d]
    BY KeyHasConfiguration DEF NacosTypes
  <2> HIDE DEF Nacos!HandleUpdated
  <2>4. UNCHANGED <<written, pc, pulled, callbacks, listened, announced>>
    BY DEF Nacos!HandleUpdated
  <2>5. call[c] # 0
    BY DEF Nacos!HandleUpdated
  <2>6. NacosVersions'
    BY <2>3, <2>4, <2>5 DEF NacosVersions, NacosTypes, NacosCallbacks
  <2>7. NacosFeeds
    BY <2>3, <2>4, <2>5 DEF NacosFeeds, Feeds, NacosTypes, NacosVersions
  <2> QED
    BY <2>1, <2>2, <2>6, <2>7
<1> QED
  BY <1>1, <1>3, <1>4, <1>5, <1>6, <1>7, <1>8 DEF Nacos!Next, Nacos!AddPath

-----------------------------------------------------------------------------
(***************************************************************************)
(* apollo.  Nothing the client keeps is newer than what the server has,    *)
(* and unless listen is stuck the release it has is at least as new as     *)
(* what the source was given.                                              *)
(***************************************************************************)
ApolloInv ==
    /\ Apollo!TypeOK
    /\ Apollo!AcknowledgedIsLoaded
    /\ \A n \in Namespaces : /\ pulled[n] <= version[n] /\ taken[n] <= version[n]
                             /\ saved[n] <= version[n] /\ releases[n] <= version[n]
                             /\ pc[n] \in {"pull", "merge"} => taken[n] = 0
    /\ \A ch \in changes : ch.id <= version[ch.name] /\ ch.name \in watches
    /\ at \in {"save", "call"} => current \in watches
    /\ at # "stuck" => \A n \in Namespaces : pulled[n] <= releases[n] /\ taken[n] <= releases[n]

ApolloFeeds == \A n \in Namespaces : Feeds(version[n], taken[n], version'[n], taken'[n])

LEMMA ApolloInit ==
    ASSUME Apollo!ConstantsOK, Apollo!Init
    PROVE  ApolloInv
<1> USE DEF Apollo!ConstantsOK, Apollo!Init, Apollo!NoIds, Apollo!NoPoll
<1>1. clock = 1 /\ 0 \in 0..clock /\ clock \in Apollo!Releases
  BY DEF Apollo!Releases
<1>2. /\ version \in [Namespaces -> 0..clock]
      /\ saved \in [Namespaces -> 0..clock]
      /\ \A n \in Namespaces : saved[n] <= version[n] /\ 0 <= version[n]
  <2>1. CASE saved \in [Namespaces -> {0}]
    BY <1>1, <2>1
  <2>2. CASE saved = version
    BY <1>1, <2>2
  <2> QED
    BY <2>1, <2>2
<1>3. Apollo!TypeOK
  BY <1>1, <1>2 DEF Apollo!TypeOK
<1> QED
  BY <1>1, <1>2, <1>3 DEF ApolloInv, Apollo!AcknowledgedIsLoaded

LEMMA ApolloStep ==
    ASSUME Apollo!ConstantsOK, ApolloInv, Apollo!Next
    PROVE  ApolloInv' /\ ApolloFeeds
<1> USE DEF Apollo!ConstantsOK, ApolloInv, ApolloFeeds, Feeds, Apollo!TypeOK,
            Apollo!AcknowledgedIsLoaded, Apollo!Releases, Apollo!Change, Apollo!Goto,
            Apollo!server, Apollo!adding, Apollo!listener
<1>1. ASSUME NEW n \in Namespaces, Apollo!Publish(n), UNCHANGED crashed
      PROVE  ApolloInv' /\ ApolloFeeds
  BY <1>1 DEF Apollo!Publish
<1>2. ASSUME NEW n \in Namespaces, Apollo!Pull(n), UNCHANGED crashed
      PROVE  ApolloInv' /\ ApolloFeeds
  BY <1>2 DEF Apollo!Pull
<1>3. ASSUME NEW n \in Namespaces, Apollo!PullFails(n)
      PROVE  ApolloInv' /\ ApolloFeeds
  BY <1>3 DEF Apollo!PullFails
<1>4. ASSUME NEW n \in Namespaces, Apollo!PullFromSnapshot(n)
      PROVE  ApolloInv' /\ ApolloFeeds
  <2>1. CASE crashed' = TRUE /\ UNCHANGED <<pc, pulled, at>>
    BY <1>4, <2>1 DEF Apollo!PullFromSnapshot
  <2>2. CASE /\ at = "save" /\ at' = "stuck" /\ UNCHANGED crashed
             /\ pc' = [pc EXCEPT ![n] = "merge"]
             /\ pulled' = [pulled EXCEPT ![n] = saved[n]]
    BY <1>4, <2>2 DEF Apollo!PullFromSnapshot
  <2> QED
    BY <1>4, <2>1, <2>2 DEF Apollo!PullFromSnapshot
<1>5. ASSUME NEW n \in Namespaces, Apollo!Merge(n), UNCHANGED crashed
      PROVE  ApolloInv' /\ ApolloFeeds
  BY <1>5 DEF Apollo!Merge
<1>6. ASSUME NEW n \in Namespaces, Apollo!Watch(n), UNCHANGED crashed
      PROVE  ApolloInv' /\ ApolloFeeds
  BY <1>6 DEF Apollo!Watch
<1>7. ASSUME NEW n \in Namespaces, Apollo!ServerAnswers(n), UNCHANGED crashed
      PROVE  ApolloInv' /\ ApolloFeeds
  BY <1>7 DEF Apollo!ServerAnswers, Apollo!Newer
<1>8. ASSUME Apollo!Ask \/ Apollo!AllHandled \/ Apollo!PollFails, UNCHANGED crashed
      PROVE  ApolloInv' /\ ApolloFeeds
  BY <1>8 DEF Apollo!Ask, Apollo!AllHandled, Apollo!PollFails
<1>9. ASSUME Apollo!Save, UNCHANGED crashed
      PROVE  ApolloInv' /\ ApolloFeeds
  BY <1>9 DEF Apollo!Save
<1>10. ASSUME Apollo!Call, UNCHANGED crashed
       PROVE  ApolloInv' /\ ApolloFeeds
  BY <1>10 DEF Apollo!Call
<1>11. ASSUME NEW ch \in changes, Apollo!Loaded(ch), UNCHANGED crashed
       PROVE  ApolloInv' /\ ApolloFeeds
  BY <1>11 DEF Apollo!Loaded
<1>12. ASSUME NEW ch \in changes, Apollo!NotLoaded(ch), UNCHANGED crashed
       PROVE  ApolloInv' /\ ApolloFeeds
  BY <1>12 DEF Apollo!NotLoaded
<1> QED
  BY <1>1, <1>2, <1>3, <1>4, <1>5, <1>6, <1>7, <1>8, <1>9, <1>10, <1>11, <1>12
     DEF Apollo!Next, Apollo!Lives, Apollo!Listen
-----------------------------------------------------------------------------
(***************************************************************************)
(* All of them.  What a step of one client leaves alone is not looked at.  *)
(***************************************************************************)
ClientsInv ==
    /\ client \in {"etcd", "consul", "file", "nacos", "apollo"}
    /\ client = "etcd"   => EtcdInv
    /\ client = "consul" => ConsulInv
    /\ client = "file"   => FileInv
    /\ client = "nacos"  => NacosInv
    /\ client = "apollo" => ApolloInv

(* Every path is fed as module Feed allows.                                *)
AllFed == /\ Paths' = Paths
          /\ \A p \in Paths : Feeds(Written(p), Taken(p), Written(p)', Taken(p)')

LEMMA ClientsInit == Init => ClientsInv
<1> USE ClientsAssumption
<1>1. ASSUME Init, client = "etcd" PROVE EtcdInv
  BY <1>1, EtcdInit DEF Init
<1>2. ASSUME Init, client = "consul" PROVE ConsulInv
  BY <1>2, ConsulInit DEF Init
<1>3. ASSUME Init, client = "file" PROVE FileInv
  BY <1>3, FileInit DEF Init
<1>4. ASSUME Init, client = "nacos" PROVE NacosInv
  BY <1>4, NacosInit DEF Init
<1>5. ASSUME Init, client = "apollo" PROVE ApolloInv
  BY <1>5, ApolloInit DEF Init
<1>6. Init => client \in {"etcd", "consul", "file", "nacos", "apollo"}
  BY DEF Init
<1> QED
  BY <1>1, <1>2, <1>3, <1>4, <1>5, <1>6 DEF ClientsInv

LEMMA ClientsStep == ClientsInv /\ Next => ClientsInv' /\ AllFed
<1> SUFFICES ASSUME ClientsInv, Next PROVE ClientsInv' /\ AllFed
  OBVIOUS
<1> USE ClientsAssumption
<1>1. CASE OfEtcd /\ Etcd!Next
  <2>1. client = "etcd" /\ client' = "etcd"
    BY <1>1 DEF OfEtcd
  <2>2. EtcdInv' /\ Feeds(Etcd!written, taken, Etcd!written', taken')
    BY <1>1, <2>1, EtcdStep DEF ClientsInv
  <2>3. AllFed
    BY <2>1, <2>2 DEF AllFed, Paths, Written, Taken
  <2> QED
    BY <2>1, <2>2, <2>3 DEF ClientsInv
<1>2. CASE OfConsul /\ Consul!Next
  <2>1. client = "consul" /\ client' = "consul"
    BY <1>2 DEF OfConsul
  <2>2. ConsulInv' /\ Feeds(written, taken, written', taken')
    BY <1>2, <2>1, ConsulStep DEF ClientsInv
  <2>3. AllFed
    BY <2>1, <2>2 DEF AllFed, Paths, Written, Taken
  <2> QED
    BY <2>1, <2>2, <2>3 DEF ClientsInv
<1>3. CASE OfFile /\ File!Next
  <2>1. client = "file" /\ client' = "file"
    BY <1>3 DEF OfFile
  <2>2. FileInv' /\ Feeds(written, taken, written', taken')
    BY <1>3, <2>1, FileStep DEF ClientsInv
  <2>3. AllFed
    BY <2>1, <2>2 DEF AllFed, Paths, Written, Taken
  <2> QED
    BY <2>1, <2>2, <2>3 DEF ClientsInv
<1>4. CASE OfNacos /\ Nacos!Next
  <2>1. client = "nacos" /\ client' = "nacos"
    BY <1>4 DEF OfNacos
  <2>2. NacosInv' /\ NacosFeeds /\ UNCHANGED namespace
    BY <1>4, <2>1, NacosStep DEF ClientsInv
  <2>3. \A p \in NacosPaths : Nacos!InOneNamespace(p)' <=> Nacos!InOneNamespace(p)
    BY <2>2, KeysStay
  <2>4. Paths' = Paths /\ Paths = {p \in NacosPaths : Nacos!InOneNamespace(p)}
    BY <2>1, <2>3 DEF Paths
  <2>5. AllFed
    BY <2>1, <2>2, <2>4 DEF AllFed, NacosFeeds, Written, Taken
  <2> QED
    BY <2>1, <2>2, <2>5 DEF ClientsInv
<1>5. CASE OfApollo /\ Apollo!Next
  <2>1. client = "apollo" /\ client' = "apollo"
    BY <1>5 DEF OfApollo
  <2>2. ApolloInv' /\ ApolloFeeds
    BY <1>5, <2>1, ApolloStep DEF ClientsInv
  <2>3. AllFed
    BY <2>1, <2>2 DEF AllFed, ApolloFeeds, Paths, Written, Taken
  <2> QED
    BY <2>1, <2>2, <2>3 DEF ClientsInv
<1> QED
  BY <1>1, <1>2, <1>3, <1>4, <1>5 DEF Next
(* What a client is made of does not change if no variable does.           *)
LEMMA ClientsStay == ClientsInv /\ UNCHANGED vars => ClientsInv' /\ AllFed
<1> SUFFICES ASSUME ClientsInv, UNCHANGED vars PROVE ClientsInv' /\ AllFed
  OBVIOUS
<1> USE DEF vars, etcdOnly, shared, consulOnly, fileOnly, nacosOnly, apolloOnly
<1>1. ASSUME EtcdInv PROVE EtcdInv'
  BY <1>1 DEF EtcdInv, Etcd!TypeOK, Etcd!written, Etcd!LastOf, Etcd!Puts
<1>2. ASSUME ConsulInv PROVE ConsulInv'
  BY <1>2 DEF ConsulInv, Consul!TypeOK
<1>3. ASSUME FileInv PROVE FileInv'
  BY <1>3 DEF FileInv, File!TypeOK, RemoveIsDue
<1>4. \A p \in NacosPaths : /\ Nacos!KeyOf(p)' = Nacos!KeyOf(p)
                            /\ Nacos!InOneNamespace(p)' <=> Nacos!InOneNamespace(p)
  BY KeysStay
<1>5. ASSUME NacosInv PROVE NacosInv'
  BY <1>4, <1>5 DEF NacosInv, NacosTypes, NacosCallbacks, NacosVersions
<1>6. ASSUME ApolloInv PROVE ApolloInv'
  BY <1>6 DEF ApolloInv, Apollo!TypeOK, Apollo!AcknowledgedIsLoaded
<1>7. ClientsInv'
  BY <1>1, <1>2, <1>3, <1>5, <1>6 DEF ClientsInv
<1>8. Paths' = Paths
  BY <1>4 DEF Paths
<1>9. ASSUME NEW p \in Paths PROVE Written(p)' = Written(p) /\ Taken(p)' = Taken(p)
  BY DEF Written, Taken, Etcd!written, Etcd!LastOf, Etcd!Puts
<1> QED
  BY <1>7, <1>8, <1>9 DEF AllFed, Feeds

LEMMA ClientsKeep == Spec => []ClientsInv /\ [][AllFed]_vars
<1>1. Init => ClientsInv
  BY ClientsInit
<1>2. ClientsInv /\ [Next]_vars => ClientsInv' /\ [AllFed]_vars
  BY ClientsStep, ClientsStay
<1> QED
  BY <1>1, <1>2, PTL DEF Spec

-----------------------------------------------------------------------------
(* The types of every client's variables hold for any log, any files and   *)
(* any number of writes, paths and namespaces; in apollo, listen runs if   *)
(* and only if a namespace is watched (client.go:105-133), and in nacos no *)
(* two callbacks have one key (client.go:68-89).                           *)
THEOREM TypeCorrect == Spec => []TypeOK
<1>1. ClientsInv => TypeOK
  BY NacosTyped DEF ClientsInv, TypeOK, EtcdInv, ConsulInv, FileInv, NacosInv, ApolloInv
<1> QED
  BY <1>1, ClientsKeep, PTL

(* apollo/client.go:60-69, 179-197: a notification is recorded only with a *)
(* release at least as new.                                                *)
THEOREM RecordedIsLoaded == Spec => []AcknowledgedIsLoaded
<1>1. ClientsInv => AcknowledgedIsLoaded
  BY DEF ClientsInv, AcknowledgedIsLoaded, ApolloInv
<1> QED
  BY <1>1, ClientsKeep, PTL

(* file.go:123-153: a file that is there when it is added, and then is     *)
(* written or replaced as often as one likes, is watched whenever no event *)
(* is left to handle.                                                      *)
THEOREM FileStaysWatched == Spec => []FileStaysAttached
<1>1. ASSUME FileInv PROVE File!StaysAttached
  <2> SUFFICES ASSUME calm, registered, loop = "select", events = <<>>, ~attached PROVE FALSE
    BY DEF File!StaysAttached
  <2>1. RemoveIsDue
    BY <1>1 DEF FileInv
  <2> QED
    BY <2>1 DEF RemoveIsDue, ToSet
<1>2. ClientsInv => FileStaysAttached
  BY <1>1 DEF ClientsInv, FileStaysAttached
<1> QED
  BY <1>2, ClientsKeep, PTL

(* etcd/client.go:65, 87-98, consul/client.go:77-101, file.go:101-113,     *)
(* nacos/client.go:93-101, apollo/client.go:77-99, 187-195: each client    *)
(* feeds its source as module Feed promises: the versions of a path come   *)
(* in the order they were written and never an older one again.            *)
THEOREM FeedsKeepOrder == Spec => InOrder
<1>1. Init => Contract!Init
  <2> SUFFICES ASSUME Init PROVE Contract!Init
    OBVIOUS
  <2>1. ClientsInv
    BY ClientsInit
  <2>2. ASSUME NEW p \in Paths PROVE Written(p) \in Nat /\ Taken(p) = 0
    <3>1. CASE client = "etcd"
      <4>1. Etcd!written \in Nat /\ taken = 0
        BY <2>1, <3>1, WrittenIsARevision DEF ClientsInv, EtcdInv, Etcd!TypeOK, Init, Etcd!Init
      <4> QED
        BY <3>1, <4>1 DEF Written, Taken
    <3>2. CASE client = "consul"
      BY <2>1, <3>2 DEF ClientsInv, ConsulInv, Consul!TypeOK, Written, Taken, Init, Consul!Init
    <3>3. CASE client = "file"
      BY <2>1, <3>3 DEF ClientsInv, FileInv, File!TypeOK, Written, Taken, Init, File!Init
    <3>4. CASE client = "nacos"
      <4>1. p \in NacosPaths /\ ConfigOf[p] \in Configs
        BY <3>4, ClientsAssumption DEF Paths, Nacos!ConstantsOK
      <4>2. taken[p] = 0
        BY <3>4, <4>1 DEF Init, Nacos!Init
      <4> QED
        BY <2>1, <3>4, <4>1, <4>2 DEF ClientsInv, NacosInv, NacosTypes, Written, Taken
    <3>5. CASE client = "apollo"
      <4>1. p \in Namespaces
        BY <3>5 DEF Paths
      <4>2. taken[p] = 0
        BY <3>5, <4>1 DEF Init, Apollo!Init, Apollo!NoIds
      <4>3. version[p] \in Nat
        BY <2>1, <3>5, <4>1 DEF ClientsInv, ApolloInv, Apollo!TypeOK, Apollo!Releases
      <4> QED
        BY <3>5, <4>2, <4>3 DEF Written, Taken
    <3> QED
      BY <2>1, <3>1, <3>2, <3>3, <3>4, <3>5 DEF ClientsInv
  <2> QED
    BY <2>2 DEF Contract!Init, Contract!Paths
<1>2. AllFed => [Contract!Next]_Contract!vars
  <2> SUFFICES ASSUME AllFed PROVE Contract!Next
    OBVIOUS
  <2> DEFINE w == [p \in Paths |-> Written(p)]
             t == [p \in Paths |-> Taken(p)]
  <2>1. /\ DOMAIN w' = Paths /\ DOMAIN t' = Paths /\ DOMAIN w = Paths
        /\ \A p \in Paths : /\ w[p] = Written(p) /\ t[p] = Taken(p)
                            /\ w'[p] = Written(p)' /\ t'[p] = Taken(p)'
    BY DEF AllFed
  <2>2. \A p \in Paths : Feeds(w[p], t[p], w'[p], t'[p])
    BY <2>1 DEF AllFed
  <2> QED
    BY <2>1, <2>2 DEF Contract!Next, Contract!Paths, Contract!Write, Contract!Take, Contract!Leave,
                      Feeds
<1>3. UNCHANGED vars /\ ClientsInv => [Contract!Next]_Contract!vars
  BY <1>2, ClientsStay
<1>4. []ClientsInv /\ [][AllFed]_vars => [][Contract!Next]_Contract!vars
  <2>1. ClientsInv /\ [AllFed]_vars => [Contract!Next]_Contract!vars
    BY <1>2, <1>3
  <2> QED
    BY <2>1, PTL
<1>5. Spec => Init
  BY DEF Spec
<1> QED
  BY <1>1, <1>4, <1>5, ClientsKeep, PTL DEF InOrder, Contract!Spec
=============================================================================
