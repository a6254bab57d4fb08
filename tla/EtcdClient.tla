----------------------------- MODULE EtcdClient -----------------------------
(***************************************************************************)
(* One path of the etcd client (source/client/etcd/client.go), from        *)
(* BaseSource.addPath's Pull to the watch goroutine.                       *)
(*                                                                         *)
(* The server keeps a log of revisions; a revision may put or delete the   *)
(* path or belong to another key.  Pull remembers the revision of the      *)
(* store at the time of its answer, and Watch asks for every revision from *)
(* that one on; without one it asks for what comes after the watch is set  *)
(* up at the server.                                                       *)
(***************************************************************************)
EXTENDS Naturals, Sequences

CONSTANTS
    FirstLogs,      \* the server's log when the path is added
    MaxRevision,    \* bound: length of the log
    MayCancel       \* may the server cancel the watch (compaction, auth)?

Entries == {"put", "delete", "other"}

ConstantsOK ==
    FirstLogs \subseteq Seq(Entries) /\ MaxRevision \in Nat /\ MayCancel \in BOOLEAN

VARIABLES
    log,        \* server: one entry per revision
    pc,         \* addPath: pull, merge, watch, done
    pulled,     \* the version Pull returned, 0 if none
    rev,        \* c.revs[path], 0 if it has no entry
    watch,      \* "none", "asked", "open", "canceled" or "closed"
    cursor,     \* the next revision the watch delivers
    taken       \* the version last given to the source

vars == <<log, pc, pulled, rev, watch, cursor, taken>>

Puts == {r \in DOMAIN log : log[r] = "put"}
LastOf(revisions) == IF revisions = {} THEN 0
                     ELSE CHOOSE r \in revisions : \A q \in revisions : q <= r
written == LastOf(Puts)
Exists  == LastOf({r \in DOMAIN log : log[r] # "other"}) \in Puts

Init == /\ log \in FirstLogs
        /\ pc = "pull" /\ pulled = 0 /\ rev = 0
        /\ watch = "none" /\ cursor = 0
        /\ taken = 0

(* External: writers at the server, Push among them.                       *)
ServerWrite(entry) ==
    /\ Len(log) < MaxRevision
    /\ entry = "delete" => Exists
    /\ log' = Append(log, entry)
    /\ UNCHANGED <<pc, pulled, rev, watch, cursor, taken>>

(* Pull: Count # 1 is an error, and records no revision.                   *)
Pull ==
    /\ pc = "pull"
    /\ pc' = "merge"
    /\ IF Exists THEN pulled' = written /\ rev' = Len(log) ELSE UNCHANGED <<pulled, rev>>
    /\ UNCHANGED <<log, watch, cursor, taken>>

PullFails ==
    /\ pc = "pull"
    /\ pc' = "merge"
    /\ UNCHANGED <<log, pulled, rev, watch, cursor, taken>>

(* BaseSource.addPath merges what was pulled, if anything was.             *)
Merge ==
    /\ pc = "merge"
    /\ pc' = "watch"
    /\ taken' = pulled
    /\ UNCHANGED <<log, pulled, rev, watch, cursor>>

Watch ==
    /\ pc = "watch"
    /\ pc' = "done"
    /\ watch' = "asked"
    /\ UNCHANGED <<log, pulled, rev, cursor, taken>>

(* Mistake: the watch repeats the whole history.                           *)
OpenWatch_fromStart ==
    /\ watch = "asked" /\ watch' = "open" /\ cursor' = 1
    /\ UNCHANGED <<log, pc, pulled, rev, taken>>

(* Mistake: the pulled revision is not asked for.                          *)
OpenWatch_fromNow ==
    /\ watch = "asked" /\ watch' = "open" /\ cursor' = Len(log) + 1
    /\ UNCHANGED <<log, pc, pulled, rev, taken>>

(* External: the server sets the watch up; revision 0 means from now on.   *)
OpenWatch ==
    /\ watch = "asked"
    /\ watch' = "open"
    /\ cursor' = IF rev = 0 THEN Len(log) + 1 ELSE rev
    /\ UNCHANGED <<log, pc, pulled, rev, taken>>

(* The goroutine: a PUT is handed to the source, a DELETE is dropped.      *)
Deliver ==
    /\ watch = "open" /\ cursor <= Len(log)
    /\ cursor' = cursor + 1
    /\ taken' = IF log[cursor] = "put" THEN cursor ELSE taken
    /\ UNCHANGED <<log, pc, pulled, rev, watch>>

(* A canceled watch is a closed channel: the goroutine reads empty         *)
(* responses from it for ever and never asks for another watch.            *)
Cancel ==
    /\ MayCancel /\ watch = "open"
    /\ watch' = "canceled"
    /\ UNCHANGED <<log, pc, pulled, rev, cursor, taken>>

Close ==
    /\ MayCancel /\ watch \in {"open", "canceled"}
    /\ watch' = "closed"
    /\ UNCHANGED <<log, pc, pulled, rev, cursor, taken>>

AddPath == Pull \/ PullFails \/ Merge \/ Watch
Server  == \E entry \in Entries : ServerWrite(entry)

Next == Server \/ AddPath \/ OpenWatch \/ Deliver \/ Cancel \/ Close

-----------------------------------------------------------------------------
TypeOK ==
    /\ log \in Seq(Entries)
    /\ pc \in {"pull", "merge", "watch", "done"}
    /\ pulled \in 0..Len(log) /\ rev \in 0..Len(log) /\ taken \in 0..Len(log)
    /\ watch \in {"none", "asked", "open", "canceled", "closed"}
    /\ cursor \in 0..Len(log) + 1

(* What was pulled is followed from there: nothing written before the      *)
(* watch was set up is missing.  A path that was not there when it was     *)
(* pulled may have been written unnoticed, and a canceled watch is not     *)
(* renewed.                                                                *)
UpToDate == rev # 0 /\ watch = "open" => taken = written
=============================================================================
