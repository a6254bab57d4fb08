----------------------------- MODULE FileClient -----------------------------
(***************************************************************************)
(* One path of the file client (source/client/file.go), from               *)
(* BaseSource.addPath's Pull to the goroutine that reads fsnotify's events.*)
(*                                                                         *)
(* A watch belongs to the file that has the name when w.Add is called.     *)
(* When that file goes (deleted, renamed away, or replaced by another) the *)
(* watch goes with it, after one last event; a file that takes the name    *)
(* later is watched only if the client adds it again.                      *)
(***************************************************************************)
EXTENDS Naturals, Sequences, SequencesExt

CONSTANTS
    Edits,          \* what users do to the file: some of EditKinds
    MaxEdits,       \* bound: edits
    WatchDisabled   \* no fsnotify watcher, c.w = nil

EditKinds == {"write", "replace", "delete", "move", "create", "chmod"}

ConstantsOK ==
    /\ Edits \subseteq EditKinds /\ MaxEdits \in Nat /\ WatchDisabled \in BOOLEAN

VARIABLES
    written,    \* the version of the last contents under the name
    exists,     \* is there a readable file of that name?
    attached,   \* is the file of that name watched?
    events,     \* fsnotify events that have not been read
    pc,         \* addPath: pull, merge, watch, done
    pulled,     \* the version Pull returned, 0 if none
    registered, \* does c.cbs have the path?
    loop,       \* what the event goroutine is about to do
    taken,      \* the version last given to the source
    blanked,    \* was the source last given nothing, because no file was there?
    calm,       \* history: see Calm
    edits       \* how much of MaxEdits has been spent

vars == <<written, exists, attached, events, pc, pulled, registered, loop,
          taken, blanked, calm, edits>>
disk == <<written, exists, calm, edits>>

Init == /\ exists \in BOOLEAN /\ written = IF exists THEN 1 ELSE 0
        /\ attached = FALSE /\ events = <<>>
        /\ pc = "pull" /\ pulled = 0
        /\ registered = FALSE /\ loop = "select"
        /\ taken = 0 /\ blanked = FALSE
        /\ calm = exists /\ edits = 0

-----------------------------------------------------------------------------
(* External: the file system.  Losing its last name changes a file's       *)
(* attributes before it goes.  Equal events in a row are one event.        *)
EventsOf(kind) == CASE kind = "write" -> <<"Write">>
                    [] kind = "chmod" -> <<"Chmod">>
                    [] kind \in {"replace", "delete"} -> <<"Chmod", "Remove">>
                    [] kind = "move" -> <<"Rename">>
                    [] kind = "create" -> <<>>

Queued(ops) == IF events # <<>> /\ ops # <<>> /\ Last(events) = Head(ops)
               THEN events \o Tail(ops) ELSE events \o ops

(* A calm life of a file: it is there and left alone until it is watched,  *)
(* and is then only written or replaced.                                   *)
Calm(kind) == pc = "done" /\ kind \in {"write", "replace", "chmod"}

Edit(kind) ==
    /\ kind \in Edits
    /\ edits < MaxEdits /\ edits' = edits + 1
    /\ calm' = (calm /\ Calm(kind))
    /\ exists = (kind # "create")
    /\ exists' = (kind \notin {"delete", "move"})
    /\ written' = IF kind \in {"write", "replace", "create"} THEN written + 1 ELSE written
    /\ attached' = (attached /\ kind \in {"write", "chmod"})
    /\ events' = IF attached THEN Queued(EventsOf(kind)) ELSE events
    /\ UNCHANGED <<pc, pulled, registered, loop, taken, blanked>>

-----------------------------------------------------------------------------
(* addPath.                                                                *)
Pull == /\ pc = "pull"
        /\ pc' = "merge"
        /\ pulled' = IF exists THEN written ELSE 0
        /\ UNCHANGED <<disk, attached, events, registered, loop, taken, blanked>>

Merge == /\ pc = "merge"
         /\ pc' = "watch"
         /\ taken' = pulled
         /\ UNCHANGED <<disk, attached, events, pulled, registered, loop, blanked>>

(* The callback stays registered even if there is no file to watch, so a   *)
(* later Watch of the path does nothing.                                   *)
Watch == /\ pc = "watch"
         /\ pc' = "done"
         /\ registered' = ~WatchDisabled
         /\ attached' = (exists /\ ~WatchDisabled)
         /\ UNCHANGED <<disk, events, pulled, loop, taken, blanked>>

-----------------------------------------------------------------------------
(* start and handleEvents: one event, and then, 50 ms later, what it is    *)
(* about.  w.Remove of a file that is gone has nothing to undo.            *)
Select ==
    /\ loop = "select" /\ events # <<>>
    /\ events' = Tail(events)
    /\ loop' = Head(events)
    /\ UNCHANGED <<disk, attached, pc, pulled, registered, taken, blanked>>

(* Mistake: the name is watched whether or not a file has it.              *)
HandleRemove_blindly ==
    /\ loop = "Remove" /\ attached' = TRUE /\ loop' = "update"
    /\ UNCHANGED <<disk, events, pc, pulled, registered, taken, blanked>>

(* Mistake: the new file is watched but not read.                          *)
HandleRemove_unread ==
    /\ loop = "Remove" /\ attached' = (attached \/ exists) /\ loop' = "select"
    /\ UNCHANGED <<disk, events, pc, pulled, registered, taken, blanked>>

(* Mistake: the new file is read but not watched.                          *)
HandleRemove_unwatched ==
    /\ loop = "Remove" /\ loop' = IF exists THEN "update" ELSE "select"
    /\ UNCHANGED <<disk, attached, events, pc, pulled, registered, taken, blanked>>

(* Remove: a file that has taken the name is watched, and then read.       *)
HandleRemove ==
    /\ loop = "Remove"
    /\ attached' = (attached \/ exists)
    /\ loop' = IF exists THEN "update" ELSE "select"
    /\ UNCHANGED <<disk, events, pc, pulled, registered, taken, blanked>>

(* Chmod and Rename: a watch is given up if the file cannot be read, and   *)
(* nothing else is done.                                                   *)
HandleChmodOrRename ==
    /\ loop \in {"Chmod", "Rename"}
    /\ attached' = (attached /\ exists)
    /\ loop' = "select"
    /\ UNCHANGED <<disk, events, pc, pulled, registered, taken, blanked>>

(* handleUpdated: the callback gets what is in the file, or nothing if it  *)
(* is gone.                                                                *)
HandleUpdated ==
    /\ loop \in {"Write", "update"}
    /\ loop' = "select"
    /\ taken' = IF registered /\ exists THEN written ELSE taken
    /\ blanked' = IF registered THEN ~exists ELSE blanked
    /\ UNCHANGED <<disk, attached, events, pc, pulled, registered>>

AddPath == Pull \/ Merge \/ Watch
Handle  == Select \/ HandleRemove \/ HandleChmodOrRename \/ HandleUpdated

Next == (\E kind \in EditKinds : Edit(kind)) \/ AddPath \/ Handle

-----------------------------------------------------------------------------
TypeOK ==
    /\ written \in 0..MaxEdits + 1 /\ edits \in 0..MaxEdits
    /\ exists \in BOOLEAN /\ calm \in BOOLEAN
    /\ attached \in BOOLEAN /\ (attached => exists)
    /\ registered \in BOOLEAN /\ blanked \in BOOLEAN
    /\ events \in Seq({"Write", "Chmod", "Remove", "Rename"})
    /\ pc \in {"pull", "merge", "watch", "done"}
    /\ loop \in {"select", "update", "Write", "Chmod", "Remove", "Rename"}
    /\ pulled \in 0..written /\ taken \in 0..written

(* The last contents, and not nothing.                                     *)
UpToDate == calm /\ registered => taken = written /\ ~blanked

(* While nothing more is to be handled, the next edit will be heard of.    *)
StaysAttached == calm /\ registered /\ loop = "select" /\ events = <<>> => attached
=============================================================================
