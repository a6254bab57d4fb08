---------------------------- MODULE ConsulClient ----------------------------
(***************************************************************************)
(* One path of the consul client (source/client/consul/client.go), from    *)
(* BaseSource.addPath's Pull to the goroutine doListen.                    *)
(*                                                                         *)
(* doListen asks again and again.  The server keeps a request with a wait  *)
(* index until the path has changed past it or the wait time is over.      *)
(* The first request has index 0 and so repeats what Pull may have read,   *)
(* with whatever was written since.                                        *)
(***************************************************************************)
EXTENDS Naturals

CONSTANTS
    MaxIndex,       \* bound: writes at the server
    WatchDisabled

ConstantsOK == MaxIndex \in Nat \ {0} /\ WatchDisabled \in BOOLEAN

VARIABLES
    written,    \* server: index of the last put
    modified,   \* server: index of the last put or delete
    exists,     \* server: is the path there?
    pc,         \* addPath: pull, merge, watch, done
    pulled,     \* the version Pull returned, 0 if none
    listening,  \* is doListen running?
    index,      \* doListen's wait index
    answer,     \* the answer on its way to doListen
    taken       \* the version last given to the source

vars == <<written, modified, exists, pc, pulled, listening, index, answer, taken>>
server == <<written, modified, exists>>

None  == [kind |-> "none"]
Fail  == [kind |-> "fail"]
Value == [kind : {"value"}, version : 0..MaxIndex, lastIndex : 0..MaxIndex]

Init == /\ exists \in BOOLEAN /\ modified = (IF exists THEN 1 ELSE 0) /\ written = modified
        /\ pc = "pull" /\ pulled = 0
        /\ listening = FALSE /\ index = 0 /\ answer = None
        /\ taken = 0

(* External: writers at the server, Push among them.                       *)
Put == /\ modified < MaxIndex
       /\ modified' = modified + 1 /\ written' = modified + 1 /\ exists' = TRUE
       /\ UNCHANGED <<pc, pulled, listening, index, answer, taken>>

Delete == /\ modified < MaxIndex /\ exists
          /\ modified' = modified + 1 /\ exists' = FALSE
          /\ UNCHANGED <<written, pc, pulled, listening, index, answer, taken>>

Pull == /\ pc = "pull"
        /\ pc' = "merge"
        /\ \/ exists /\ pulled' = written
           \/ UNCHANGED pulled      \* not found, or an error
        /\ UNCHANGED <<server, listening, index, answer, taken>>

Merge == /\ pc = "merge"
         /\ pc' = "watch"
         /\ taken' = pulled
         /\ UNCHANGED <<server, pulled, listening, index, answer>>

Watch == /\ pc = "watch"
         /\ pc' = "done"
         /\ listening' = ~WatchDisabled
         /\ UNCHANGED <<server, pulled, index, answer, taken>>

(* External: the server answers at once if the path changed past the wait  *)
(* index, and otherwise when the wait time is over; an answer can get lost.*)
ServerAnswers ==
    /\ listening /\ answer = None
    /\ \/ exists /\ answer' = [kind |-> "value", version |-> written, lastIndex |-> modified]
       \/ answer' = Fail
    /\ UNCHANGED <<server, pc, pulled, listening, index, taken>>

(* Mistake: doListen ends with the first error.                            *)
AskAgain_never == answer = Fail /\ UNCHANGED vars

(* doListen: no key or an error, and it sleeps and asks the same again.    *)
AskAgain ==
    /\ answer = Fail
    /\ answer' = None
    /\ UNCHANGED <<server, pc, pulled, listening, index, taken>>

HandOver ==
    /\ answer \in Value
    /\ index' = answer.lastIndex
    /\ taken' = answer.version
    /\ answer' = None
    /\ UNCHANGED <<server, pc, pulled, listening>>

Listen == AskAgain \/ HandOver

AddPath == Pull \/ Merge \/ Watch

Next == Put \/ Delete \/ AddPath \/ ServerAnswers \/ Listen

-----------------------------------------------------------------------------
TypeOK ==
    /\ written \in 0..MaxIndex /\ modified \in 0..MaxIndex /\ exists \in BOOLEAN
    /\ pc \in {"pull", "merge", "watch", "done"}
    /\ pulled \in 0..MaxIndex /\ index \in 0..MaxIndex /\ taken \in 0..MaxIndex
    /\ listening \in BOOLEAN
    /\ answer \in {None, Fail} \cup Value

(* The last version, unless it was deleted before anybody asked.           *)
UpToDate == listening /\ exists => taken = written
=============================================================================
