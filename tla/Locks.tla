-------------------------------- MODULE Locks -------------------------------
(***************************************************************************)
(* The mutexes of the manager, its sources, their clients and the          *)
(* dispatcher, and everything that runs under them: what the other modules *)
(* take for granted when they make one action of a section under a lock.   *)
(*                                                                         *)
(* An operation is what it does with locks: a sequence of steps, from a    *)
(* set of such sequences where the code branches.  A thread of the program *)
(* runs any operation at any time; so does a handler the program passed to *)
(* Watch, in the goroutine that dispatches events.                         *)
(*                                                                         *)
(* The locks are Go's RWMutex: one writer at a time asks, whoever reads    *)
(* already goes on, and nobody else starts to read before that writer is   *)
(* done.                                                                   *)
(***************************************************************************)
EXTENDS Naturals, Sequences, FiniteSets

CONSTANTS
    Callers,        \* goroutines of the program
    Goroutines,     \* bound: those of dispatchEvents, as many at a time
    Sources,
    Kinds,          \* the clients there are: a subset of ClientKinds
    ReadsAgain,     \* does an expansion handler of the program call Get?
    Nobody

ClientKinds == {"file", "etcd", "consul", "nacos", "apollo"}
Threads == Callers \cup Goroutines \cup Sources  \* a client calls back in one of its own

ASSUME LocksAssumption ==
    /\ Kinds \subseteq ClientKinds /\ ReadsAgain \in BOOLEAN
    /\ Nobody \notin Threads
    /\ Callers \cap Goroutines = {} /\ Sources \cap (Callers \cup Goroutines) = {}

VARIABLES
    kind,       \* the client of each source
    todo,       \* the steps each thread still has to do, none if it is idle
    readers,    \* how often each thread has each lock for reading
    asking,     \* the thread that asks for a lock for writing
    writer      \* the thread that has a lock for writing

vars == <<kind, todo, readers, asking, writer>>

Manager    == [of |-> "manager",    source |-> Nobody]
Dispatcher == [of |-> "dispatcher", source |-> Nobody]
Client(s)  == [of |-> "client", source |-> s]
Source(s)  == [of |-> "source", source |-> s]
Nothing    == [of |-> "nothing", source |-> Nobody]
Locks == {Manager, Dispatcher} \cup {Client(s) : s \in Sources} \cup {Source(s) : s \in Sources}

-----------------------------------------------------------------------------
(* Operations.  "wait" is a call to a server that nothing limits in time;  *)
(* "go" starts a goroutine that handles events, if there are any; "call"   *)
(* calls the program's handler, if there is one.                           *)
Step == [do : {"rlock", "runlock", "lock", "unlock"}, on : Locks]
        \cup [do : {"wait", "go", "call"}, on : {Nothing}]

Shared(l, steps)    == <<[do |-> "rlock", on |-> l]>> \o steps \o <<[do |-> "runlock", on |-> l]>>
Exclusive(l, steps) == <<[do |-> "lock",  on |-> l]>> \o steps \o <<[do |-> "unlock",  on |-> l]>>
Reads(l)  == Shared(l, <<>>)
Writes(l) == Exclusive(l, <<>>)
WaitForServer  == <<[do |-> "wait", on |-> Nothing]>>
DispatchEvents == <<[do |-> "go",   on |-> Nothing]>>
OnPropertyChange == <<[do |-> "call", on |-> Nothing]>>

(* A context without a deadline is what addPath passes, and setTimeout of  *)
(* the etcd client sets none for it; apollo has a timeout of its own.      *)
Pull(s) == CASE kind[s] = "file"   -> Writes(Client(s))
             [] kind[s] = "etcd"   -> WaitForServer \o Writes(Client(s))
             [] kind[s] = "apollo" -> Writes(Client(s))
             [] kind[s] = "consul" -> WaitForServer
             [] kind[s] = "nacos"  -> <<>>
WatchPath(s) == Writes(Client(s))


(* The path is there already; it is required and cannot be pulled; else.   *)
SourceAddPath(s) ==
    LET looked == Reads(Source(s))
        pulled == looked \o Pull(s)
        merged == pulled \o Writes(Source(s))
    IN  {looked, pulled, merged \o DispatchEvents, merged \o WatchPath(s) \o DispatchEvents}

(* The path is not found, or cannot be parsed; else.                       *)
HandlePathUpdated(s) ==
    LET found == Reads(Source(s)) IN {found, found \o Writes(Source(s)) \o DispatchEvents}

(* What each client holds when it calls that.                              *)
Callback(s) ==
    CASE kind[s] = "file"   -> {Exclusive(Client(s), h) : h \in HandlePathUpdated(s)}
      [] kind[s] = "etcd"   -> HandlePathUpdated(s)
      [] kind[s] = "consul" -> {Reads(Client(s)) \o h : h \in HandlePathUpdated(s)}
      [] kind[s] = "nacos"  -> {Writes(Client(s)) \o h : h \in HandlePathUpdated(s)}
      [] kind[s] = "apollo" -> {Reads(Client(s)) \o Writes(Client(s)) \o Reads(Client(s)) \o h :
                                   h \in HandlePathUpdated(s)}

(* The manager's.  Get asks the source of a key, and those of the keys it  *)
(* refers to, one after another; so do All and lowerSource, which ask any. *)
Asked == {<<>>} \cup {Reads(Source(s)) : s \in Sources}
Nested == IF ReadsAgain THEN {Shared(Manager, a) : a \in Asked} ELSE {}
Get == {Shared(Manager, a) : a \in Asked \cup Nested}
Set == {Writes(Manager)}
AddSource == {Exclusive(Manager, Reads(Source(s))) : s \in Sources}
ManagerAddPath == UNION {{Exclusive(Manager, p) : p \in SourceAddPath(s)} : s \in Sources}
Watch == {Writes(Dispatcher)}

(* What the program calls, on the manager and on its sources.              *)
Calls == Get \cup Set \cup AddSource \cup ManagerAddPath \cup Watch
         \cup UNION {SourceAddPath(s) \cup {Reads(Source(s)), Writes(Source(s))} : s \in Sources}

(* Mistake: handlers are called while the dispatcher is read.              *)
HandleSourceEvents_underLock ==
    {Exclusive(Manager, a) \o Shared(Dispatcher, OnPropertyChange) : a \in Asked}

(* An event is handled and dispatched.                                     *)
HandleSourceEvents == {Exclusive(Manager, a) \o Reads(Dispatcher) \o OnPropertyChange : a \in Asked}

-----------------------------------------------------------------------------
Init == /\ kind \in [Sources -> Kinds]
        /\ todo = [t \in Threads |-> <<>>]
        /\ readers = [l \in Locks |-> [t \in Threads |-> 0]]
        /\ asking = [l \in Locks |-> Nobody]
        /\ writer = [l \in Locks |-> Nobody]

Comes(t, what) == todo[t] # <<>> /\ Head(todo[t]).do = what
On(t) == Head(todo[t]).on
Done(t) == todo' = [todo EXCEPT ![t] = Tail(@)]

Begin(t) ==
    /\ todo[t] = <<>>
    /\ \E op \in CASE t \in Callers -> Calls [] t \in Sources -> Callback(t) [] OTHER -> {} :
          todo' = [todo EXCEPT ![t] = op]
    /\ UNCHANGED <<kind, readers, asking, writer>>

RLock(t) ==
    /\ Comes(t, "rlock") /\ Done(t)
    /\ asking[On(t)] = Nobody /\ writer[On(t)] = Nobody
    /\ readers' = [readers EXCEPT ![On(t)][t] = @ + 1]
    /\ UNCHANGED <<kind, asking, writer>>

RUnlock(t) ==
    /\ Comes(t, "runlock") /\ Done(t)
    /\ readers' = [readers EXCEPT ![On(t)][t] = @ - 1]
    /\ UNCHANGED <<kind, asking, writer>>

(* One writer at a time announces itself ...                               *)
Ask(t) ==
    /\ Comes(t, "lock")
    /\ asking[On(t)] = Nobody /\ writer[On(t)] = Nobody
    /\ asking' = [asking EXCEPT ![On(t)] = t]
    /\ UNCHANGED <<kind, todo, readers, writer>>

(* Mistake: it does not wait.                                              *)
Lock_eager(t) ==
    /\ Comes(t, "lock") /\ Done(t)
    /\ asking[On(t)] = t
    /\ asking' = [asking EXCEPT ![On(t)] = Nobody]
    /\ writer' = [writer EXCEPT ![On(t)] = t]
    /\ UNCHANGED <<kind, readers>>

(* ... and waits for the readers there are.                                *)
Lock(t) ==
    /\ Comes(t, "lock") /\ Done(t)
    /\ asking[On(t)] = t /\ \A u \in Threads : readers[On(t)][u] = 0
    /\ asking' = [asking EXCEPT ![On(t)] = Nobody]
    /\ writer' = [writer EXCEPT ![On(t)] = t]
    /\ UNCHANGED <<kind, readers>>

Unlock(t) ==
    /\ Comes(t, "unlock") /\ Done(t)
    /\ writer' = [writer EXCEPT ![On(t)] = Nobody]
    /\ UNCHANGED <<kind, readers, asking>>

(* The server answers.                                                     *)
Return(t) ==
    /\ Comes(t, "wait") /\ Done(t)
    /\ UNCHANGED <<kind, readers, asking, writer>>

(* Mistake: the callback runs in the thread that has the events.           *)
Go_synchronous(t) ==
    /\ Comes(t, "go")
    /\ \E op \in {<<>>} \cup HandleSourceEvents : todo' = [todo EXCEPT ![t] = op \o Tail(@)]
    /\ UNCHANGED <<kind, readers, asking, writer>>

(* There are no events or no callback; or a goroutine is started.          *)
Go(t) ==
    /\ Comes(t, "go")
    /\ \/ Done(t)
       \/ \E g \in Goroutines : /\ todo[g] = <<>> /\ g # t
                                /\ \E op \in HandleSourceEvents :
                                      todo' = [todo EXCEPT ![t] = Tail(@), ![g] = op]
    /\ UNCHANGED <<kind, readers, asking, writer>>

(* The handler calls something, or nothing.                                *)
Call(t) ==
    /\ Comes(t, "call")
    /\ \E op \in {<<>>} \cup Calls : todo' = [todo EXCEPT ![t] = op \o Tail(@)]
    /\ UNCHANGED <<kind, readers, asking, writer>>

GoesOn(t) == \/ RLock(t) \/ RUnlock(t) \/ Ask(t) \/ Lock(t) \/ Unlock(t)
             \/ Go(t) \/ Call(t)

Next == \E t \in Threads : Begin(t) \/ GoesOn(t) \/ Return(t)

Spec == Init /\ [][Next]_vars

(* Threads go on, and a lock that is free again and again is given to      *)
(* whoever wants it: RWMutex lets those who read wait for one writer only, *)
(* and the Mutex among writers is handed to who has waited longest.  That  *)
(* a server answers, or anybody begins anything, is not assumed.           *)
Fairness == \A t \in Threads : SF_vars(GoesOn(t))
FairSpec == Spec /\ Fairness
-----------------------------------------------------------------------------
Holds(t, l) == readers[l][t] > 0 \/ writer[l] = t
Waits(t) == Comes(t, "rlock") \/ Comes(t, "lock")

(* Those who keep t from the lock it wants.                                *)
Before(t) ==
    {u \in Threads : \/ writer[On(t)] = u
                     \/ asking[On(t)] = u /\ u # t
                     \/ asking[On(t)] = t /\ readers[On(t)][u] > 0}

(* Types; readers and a writer never have a lock together.                 *)
TypeOK ==
    /\ kind \in [Sources -> Kinds]
    /\ todo \in [Threads -> Seq(Step)]
    /\ readers \in [Locks -> [Threads -> Nat]]
    /\ asking \in [Locks -> Threads \cup {Nobody}]
    /\ writer \in [Locks -> Threads \cup {Nobody}]
    /\ \A l \in Locks : writer[l] # Nobody => \A t \in Threads : readers[l][t] = 0

(* manager.go:54-115, base.go:46-204, event.go:51-90, file.go:71-113: the  *)
(* manager calls sources with its mutex held, a source calls its client,   *)
(* a client calls its source back with its own mutex held, and events go   *)
(* back up to the manager: nobody ever waits in a circle.                  *)
NoCircularWait ==
    ~ \E ts \in (SUBSET Threads) \ {{}} :
         \A t \in ts : Waits(t) /\ Before(t) \cap ts # {}

(* event.go:81-110, base.go:328-339: the program's handlers are called     *)
(* with no lock held, so they may call anything.                           *)
HandlersAreFree == \A t \in Threads : Comes(t, "call") => \A l \in Locks : ~Holds(t, l)

(* manager.go:106-115, base.go:140: AddPath waits for a server with the    *)
(* manager's mutex held.  Nothing else keeps anybody waiting for good:     *)
(* whoever wants a lock gets it, or the manager is away at a server.       *)
ManagerIsAway == \E t \in Threads : Comes(t, "wait") /\ Holds(t, Manager)
=============================================================================
