--------------------------- MODULE EventDispatch ---------------------------
(***************************************************************************)
(* How an event reaches the clients, and the life of the object that sends *)
(* it.  Whoever notices an event submits a Job to the worker pool; the job *)
(* holds a reference to the implementation, and a pool thread calls every  *)
(* registered client with _adminLock held.  The shell (SystemServices)     *)
(* creates the implementation, registers with it, and releases it when the *)
(* plugin is deactivated; whoever drops the last reference, the shell or a *)
(* pool thread, runs the destructor.  IARM handlers find the               *)
(* implementation through the static _instance.                            *)
(***************************************************************************)
EXTENDS Naturals, FiniteSets, Sequences, SequencesExt

CONSTANTS
  Clients,      \* COM-RPC clients that register an INotification
  Shell,        \* the notification of the shell, which forwards to JSON-RPC
  PoolThreads,  \* threads of the worker pool
  NoThread,
  Sources,      \* who notices events: API calls, PowerManager, the IARM bus
  MaxInstances, \* bound on the activations in one process
  MaxEvents,    \* bound on the events
  MaxCalls      \* bound on the calls clients make

ASSUME EventDispatchAssumption ==
  /\ Shell \notin Clients
  /\ NoThread \notin PoolThreads
  /\ Sources \subseteq {"api", "power", "bus"}
  /\ MaxInstances \in Nat /\ MaxEvents \in Nat /\ MaxCalls \in Nat

VARIABLES
  shell,           \* where the shell is between activation and deactivation
  _systemServices, \* the implementation the shell holds, or NoInstance
  _instance,       \* the static pointer the IARM handlers use
  object,          \* per instance, whether it lives or what its destructor does
  refs,            \* per instance, the reference count
  pmSinks,         \* the instances PowerManager notifies
  iarmHandlers,    \* what is registered with IARM: events, calls
  _systemServicesNotification,  \* per instance, the list of registered sinks
  _adminLock,      \* per instance, the pool thread that holds it, or NoThread
  submitted,       \* the instance that submitted each event, in order
  queue,           \* the jobs not yet taken: the events they are about
  job, todo, pc,   \* per pool thread, its job, the sinks to call, where it is
  bus,             \* where the IARM thread is in its handler
  received,        \* per sink, the events it was called for, in order
  calls            \* calls clients made

life == <<shell, _systemServices, _instance, object, refs>>
registrations == <<pmSinks, iarmHandlers>>
pool == <<_adminLock, job, todo, pc>>
jobs == <<submitted, queue>>
vars == <<life, registrations, _systemServicesNotification, pool, jobs, bus,
          received, calls>>

Instances == 1 .. MaxInstances
NoInstance == 0
Sinks == Clients \union {Shell}
Events == 1 .. MaxEvents

NoJob == 0

TypeOK ==
  /\ shell \in {"inactive", "configure", "register", "active", "release", "destroy",
               "released"}
  /\ _systemServices \in Instances \union {NoInstance}
  /\ _instance \in Instances \union {NoInstance}
  /\ object \in [Instances -> {"unborn", "live", "leave_pm", "leave_iarm",
                               "forget", "destroyed"}]
  /\ refs \in [Instances -> Nat]
  /\ pmSinks \subseteq Instances
  /\ iarmHandlers \subseteq {"events", "calls"}
  /\ _systemServicesNotification \in [Instances -> Seq(Sinks)]
  /\ _adminLock \in [Instances -> PoolThreads \union {NoThread}]
  /\ submitted \in Seq(Instances) /\ Len(submitted) <= MaxEvents
  /\ queue \in Seq(Events)
  /\ job \in [PoolThreads -> Events \union {NoJob}]
  /\ todo \in [PoolThreads -> Seq(Sinks)]
  /\ pc \in [PoolThreads -> {"idle", "lock", "call", "callback", "destroy", "done"}]
  /\ bus \in {"idle", "call"}
  /\ received \in [Sinks -> Seq(Events)]
  /\ calls \in 0 .. MaxCalls

Init ==
  /\ shell = "inactive"
  /\ _systemServices = NoInstance
  /\ _instance = NoInstance
  /\ object = [i \in Instances |-> "unborn"]
  /\ refs = [i \in Instances |-> 0]
  /\ pmSinks = {}
  /\ iarmHandlers = {}
  /\ _systemServicesNotification = [i \in Instances |-> <<>>]
  /\ _adminLock = [i \in Instances |-> NoThread]
  /\ submitted = <<>> /\ queue = <<>>
  /\ job = [p \in PoolThreads |-> NoJob]
  /\ todo = [p \in PoolThreads |-> <<>>]
  /\ pc = [p \in PoolThreads |-> "idle"]
  /\ bus = "idle"
  /\ received = [s \in Sinks |-> <<>>]
  /\ calls = 0

-----------------------------------------------------------------------------
(* Noticing an event.                                                      *)

\* Mutant: the job takes no reference.
dispatchEventNoRef(i) ==
  /\ Len(submitted) < MaxEvents
  /\ submitted' = Append(submitted, i)
  /\ queue' = Append(queue, Len(submitted) + 1)
  /\ UNCHANGED refs

\* dispatchEvent: the job takes a reference and joins the queue of the pool.
dispatchEvent(i) ==
  /\ Len(submitted) < MaxEvents
  /\ submitted' = Append(submitted, i)
  /\ queue' = Append(queue, Len(submitted) + 1)
  /\ refs' = [refs EXCEPT ![i] = @ + 1]

\* A call such as SetFriendlyName, which the shell's reference protects.
ApiEvent ==
  /\ "api" \in Sources
  /\ shell = "active"
  /\ dispatchEvent(_systemServices)
  /\ UNCHANGED <<shell, _systemServices, _instance, object, registrations,
                 _systemServicesNotification, pool, bus, received, calls>>

\* PowerManager notifies a sink that it has; the sink's parent is not asked.
PowerEvent(i) ==
  /\ "power" \in Sources
  /\ i \in pmSinks
  /\ dispatchEvent(i)
  /\ UNCHANGED <<shell, _systemServices, _instance, object, registrations,
                 _systemServicesNotification, pool, bus, received, calls>>

\* An IARM handler finds _instance set ...
BusCheck ==
  /\ "bus" \in Sources
  /\ bus = "idle" /\ iarmHandlers # {} /\ _instance # NoInstance
  /\ bus' = "call"
  /\ UNCHANGED <<life, registrations, _systemServicesNotification, pool, jobs,
                 received, calls>>

\* ... and then reads it again to call it.  (If it is null by now, the process
\* dies here: no step.)
BusCall ==
  /\ bus = "call" /\ _instance # NoInstance
  /\ bus' = "idle"
  /\ dispatchEvent(_instance)
  /\ UNCHANGED <<shell, _systemServices, _instance, object, registrations,
                 _systemServicesNotification, pool, received, calls>>

-----------------------------------------------------------------------------
(* References.                                                             *)

\* n references to i are dropped; with the last one the destructor starts.
Release(i, n) ==
  /\ refs' = [refs EXCEPT ![i] = @ - n]
  /\ object' = [object EXCEPT ![i] =
       IF refs[i] = n /\ @ = "live" THEN "leave_pm" ELSE @]

\* Where the thread goes on: it runs the destructor if it dropped the last.
AfterRelease(i, n, l) == IF refs[i] = n /\ object[i] = "live" THEN "destroy" ELSE l

DestructorRuns(i) == object[i] \in {"leave_pm", "leave_iarm", "forget"}

\* The destructor unregisters from PowerManager, ...
LeavePowerManager(i) ==
  /\ object[i] = "leave_pm"
  /\ pmSinks' = pmSinks \ {i}
  /\ object' = [object EXCEPT ![i] = "leave_iarm"]
  /\ UNCHANGED <<shell, _systemServices, _instance, refs, iarmHandlers,
                 _systemServicesNotification, pool, jobs, bus, received,
                 calls>>

\* ... removes the IARM event handlers (DeinitializeIARM) but neither the
\* SysModeChange call nor the handler of the time manager, ...
LeaveIARM(i) ==
  /\ object[i] = "leave_iarm"
  /\ iarmHandlers' = iarmHandlers \ {"events"}
  /\ object' = [object EXCEPT ![i] = "forget"]
  /\ UNCHANGED <<shell, _systemServices, _instance, refs, pmSinks,
                 _systemServicesNotification, pool, jobs, bus, received,
                 calls>>

\* ... and clears _instance, whoever that points to.  The list goes with the
\* object; sinks that are still in it are not released.
ForgetInstance(i) ==
  /\ object[i] = "forget"
  /\ _instance' = NoInstance
  /\ _systemServicesNotification' = [_systemServicesNotification EXCEPT ![i] = <<>>]
  /\ object' = [object EXCEPT ![i] = "destroyed"]
  /\ UNCHANGED <<shell, _systemServices, refs, registrations, pool, jobs, bus,
                 received, calls>>

DestructorStep(i) == LeavePowerManager(i) \/ LeaveIARM(i) \/ ForgetInstance(i)

-----------------------------------------------------------------------------
(* The worker pool.                                                        *)

TakeJob(p) ==
  /\ pc[p] = "idle" /\ queue # <<>>
  /\ job' = [job EXCEPT ![p] = Head(queue)]
  /\ queue' = Tail(queue)
  /\ pc' = [pc EXCEPT ![p] = "lock"]
  /\ UNCHANGED <<life, registrations, _systemServicesNotification, _adminLock,
                 todo, submitted, bus, received, calls>>

Of(p) == submitted[job[p]]

\* Dispatch takes _adminLock and starts at the head of the list.
DispatchLock(p) ==
  /\ pc[p] = "lock"
  /\ object[Of(p)] # "destroyed"
  /\ _adminLock[Of(p)] = NoThread
  /\ _adminLock' = [_adminLock EXCEPT ![Of(p)] = p]
  /\ todo' = [todo EXCEPT ![p] = _systemServicesNotification[Of(p)]]
  /\ pc' = [pc EXCEPT ![p] = "call"]
  /\ UNCHANGED <<life, registrations, _systemServicesNotification, job, jobs,
                 bus, received, calls>>

\* It calls the next sink, and keeps the lock while that runs.
DispatchCall(p) ==
  /\ pc[p] = "call" /\ todo[p] # <<>>
  /\ received' = [received EXCEPT ![Head(todo[p])] = Append(@, job[p])]
  /\ pc' = [pc EXCEPT ![p] = "callback"]
  /\ UNCHANGED <<life, registrations, _systemServicesNotification, _adminLock,
                 job, todo, jobs, bus, calls>>

\* Mutant: only the first sink is called.
CallbackReturnsFirst(p) ==
  /\ pc[p] = "callback"
  /\ todo' = [todo EXCEPT ![p] = <<>>]
  /\ pc' = [pc EXCEPT ![p] = "call"]
  /\ UNCHANGED <<life, registrations, _systemServicesNotification, _adminLock,
                 job, jobs, bus, received, calls>>

CallbackReturns(p) ==
  /\ pc[p] = "callback"
  /\ todo' = [todo EXCEPT ![p] = Tail(@)]
  /\ pc' = [pc EXCEPT ![p] = "call"]
  /\ UNCHANGED <<life, registrations, _systemServicesNotification, _adminLock,
                 job, jobs, bus, received, calls>>

\* Mutants: the job's reference is dropped twice; it is not dropped.
DispatchUnlockTwice(p) ==
  /\ pc[p] = "call" /\ todo[p] = <<>>
  /\ _adminLock' = [_adminLock EXCEPT ![Of(p)] = NoThread]
  /\ Release(Of(p), 2)
  /\ pc' = [pc EXCEPT ![p] = AfterRelease(Of(p), 2, "done")]
  /\ UNCHANGED <<shell, _systemServices, _instance, registrations,
                 _systemServicesNotification, job, todo, jobs, bus, received,
                 calls>>

DispatchUnlockLeaks(p) ==
  /\ pc[p] = "call" /\ todo[p] = <<>>
  /\ _adminLock' = [_adminLock EXCEPT ![Of(p)] = NoThread]
  /\ pc' = [pc EXCEPT ![p] = "done"]
  /\ UNCHANGED <<life, registrations, _systemServicesNotification, job, todo,
                 jobs, bus, received, calls>>

\* When all are called it unlocks, and the job drops its reference.
DispatchUnlock(p) ==
  /\ pc[p] = "call" /\ todo[p] = <<>>
  /\ _adminLock' = [_adminLock EXCEPT ![Of(p)] = NoThread]
  /\ Release(Of(p), 1)
  /\ pc' = [pc EXCEPT ![p] = AfterRelease(Of(p), 1, "done")]
  /\ UNCHANGED <<shell, _systemServices, _instance, registrations,
                 _systemServicesNotification, job, todo, jobs, bus, received,
                 calls>>

\* The thread is free when the destructor, if it runs here, is done.
JobDone(p) ==
  /\ \/ pc[p] = "done"
     \/ pc[p] = "destroy" /\ ~DestructorRuns(Of(p))
  /\ job' = [job EXCEPT ![p] = NoJob]
  /\ pc' = [pc EXCEPT ![p] = "idle"]
  /\ UNCHANGED <<life, registrations, _systemServicesNotification, _adminLock,
                 todo, jobs, bus, received, calls>>

PoolStep(p) ==
  \/ TakeJob(p) \/ DispatchLock(p) \/ DispatchCall(p)
  \/ CallbackReturns(p) \/ DispatchUnlock(p) \/ JobDone(p)

-----------------------------------------------------------------------------
(* Registration.                                                           *)

Registered(i, s) == s \in Range(_systemServicesNotification[i])

\* Mutant: a sink that is in the list joins it again.
RegisterAgain(i, s) ==
  /\ _adminLock[i] = NoThread
  /\ _systemServicesNotification' =
       [_systemServicesNotification EXCEPT ![i] = Append(@, s)]

\* Register: under the lock, a sink that is not in the list joins it.
Register(i, s) ==
  /\ _adminLock[i] = NoThread
  /\ _systemServicesNotification' =
       IF Registered(i, s) THEN _systemServicesNotification
       ELSE [_systemServicesNotification EXCEPT ![i] = Append(@, s)]

\* Mutant: a sink leaves without the lock.
UnregisterUnlocked(i, s) ==
  _systemServicesNotification' =
    [_systemServicesNotification EXCEPT ![i] = SelectSeq(@, LAMBDA t : t # s)]

\* Unregister: under the lock, a sink that is in the list leaves it.
Unregister(i, s) ==
  /\ _adminLock[i] = NoThread
  /\ \/ /\ ~Registered(i, s)
        /\ UNCHANGED _systemServicesNotification
     \/ \E k \in DOMAIN _systemServicesNotification[i] :
          /\ _systemServicesNotification[i][k] = s
          /\ _systemServicesNotification' =
               [_systemServicesNotification EXCEPT ![i] = RemoveAt(@, k)]

ClientRegisters(c) ==
  /\ shell = "active" /\ calls < MaxCalls
  /\ Register(_systemServices, c)
  /\ calls' = calls + 1
  /\ UNCHANGED <<life, registrations, pool, jobs, bus, received>>

ClientUnregisters(c) ==
  /\ shell = "active" /\ calls < MaxCalls
  /\ Unregister(_systemServices, c)
  /\ calls' = calls + 1
  /\ UNCHANGED <<life, registrations, pool, jobs, bus, received>>

-----------------------------------------------------------------------------
(* The shell.                                                              *)

\* Initialize constructs an implementation and keeps two interfaces of it.
Initialize ==
  /\ shell = "inactive"
  /\ \E i \in Instances :
       /\ object[i] = "unborn"
       /\ \A j \in Instances : object[j] = "unborn" => i <= j
       /\ object' = [object EXCEPT ![i] = "live"]
       /\ refs' = [refs EXCEPT ![i] = 2]
       /\ _systemServices' = i
       /\ _instance' = i
  /\ shell' = "configure"
  /\ UNCHANGED <<registrations, _systemServicesNotification, pool, jobs, bus,
                 received, calls>>

\* Configure registers with IARM and with PowerManager.
Configure ==
  /\ shell = "configure"
  /\ iarmHandlers' = {"events", "calls"}
  /\ pmSinks' = pmSinks \union {_systemServices}
  /\ shell' = "register"
  /\ UNCHANGED <<_systemServices, _instance, object, refs,
                 _systemServicesNotification, pool, jobs, bus, received,
                 calls>>

ShellRegisters ==
  /\ shell = "register"
  /\ Register(_systemServices, Shell)
  /\ shell' = "active"
  /\ UNCHANGED <<_systemServices, _instance, object, refs, registrations, pool,
                 jobs, bus, received, calls>>

\* Deinitialize unregisters, ...
Deinitialize ==
  /\ shell = "active"
  /\ Unregister(_systemServices, Shell)
  /\ shell' = "release"
  /\ UNCHANGED <<_systemServices, _instance, object, refs, registrations, pool,
                 jobs, bus, received, calls>>

\* ... drops both interfaces, which should be the last, ...
ShellReleases ==
  /\ shell = "release"
  /\ Release(_systemServices, 2)
  /\ shell' = AfterRelease(_systemServices, 2, "released")
  /\ UNCHANGED <<_systemServices, _instance, registrations, pool,
                 _systemServicesNotification, jobs, bus, received, calls>>

\* ... and is done when the destructor, if it runs here, is.
Deinitialized ==
  /\ \/ shell = "released"
     \/ shell = "destroy" /\ ~DestructorRuns(_systemServices)
  /\ shell' = "inactive"
  /\ _systemServices' = NoInstance
  /\ UNCHANGED <<_instance, object, refs, registrations, pool,
                 _systemServicesNotification, jobs, bus, received, calls>>

ShellStep == Configure \/ ShellRegisters \/ ShellReleases \/ Deinitialized

Next ==
  \/ Initialize \/ Deinitialize \/ ShellStep
  \/ ApiEvent \/ BusCheck \/ BusCall
  \/ \E i \in Instances : PowerEvent(i) \/ DestructorStep(i)
  \/ \E p \in PoolThreads : PoolStep(p)
  \/ \E c \in Clients : ClientRegisters(c) \/ ClientUnregisters(c)

Spec == Init /\ [][Next]_vars

\* Threads run and callbacks return once what they wait for is there.  Nothing
\* makes an event happen, a client call or the plugin change its state.
Fairness ==
  /\ WF_vars(ShellStep)
  /\ WF_vars(BusCall)
  /\ \A p \in PoolThreads : WF_vars(PoolStep(p))
  /\ \A i \in Instances : WF_vars(DestructorStep(i))

FairSpec == Spec /\ Fairness

-----------------------------------------------------------------------------
(* Properties.                                                             *)

Dispatching(p) == pc[p] \in {"lock", "call", "callback"}

\* The events whose job still has its reference.
Pending == Range(queue) \union {job[p] : p \in {q \in PoolThreads : Dispatching(q)}}

\* The implementation keeps the promise of the notification interface to each
\* sink: called for what happened, once, while it is registered and not after
\* its Unregister returned, whatever threads dispatch and register meanwhile.
Delivery == INSTANCE EventDelivery WITH
  Clients <- Sinks,
  subscribed <- [i \in Instances |-> Range(_systemServicesNotification[i])],
  sent <- [i \in Instances |->
             {e \in 1 .. Len(submitted) : submitted[e] = i}],
  called <- [s \in Sinks |-> Range(received[s])]

ImplementsDelivery == Delivery!DeliverySpec

\* No sink is called twice for an event: the calls are counted, not collected.
CalledOnce == \A s \in Sinks : IsInjective(received[s])

\* A job keeps the implementation it will call from being destroyed.
JobsHoldObject == \A e \in Pending : object[submitted[e]] # "destroyed"

\* An event reaches every sink that stays registered.
EventsArrive ==
  \A e \in Events, s \in Sinks :
    (e \in Pending /\ Registered(submitted[e], s))
      ~> \/ e \in Range(received[s])
         \/ e \in DOMAIN submitted /\ ~Registered(submitted[e], s)

\* An implementation the shell let go is destroyed in the end.
ReleasedIsDestroyed ==
  \A i \in Instances :
    (object[i] = "live" /\ _systemServices # i) ~> object[i] = "destroyed"
=============================================================================
