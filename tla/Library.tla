------------------------------ MODULE Library ------------------------------
(***************************************************************************)
(* The library's process-wide state and the calls that touch it:           *)
(* rtc_initialize, rtc_terminate, rtc_factory_create/release and           *)
(* rtc_audio_device_count/info (WebRtcInterop/src/Interop.cc).             *)
(*                                                                         *)
(* Application threads (Clients) and the signalling thread, which runs the *)
(* application's callbacks, compete for g_mutex.  The owner of the mutex   *)
(* starts and joins the library's three threads, and waits for the worker  *)
(* and the signalling thread to serve it, without letting the mutex go.    *)
(***************************************************************************)
EXTENDS Naturals, FiniteSets

CONSTANTS
    Clients,        \* threads of the application
    Factories,      \* the factory handles the application may hold at once
    NoOwner,        \* the owner of a free mutex, the client of an idle thread
    Handlers,       \* the calls a callback makes on the signalling thread
    Disciplined     \* TRUE: the application calls rtc_terminate only when it
                    \* holds no handle (the alternative is "a caller bug")

Signaling == "signaling"
Worker == "worker"
Network == "network"
Threads == {Network, Worker, Signaling}

Actors == Clients \cup {Signaling}

ASSUME LibraryAssumption ==
    /\ Threads \cap Clients = {}
    /\ NoOwner \notin Actors
    /\ Handlers \subseteq {"count", "info"}
    /\ Disciplined \in BOOLEAN

Getters == {"count", "info"}
Calls == {"init", "term", "create"} \cup Getters
Statuses == {"OK", "INVALID_STATE", "NOT_FOUND", "INTERNAL"}

(* Positions of a call that owns g_mutex. *)
Inside == {"check", "start", "undo", "stop", "cleanup",
           "on_worker", "on_signaling", "alloc", "reply"}
(* Positions at which the runtime is neither being built nor torn down. *)
Steady == {"check", "on_worker", "on_signaling", "alloc", "reply"}
Positions == {"idle", "handler", "lock"} \cup Inside

VARIABLES
    mutex,      \* who holds g_mutex
    runtime,    \* g_runtime # nullptr
    thread,     \* "absent", "running" or "quitting" (Quit called, not joined)
    serving,    \* the actor whose BlockingCall a thread is serving
    ssl,        \* InitializeSSL calls not yet matched by CleanupSSL
    factory,    \* "free", "reserved", "current" or "orphan" (runtime gone)
    adm,        \* the factory's audio device module: "none", "up", "down"
    pc, op, arg,    \* each actor's position, call and factory argument
    ret         \* the status an actor's last call has returned, or will

vars == <<mutex, runtime, thread, serving, ssl, factory, adm, pc, op, arg, ret>>

TypeOK ==
    /\ mutex \in Actors \cup {NoOwner}
    /\ runtime \in BOOLEAN
    /\ thread \in [Threads -> {"absent", "running", "quitting"}]
    /\ serving \in [Threads -> Actors \cup {NoOwner}]
    /\ ssl \in Nat
    /\ factory \in [Factories -> {"free", "reserved", "current", "orphan"}]
    /\ adm \in [Factories -> {"none", "up", "down"}]
    /\ pc \in [Actors -> Positions]
    /\ op \in [Actors -> Calls]
    /\ arg \in [Actors -> Factories]
    /\ ret \in [Actors -> Statuses]

Init ==
    /\ mutex = NoOwner
    /\ runtime = FALSE
    /\ thread = [t \in Threads |-> "absent"]
    /\ serving = [t \in Threads |-> NoOwner]
    /\ ssl = 0
    /\ factory = [f \in Factories |-> "free"]
    /\ adm = [f \in Factories |-> "none"]
    /\ pc = [a \in Actors |-> "idle"]
    /\ op = [a \in Actors |-> "init"]
    /\ arg \in {[a \in Actors |-> f] : f \in Factories}
    /\ ret = [a \in Actors |-> "OK"]

-----------------------------------------------------------------------------
(* Moving an actor from position to position *)

Goto(a, p) == pc' = [pc EXCEPT ![a] = p]

(* Where an actor is between two calls: a callback goes on with its body. *)
Home(a) == IF a = Signaling THEN "handler" ELSE "idle"

At(a, c, p) == pc[a] = p /\ op[a] = c

Held == {f \in Factories : factory[f] # "free"}
InUse(f) == \E a \in Actors : pc[a] \notin {"idle", "handler"}
                              /\ op[a] \in Getters /\ arg[a] = f

(* The lock_guard goes out of scope and the call returns s. *)
Return(a, s) ==
    /\ mutex' = NoOwner
    /\ Goto(a, Home(a))
    /\ ret' = [ret EXCEPT ![a] = s]

-----------------------------------------------------------------------------
(* What the application does *)

MayTerminate ==
    ~Disciplined \/ (Held = {} /\ \A a \in Actors : op[a] = "create" => pc[a] = "idle")
MayCreate == ~Disciplined \/ \A a \in Actors : op[a] = "term" => pc[a] = "idle"

Enter(a, c, f) ==
    /\ Goto(a, "lock")
    /\ op' = [op EXCEPT ![a] = c]
    /\ arg' = [arg EXCEPT ![a] = f]

CallInitialize(a) ==
    /\ pc[a] = "idle" /\ a \in Clients
    /\ Enter(a, "init", arg[a])
    /\ UNCHANGED <<mutex, runtime, thread, serving, ssl, factory, adm, ret>>

CallTerminate(a) ==
    /\ pc[a] = "idle" /\ a \in Clients
    /\ MayTerminate
    /\ Enter(a, "term", arg[a])
    /\ UNCHANGED <<mutex, runtime, thread, serving, ssl, factory, adm, ret>>

CallCreate(a, f) ==
    /\ pc[a] = "idle" /\ a \in Clients
    /\ MayCreate
    /\ factory[f] = "free"
    /\ Enter(a, "create", f)
    /\ factory' = [factory EXCEPT ![f] = "reserved"]
    /\ UNCHANGED <<mutex, runtime, thread, serving, ssl, adm, ret>>

(* rtc_audio_device_count and _info answer RTC_ERR_INTERNAL before they take
   the mutex when the factory has no audio device module of its own. *)
CallGetter(a, c, f) ==
    /\ \/ pc[a] = "idle" /\ a \in Clients
       \/ pc[a] = "handler" /\ c \in Handlers
    /\ factory[f] \in {"current", "orphan"}
    /\ IF adm[f] = "none"
       THEN /\ ret' = [ret EXCEPT ![a] = "INTERNAL"]
            /\ UNCHANGED <<pc, op, arg>>
       ELSE /\ Enter(a, c, f)
            /\ UNCHANGED ret
    /\ UNCHANGED <<mutex, runtime, thread, serving, ssl, factory, adm>>

(* Takes no lock; the handle's references on factory and module go.  A peer
   connection is released before its factory, and its release waits for the
   callback in progress. *)
ReleaseFactory(f) ==
    /\ factory[f] \in {"current", "orphan"}
    /\ ~InUse(f)
    /\ pc[Signaling] = "idle"
    /\ factory' = [factory EXCEPT ![f] = "free"]
    /\ adm' = [adm EXCEPT ![f] = "none"]
    /\ UNCHANGED <<mutex, runtime, thread, serving, ssl, pc, op, arg, ret>>

-----------------------------------------------------------------------------
(* Every call: take the mutex, then look at g_runtime *)

(* Mutant: the body runs without the lock_guard. *)
AcquireUnguarded(a) ==
    /\ pc[a] = "lock"
    /\ mutex' = a
    /\ Goto(a, "check")
    /\ UNCHANGED <<runtime, thread, serving, ssl, factory, adm, op, arg, ret>>

Acquire(a) ==
    /\ pc[a] = "lock"
    /\ mutex = NoOwner
    /\ mutex' = a
    /\ Goto(a, "check")
    /\ UNCHANGED <<runtime, thread, serving, ssl, factory, adm, op, arg, ret>>

(* RTC_ERR_INVALID_STATE: initialised already, or not initialised. *)
Reject(a) ==
    /\ pc[a] = "check"
    /\ runtime <=> op[a] = "init"
    /\ Return(a, "INVALID_STATE")
    /\ factory' = IF op[a] = "create" THEN [factory EXCEPT ![arg[a]] = "free"] ELSE factory
    /\ UNCHANGED <<runtime, thread, serving, ssl, adm, op, arg>>

-----------------------------------------------------------------------------
(* rtc_initialize *)

(* Mutant: a failed InitializeSSL is cleaned up after. *)
InitializeSSLCleansUp(a) ==
    /\ At(a, "init", "check") /\ ~runtime
    /\ \/ ssl' = ssl + 1 /\ Goto(a, "start") /\ UNCHANGED <<mutex, ret>>
       \/ Return(a, "INTERNAL") /\ ssl' = ssl - 1
    /\ UNCHANGED <<runtime, thread, serving, factory, adm, op, arg>>

InitializeSSL(a) ==
    /\ At(a, "init", "check") /\ ~runtime
    /\ \/ ssl' = ssl + 1 /\ Goto(a, "start") /\ UNCHANGED <<mutex, ret>>
       \/ Return(a, "INTERNAL") /\ UNCHANGED ssl
    /\ UNCHANGED <<runtime, thread, serving, factory, adm, op, arg>>

(* network_thread->Start() || worker_thread->Start() || signaling_thread->Start() *)
NextToStart(t) ==
    /\ thread[t] = "absent"
    /\ t # Network => thread[Network] = "running"
    /\ t = Signaling => thread[Worker] = "running"

StartThread(a, t) ==
    /\ pc[a] = "start" /\ NextToStart(t)
    /\ thread' = [thread EXCEPT ![t] = "running"]
    /\ UNCHANGED <<mutex, runtime, serving, ssl, factory, adm, pc, op, arg, ret>>

(* Mutant: the failing branch forgets CleanupSSL. *)
StartFailsKeepsSSL(a) ==
    /\ pc[a] = "start" /\ \E t \in Threads : thread[t] = "absent"
    /\ Goto(a, "undo")
    /\ UNCHANGED <<mutex, runtime, thread, serving, ssl, factory, adm, op, arg, ret>>

(* Mutant: a start that fails is tried again from the first thread. *)
StartFailsRetries(a) ==
    /\ pc[a] = "start" /\ \E t \in Threads : thread[t] = "absent"
    /\ thread' = [t \in Threads |-> "absent"]
    /\ UNCHANGED <<mutex, runtime, serving, ssl, factory, adm, pc, op, arg, ret>>

(* An allocation or a Start() fails: CleanupSSL comes first, the locals, and
   with them the threads already started, go when the function returns. *)
StartFails(a) ==
    /\ pc[a] = "start" /\ \E t \in Threads : thread[t] = "absent"
    /\ ssl' = ssl - 1
    /\ Goto(a, "undo")
    /\ UNCHANGED <<mutex, runtime, thread, serving, factory, adm, op, arg, ret>>

(* Mutant: threads are stopped in the order they were started. *)
NextToStopForwards(t) ==
    /\ thread[t] # "absent"
    /\ t # Network => thread[Network] = "absent"
    /\ t = Signaling => thread[Worker] = "absent"

(* ~Runtime: members are destroyed in reverse, each thread stopped and joined. *)
NextToStop(t) ==
    /\ thread[t] # "absent"
    /\ t # Signaling => thread[Signaling] = "absent"
    /\ t = Network => thread[Worker] = "absent"

UndoThread(a, t) ==
    /\ pc[a] = "undo" /\ NextToStop(t)
    /\ thread' = [thread EXCEPT ![t] = "absent"]
    /\ UNCHANGED <<mutex, runtime, serving, ssl, factory, adm, pc, op, arg, ret>>

(* Mutant: an early return that leaves the mutex locked. *)
UndoDoneLocked(a) ==
    /\ pc[a] = "undo" /\ \A t \in Threads : thread[t] = "absent"
    /\ Goto(a, Home(a))
    /\ ret' = [ret EXCEPT ![a] = "INTERNAL"]
    /\ UNCHANGED <<mutex, runtime, thread, serving, ssl, factory, adm, op, arg>>

UndoDone(a) ==
    /\ pc[a] = "undo" /\ \A t \in Threads : thread[t] = "absent"
    /\ Return(a, "INTERNAL")
    /\ UNCHANGED <<runtime, thread, serving, ssl, factory, adm, op, arg>>

Publish(a) ==
    /\ pc[a] = "start" /\ \A t \in Threads : thread[t] = "running"
    /\ runtime' = TRUE
    /\ Return(a, "OK")
    /\ UNCHANGED <<thread, serving, ssl, factory, adm, op, arg>>

-----------------------------------------------------------------------------
(* rtc_terminate *)

BeginStop(a) ==
    /\ At(a, "term", "check") /\ runtime
    /\ Goto(a, "stop")
    /\ UNCHANGED <<mutex, runtime, thread, serving, ssl, factory, adm, op, arg, ret>>

(* Thread::Stop: Quit() makes the thread take no more work... *)
Quit(a, t) ==
    /\ pc[a] = "stop" /\ NextToStop(t) /\ thread[t] = "running"
    /\ thread' = [thread EXCEPT ![t] = "quitting"]
    /\ UNCHANGED <<mutex, runtime, serving, ssl, factory, adm, pc, op, arg, ret>>

(* ... and it is joined once the work it is doing is over. *)
Join(a, t) ==
    /\ pc[a] = "stop" /\ NextToStop(t) /\ thread[t] = "quitting"
    /\ t = Signaling => pc[Signaling] = "idle"
    /\ thread' = [thread EXCEPT ![t] = "absent"]
    /\ UNCHANGED <<mutex, runtime, serving, ssl, factory, adm, pc, op, arg, ret>>

(* g_runtime.reset(): handles that are still alive lose their threads. *)
ResetRuntime(a) ==
    /\ pc[a] = "stop" /\ \A t \in Threads : thread[t] = "absent"
    /\ runtime' = FALSE
    /\ ret' = [ret EXCEPT ![a] = "OK"]
    /\ factory' = [f \in Factories |->
                      IF factory[f] = "current" THEN "orphan" ELSE factory[f]]
    /\ Goto(a, "cleanup")
    /\ UNCHANGED <<mutex, thread, serving, ssl, adm, op, arg>>

CleanupSSL(a) ==
    /\ pc[a] = "cleanup"
    /\ ssl' = ssl - 1
    /\ Return(a, "OK")
    /\ UNCHANGED <<runtime, thread, serving, factory, adm, op, arg>>

-----------------------------------------------------------------------------
(* rtc_factory_create and rtc_audio_device_count/info *)

(* Mutant: the mutex is let go for the duration of the hop. *)
HopToWorkerUnlocked(a) ==
    /\ pc[a] = "check" /\ runtime /\ op[a] \in {"create"} \cup Getters
    /\ thread[Worker] = "running" /\ serving[Worker] = NoOwner
    /\ serving' = [serving EXCEPT ![Worker] = a]
    /\ mutex' = NoOwner
    /\ Goto(a, "on_worker")
    /\ UNCHANGED <<runtime, thread, ssl, factory, adm, op, arg, ret>>

(* worker_thread->BlockingCall, with g_mutex held. *)
HopToWorker(a) ==
    /\ pc[a] = "check" /\ runtime /\ op[a] \in {"create"} \cup Getters
    /\ thread[Worker] = "running" /\ serving[Worker] = NoOwner
    /\ serving' = [serving EXCEPT ![Worker] = a]
    /\ Goto(a, "on_worker")
    /\ UNCHANGED <<mutex, runtime, thread, ssl, factory, adm, op, arg, ret>>

(* Mutant: the handle is handed out before its factory is built. *)
CreateAdmPublishes(a) ==
    /\ serving[Worker] = a /\ op[a] = "create"
    /\ \E m \in {"none", "up"} : adm' = [adm EXCEPT ![arg[a]] = m]
    /\ factory' = [factory EXCEPT ![arg[a]] = "current"]
    /\ serving' = [serving EXCEPT ![Worker] = NoOwner, ![Signaling] = a]
    /\ Goto(a, "on_signaling")
    /\ UNCHANGED <<mutex, runtime, thread, ssl, op, arg, ret>>

(* The platform gives a working module, or none and the factory builds one
   the handle does not see. *)
CreateAdm(a) ==
    /\ serving[Worker] = a /\ op[a] = "create"
    /\ \E m \in {"none", "up"} : adm' = [adm EXCEPT ![arg[a]] = m]
    /\ serving' = [serving EXCEPT ![Worker] = NoOwner, ![Signaling] = a]
    /\ Goto(a, "on_signaling")
    /\ UNCHANGED <<mutex, runtime, thread, ssl, factory, op, arg, ret>>

(* CreatePeerConnectionFactory builds the factory on the signalling thread it
   is given, when that thread is not in the middle of a callback. *)
BuildFactory(a) ==
    /\ serving[Signaling] = a
    /\ pc[Signaling] = "idle"
    /\ serving' = [serving EXCEPT ![Signaling] = NoOwner]
    /\ Goto(a, "alloc")
    /\ UNCHANGED <<mutex, runtime, thread, ssl, factory, adm, op, arg, ret>>

(* A null factory or a failed allocation: the module's reference goes too. *)
FinishCreate(a) ==
    /\ pc[a] = "alloc"
    /\ \/ /\ factory' = [factory EXCEPT ![arg[a]] = "current"]
          /\ Return(a, "OK")
          /\ UNCHANGED adm
       \/ /\ factory' = [factory EXCEPT ![arg[a]] = "free"]
          /\ adm' = [adm EXCEPT ![arg[a]] = "none"]
          /\ Return(a, "INTERNAL")
    /\ UNCHANGED <<runtime, thread, serving, ssl, op, arg>>

(* CountAudioDevices: a module that was shut down is initialised again and
   asked a second time; either may fail.  _info also tells an index that is
   out of range from a fault. *)
CountAudioDevices(a) ==
    /\ serving[Worker] = a /\ op[a] \in Getters
    /\ \/ /\ adm' = [adm EXCEPT ![arg[a]] = "up"]
          /\ \E s \in {"OK", "NOT_FOUND"} :
                /\ s = "NOT_FOUND" => op[a] = "info"
                /\ ret' = [ret EXCEPT ![a] = s]
       \/ /\ ret' = [ret EXCEPT ![a] = "INTERNAL"]
          /\ UNCHANGED adm
    /\ serving' = [serving EXCEPT ![Worker] = NoOwner]
    /\ Goto(a, "reply")
    /\ UNCHANGED <<mutex, runtime, thread, ssl, factory, op, arg>>

(* Mutant: the call returns with the mutex locked. *)
ReplyLocked(a) ==
    /\ pc[a] = "reply"
    /\ Goto(a, Home(a))
    /\ UNCHANGED <<mutex, runtime, thread, serving, ssl, factory, adm, op, arg, ret>>

Reply(a) ==
    /\ pc[a] = "reply"
    /\ Return(a, ret[a])
    /\ UNCHANGED <<runtime, thread, serving, ssl, factory, adm, op, arg>>

-----------------------------------------------------------------------------
(* What the engine does on its own *)

(* "Something in a peer connection's lifetime terminates" the module. *)
AdmShutDown(f) ==
    /\ factory[f] = "current" /\ adm[f] = "up"
    /\ thread[Worker] = "running" /\ serving[Worker] = NoOwner
    /\ adm' = [adm EXCEPT ![f] = "down"]
    /\ UNCHANGED <<mutex, runtime, thread, serving, ssl, factory, pc, op, arg, ret>>

(* An event of a peer connection: the signalling thread runs a callback. *)
BeginCallback ==
    /\ thread[Signaling] = "running" /\ pc[Signaling] = "idle"
    /\ \E f \in Factories : factory[f] = "current"
    /\ Goto(Signaling, "handler")
    /\ UNCHANGED <<mutex, runtime, thread, serving, ssl, factory, adm, op, arg, ret>>

EndCallback ==
    /\ pc[Signaling] = "handler"
    /\ Goto(Signaling, "idle")
    /\ UNCHANGED <<mutex, runtime, thread, serving, ssl, factory, adm, op, arg, ret>>

-----------------------------------------------------------------------------
CallStep(a) ==
    \/ CallInitialize(a) \/ CallTerminate(a)
    \/ \E f \in Factories : CallCreate(a, f) \/ (\E c \in Getters : CallGetter(a, c, f))

Initializing(a) ==
    \/ InitializeSSL(a) \/ StartFails(a) \/ UndoDone(a) \/ Publish(a)
    \/ \E t \in Threads : StartThread(a, t) \/ UndoThread(a, t)

Terminating(a) ==
    \/ BeginStop(a) \/ ResetRuntime(a) \/ CleanupSSL(a)
    \/ \E t \in Threads : Quit(a, t) \/ Join(a, t)

OnThreads(a) ==
    \/ HopToWorker(a) \/ CreateAdm(a) \/ BuildFactory(a) \/ FinishCreate(a)
    \/ CountAudioDevices(a) \/ Reply(a)

(* What the holder of g_mutex does. *)
Progress(a) == Reject(a) \/ Initializing(a) \/ Terminating(a) \/ OnThreads(a)

Environment ==
    \/ \E f \in Factories : ReleaseFactory(f) \/ AdmShutDown(f)
    \/ BeginCallback \/ EndCallback

Next == Environment \/ \E a \in Actors : CallStep(a) \/ Acquire(a) \/ Progress(a)

Spec == Init /\ [][Next]_vars

(* The system runs every thread that can run and the signalling thread serves
   its queue in order, so a hop is served between callbacks.  std::mutex
   promises no order: an acquisition is not even weakly fair.  Callbacks
   return (Interop.h:16-17). *)
FairSpec ==
    /\ Spec
    /\ \A a \in Actors : WF_vars(Progress(a)) /\ SF_vars(BuildFactory(a))
    /\ WF_vars(EndCallback)

-----------------------------------------------------------------------------
(* Properties *)

(* Exactly the holder of g_mutex is past the lock_guard of a call: the body of
   rtc_initialize, rtc_terminate or rtc_factory_create never runs twice at
   once, callbacks on the signalling thread included. *)
LockDiscipline == \A a \in Actors : pc[a] \in Inside <=> mutex = a

Whole ==
    /\ thread = [t \in Threads |-> IF runtime THEN "running" ELSE "absent"]
    /\ ssl = IF runtime THEN 1 ELSE 0

(* Whoever takes g_mutex finds a library that is wholly up or wholly down: all
   three threads and SSL, or none of them, also after an initialisation that
   failed half way. *)
RuntimeWhole ==
    mutex = NoOwner \/ (\E a \in Actors : mutex = a /\ pc[a] \in Steady) => Whole

(* "Stop in reverse order of dependency": the signalling thread never runs
   without the worker, nor the worker without the network thread, while they
   are started, stopped, or undone after a failed start. *)
ThreadsNested ==
    /\ thread[Signaling] # "absent" => thread[Worker] = "running"
    /\ thread[Worker] # "absent" => thread[Network] = "running"

(* Once g_runtime has been published SSL outlives every thread: rtc_terminate
   cleans up only after the last thread is joined. *)
SslOutlivesThreads ==
    (runtime \/ \E a \in Actors : At(a, "term", "cleanup")) => ssl = 1

(* A BlockingCall is only ever posted to a thread that runs and stays running
   until it is served: rtc_terminate never pulls a thread from under it. *)
CallsAreServed == \A t \in Threads : serving[t] # NoOwner => thread[t] = "running"

(* A callback never outlives its thread: rtc_terminate waits for the handler
   that is running before the thread goes away underneath it. *)
CallbackHasThread == pc[Signaling] # "idle" => thread[Signaling] # "absent"

(* What depends on something goes before it, on every path: a callback before
   its thread, a thread before those it needs, the threads before SSL. *)
TeardownOrder == ThreadsNested /\ SslOutlivesThreads /\ CallbackHasThread

(* A callback waits for g_mutex and its holder for the callback's thread, to
   build a factory on it or to join it. *)
CircularWait(a) ==
    /\ pc[Signaling] = "lock" /\ mutex = a
    /\ \/ pc[a] = "on_signaling"
       \/ pc[a] = "stop" /\ thread[Signaling] = "quitting"

(* An application that keeps to one factory, and terminates only when it has
   none, may enumerate devices in callbacks: what else would need the
   signalling thread under g_mutex needs a callback's factory to be gone. *)
NoCircularWait == \A a \in Clients : ~CircularWait(a)

(* Every call atomically does what Lifecycle says. *)
Abstract == INSTANCE Lifecycle WITH
    up <- runtime,
    handles <- {f \in Factories : factory[f] \in {"current", "orphan"}}
ImplementsLifecycle == Abstract!Spec

(* g_mutex is never held for ever, although its holder joins three threads and
   waits for two of them to serve it. *)
LockIsReleased == \A a \in Actors : mutex = a ~> mutex # a

(* How many steps of its own the holder of g_mutex is at most from letting it
   go: threads to start, to undo or to stop, hops to make. *)
Exists(t) == IF thread[t] = "absent" THEN 0 ELSE 1
ToStop(t) == IF thread[t] = "running" THEN 2 ELSE Exists(t)
Left(a) ==
    CASE pc[a] = "check" -> 9
      [] pc[a] = "start" -> 7 - (Exists(Network) + Exists(Worker) + Exists(Signaling))
      [] pc[a] = "undo" -> Exists(Network) + Exists(Worker) + Exists(Signaling)
      [] pc[a] = "stop" -> 2 + ToStop(Network) + ToStop(Worker) + ToStop(Signaling)
      [] pc[a] = "on_worker" -> 3
      [] pc[a] = "on_signaling" -> 2
      [] OTHER -> 1

(* No call is a loop: each step of the holder takes it nearer to the end, a
   failing initialisation included, and no other thread, callback or release
   takes it further away. *)
HolderGetsOn ==
    [][\A a \in Actors : mutex = a /\ mutex' = a =>
          /\ Left(a)' <= Left(a)
          /\ Progress(a) => Left(a)' < Left(a)]_vars

(* "Calling back into the shim from inside a callback is allowed for the
   state-free calls (rtc_string_free, getters)" (Interop-ABI.md:168-169): such
   a call always finds the mutex free sooner or later. *)
GetterFindsLock == pc[Signaling] = "lock" ~> (mutex = NoOwner \/ pc[Signaling] # "lock")
=============================================================================
