--------------------------- MODULE LibraryProofs ---------------------------
(***************************************************************************)
(* For every set of threads and factories: the library's safety invariants *)
(* hold and the calls implement Lifecycle.  The invariants are not         *)
(* inductive one by one; IndInv adds what each position of the holder of   *)
(* g_mutex says of the runtime.                                            *)
(*                                                                         *)
(* Then who waits for whom: a holder of g_mutex is a bounded number of its *)
(* own steps from the end, and waits for nothing but a callback to return. *)
(***************************************************************************)
EXTENDS Library, Integers, TLAPS

(* While the runtime is built or torn down, its owner's position says how far
   it has come; at every other position of a call it is whole. *)
Phases ==
    \A a \in Actors :
        /\ pc[a] = "start" =>
              ~runtime /\ ssl = 1 /\ \A t \in Threads : thread[t] # "quitting"
        /\ pc[a] = "undo" =>
              ~runtime /\ ssl = 0 /\ \A t \in Threads : thread[t] # "quitting"
        /\ pc[a] = "stop" => runtime /\ ssl = 1
        /\ pc[a] = "cleanup" =>
              /\ ~runtime /\ ssl = 1 /\ ret[a] = "OK"
              /\ \A t \in Threads : thread[t] = "absent"
        /\ pc[a] \in {"on_worker", "on_signaling", "alloc", "reply"} => runtime

(* The position of a call goes with what was called; a creation in flight has
   reserved a handle of its own. *)
CallAt ==
    \A a \in Actors :
        /\ pc[a] \in {"start", "undo"} => op[a] = "init"
        /\ pc[a] \in {"stop", "cleanup"} => op[a] = "term"
        /\ pc[a] \in {"on_signaling", "alloc"} => op[a] = "create"
        /\ op[a] = "create" /\ pc[a] \in {"lock"} \cup Steady =>
              /\ factory[arg[a]] = "reserved"
              /\ \A b \in Actors \ {a} :
                    op[b] = "create" /\ pc[b] \in {"lock"} \cup Steady => arg[b] # arg[a]

(* A thread serves exactly the call that waits for it. *)
Served ==
    /\ serving[Network] = NoOwner
    /\ \A a \in Actors : /\ serving[Worker] = a <=> pc[a] = "on_worker"
                         /\ serving[Signaling] = a <=> pc[a] = "on_signaling"

(* Factories and callbacks live on a runtime. *)
NeedsRuntime ==
    /\ \A f \in Factories : factory[f] = "current" => runtime
    /\ pc[Signaling] # "idle" => runtime /\ thread[Signaling] # "absent"

IndInv ==
    /\ TypeOK
    /\ LockDiscipline
    /\ RuntimeWhole
    /\ ThreadsNested
    /\ Phases
    /\ CallAt
    /\ Served
    /\ NeedsRuntime

-----------------------------------------------------------------------------
(* Every step preserves every part of IndInv *)

(* Every variable keeps its type; ssl never goes below zero because the
   position of whoever calls CleanupSSL says there is an InitializeSSL to
   match. *)
LEMMA TypePreserved == IndInv /\ [Next]_vars => TypeOK'
<1> SUFFICES ASSUME IndInv, [Next]_vars PROVE TypeOK'
  OBVIOUS
<1> USE LibraryAssumption DEF IndInv, TypeOK, Phases, Threads, Signaling,
    Worker, Network, Actors, Calls, Getters, Statuses, Positions, Inside,
    Steady
<1>1. ASSUME NEW a \in Actors, CallStep(a) PROVE TypeOK'
  BY <1>1 DEF CallStep, CallInitialize, CallTerminate, CallCreate, CallGetter,
      Enter, Goto, Getters
<1>2. ASSUME NEW a \in Actors, Acquire(a) \/ Reject(a) PROVE TypeOK'
  BY <1>2 DEF Acquire, Reject, Return, Goto, Home
<1>3. ASSUME NEW a \in Actors, Initializing(a) PROVE TypeOK'
  <2>1. CASE InitializeSSL(a)
    BY <2>1 DEF InitializeSSL, At, Return, Goto, Home
  <2>2. ASSUME NEW t \in Threads, StartThread(a, t) PROVE TypeOK'
    BY <2>2 DEF StartThread
  <2>3. CASE StartFails(a)
    BY <2>3 DEF StartFails, Goto
  <2>4. ASSUME NEW t \in Threads, UndoThread(a, t) PROVE TypeOK'
    BY <2>4 DEF UndoThread
  <2>5. CASE UndoDone(a)
    BY <2>5 DEF UndoDone, Return, Goto, Home
  <2>6. CASE Publish(a)
    BY <2>6 DEF Publish, Return, Goto, Home
  <2> QED
    BY <1>3, <2>1, <2>2, <2>3, <2>4, <2>5, <2>6 DEF Initializing
<1>4. ASSUME NEW a \in Actors, Terminating(a) PROVE TypeOK'
  <2>1. CASE BeginStop(a)
    BY <2>1 DEF BeginStop, Goto
  <2>2. ASSUME NEW t \in Threads, Quit(a, t) PROVE TypeOK'
    BY <2>2 DEF Quit
  <2>3. ASSUME NEW t \in Threads, Join(a, t) PROVE TypeOK'
    BY <2>3 DEF Join
  <2>4. CASE ResetRuntime(a)
    BY <2>4 DEF ResetRuntime, Goto
  <2>5. CASE CleanupSSL(a)
    BY <2>5 DEF CleanupSSL, Return, Goto, Home
  <2> QED
    BY <1>4, <2>1, <2>2, <2>3, <2>4, <2>5 DEF Terminating
<1>5. ASSUME NEW a \in Actors, OnThreads(a) PROVE TypeOK'
  <2>1. CASE HopToWorker(a)
    BY <2>1 DEF HopToWorker, Goto
  <2>2. CASE CreateAdm(a)
    BY <2>2 DEF CreateAdm, Goto
  <2>3. CASE BuildFactory(a)
    BY <2>3 DEF BuildFactory, Goto
  <2>4. CASE FinishCreate(a)
    BY <2>4 DEF FinishCreate, Return, Goto, Home
  <2>5. CASE CountAudioDevices(a)
    BY <2>5 DEF CountAudioDevices, Goto
  <2>6. CASE Reply(a)
    BY <2>6 DEF Reply, Return, Goto, Home
  <2> QED
    BY <1>5, <2>1, <2>2, <2>3, <2>4, <2>5, <2>6 DEF OnThreads
<1>6. CASE Environment
  BY <1>6 DEF Environment, ReleaseFactory, AdmShutDown, BeginCallback,
      EndCallback, Goto
<1>7. CASE UNCHANGED vars
  BY <1>7 DEF vars
<1> QED
  BY ONLY [Next]_vars, <1>1, <1>2, <1>3, <1>4, <1>5, <1>6, <1>7 DEF Next, Progress

(* g_mutex is taken by Acquire alone, and given back by every way out of a
   call. *)
LEMMA LockPreserved == IndInv /\ [Next]_vars => LockDiscipline'
<1> SUFFICES ASSUME IndInv, [Next]_vars PROVE LockDiscipline'
  OBVIOUS
<1> USE LibraryAssumption DEF IndInv, TypeOK, Served, LockDiscipline, Threads,
    Signaling, Worker, Network, Actors, Positions, Inside
<1>1. ASSUME NEW a \in Actors, CallStep(a) PROVE LockDiscipline'
  BY <1>1 DEF CallStep, CallInitialize, CallTerminate, CallCreate, CallGetter,
      Enter, Goto, Getters
<1>2. ASSUME NEW a \in Actors, Acquire(a) \/ Reject(a) PROVE LockDiscipline'
  BY <1>2 DEF Acquire, Reject, Return, Goto, Home
<1>3. ASSUME NEW a \in Actors, Initializing(a) PROVE LockDiscipline'
  BY <1>3 DEF Initializing, InitializeSSL, StartThread, StartFails,
      UndoThread, UndoDone, Publish, NextToStart, NextToStop, At, Return,
      Goto, Home
<1>4. ASSUME NEW a \in Actors, Terminating(a) PROVE LockDiscipline'
  BY <1>4 DEF Terminating, BeginStop, Quit, Join, ResetRuntime, CleanupSSL,
      NextToStop, At, Return, Goto, Home
<1>5. ASSUME NEW a \in Actors, OnThreads(a) PROVE LockDiscipline'
  BY <1>5 DEF OnThreads, HopToWorker, CreateAdm, BuildFactory, FinishCreate,
      CountAudioDevices, Reply, Getters, Return, Goto, Home
<1>6. CASE Environment
  BY <1>6 DEF Environment, ReleaseFactory, AdmShutDown, BeginCallback,
      EndCallback, Goto
<1>7. CASE UNCHANGED vars
  BY <1>7 DEF vars
<1> QED
  BY ONLY [Next]_vars, <1>1, <1>2, <1>3, <1>4, <1>5, <1>6, <1>7 DEF Next, Progress

(* A call gives the mutex back only with the runtime complete or gone. *)
LEMMA WholePreserved == IndInv /\ [Next]_vars => RuntimeWhole'
<1> SUFFICES ASSUME IndInv, [Next]_vars PROVE RuntimeWhole'
  OBVIOUS
<1> USE LibraryAssumption DEF IndInv, TypeOK, Served, LockDiscipline,
    RuntimeWhole, Whole, Phases, Threads, Signaling, Worker, Network, Actors,
    Positions, Inside, Steady
<1>1. ASSUME NEW a \in Actors, CallStep(a) PROVE RuntimeWhole'
  BY <1>1 DEF CallStep, CallInitialize, CallTerminate, CallCreate, CallGetter,
      Enter, Goto, Getters
<1>2. ASSUME NEW a \in Actors, Acquire(a) \/ Reject(a) PROVE RuntimeWhole'
  BY <1>2 DEF Acquire, Reject, Return, Goto, Home
<1>3. ASSUME NEW a \in Actors, Initializing(a) PROVE RuntimeWhole'
  BY <1>3 DEF Initializing, InitializeSSL, StartThread, StartFails,
      UndoThread, UndoDone, Publish, NextToStart, NextToStop, At, Return,
      Goto, Home
<1>4. ASSUME NEW a \in Actors, Terminating(a) PROVE RuntimeWhole'
  BY <1>4 DEF Terminating, BeginStop, Quit, Join, ResetRuntime, CleanupSSL,
      NextToStop, At, Return, Goto, Home
<1>5. ASSUME NEW a \in Actors, OnThreads(a) PROVE RuntimeWhole'
  BY <1>5 DEF OnThreads, HopToWorker, CreateAdm, BuildFactory, FinishCreate,
      CountAudioDevices, Reply, Getters, Return, Goto, Home
<1>6. CASE Environment
  BY <1>6 DEF Environment, ReleaseFactory, AdmShutDown, BeginCallback,
      EndCallback, Goto
<1>7. CASE UNCHANGED vars
  BY <1>7 DEF vars
<1> QED
  BY ONLY [Next]_vars, <1>1, <1>2, <1>3, <1>4, <1>5, <1>6, <1>7 DEF Next, Progress

(* Threads start from the network thread up and stop from the signalling
   thread down. *)
LEMMA NestedPreserved == IndInv /\ [Next]_vars => ThreadsNested'
<1> SUFFICES ASSUME IndInv, [Next]_vars PROVE ThreadsNested'
  OBVIOUS
<1> USE LibraryAssumption DEF IndInv, TypeOK, ThreadsNested, Phases, Threads,
    Signaling, Worker, Network, Actors
<1>1. ASSUME NEW a \in Actors, CallStep(a) PROVE ThreadsNested'
  BY <1>1 DEF CallStep, CallInitialize, CallTerminate, CallCreate, CallGetter,
      Enter, Goto, Getters
<1>2. ASSUME NEW a \in Actors, Acquire(a) \/ Reject(a) PROVE ThreadsNested'
  BY <1>2 DEF Acquire, Reject, Return, Goto, Home
<1>3. ASSUME NEW a \in Actors, Initializing(a) PROVE ThreadsNested'
  BY <1>3 DEF Initializing, InitializeSSL, StartThread, StartFails,
      UndoThread, UndoDone, Publish, NextToStart, NextToStop, At, Return,
      Goto, Home
<1>4. ASSUME NEW a \in Actors, Terminating(a) PROVE ThreadsNested'
  BY <1>4 DEF Terminating, BeginStop, Quit, Join, ResetRuntime, CleanupSSL,
      NextToStop, At, Return, Goto, Home
<1>5. ASSUME NEW a \in Actors, OnThreads(a) PROVE ThreadsNested'
  BY <1>5 DEF OnThreads, HopToWorker, CreateAdm, BuildFactory, FinishCreate,
      CountAudioDevices, Reply, Getters, Return, Goto, Home
<1>6. CASE Environment
  BY <1>6 DEF Environment, ReleaseFactory, AdmShutDown, BeginCallback,
      EndCallback, Goto
<1>7. CASE UNCHANGED vars
  BY <1>7 DEF vars
<1> QED
  BY ONLY [Next]_vars, <1>1, <1>2, <1>3, <1>4, <1>5, <1>6, <1>7 DEF Next, Progress

(* What a position says of the runtime is true when the position is reached,
   and only the holder of the mutex could change it. *)
LEMMA PhasesPreserved == IndInv /\ [Next]_vars => Phases'
<1> SUFFICES ASSUME IndInv, [Next]_vars PROVE Phases'
  OBVIOUS
<1> USE LibraryAssumption DEF IndInv, TypeOK, Served, LockDiscipline,
    RuntimeWhole, Whole, Phases, Threads, Signaling, Worker, Network, Actors,
    Positions, Inside, Steady
<1>1. ASSUME NEW a \in Actors, CallStep(a) PROVE Phases'
  BY <1>1 DEF CallStep, CallInitialize, CallTerminate, CallCreate, CallGetter,
      Enter, Goto, Getters
<1>2. ASSUME NEW a \in Actors, Acquire(a) \/ Reject(a) PROVE Phases'
  BY <1>2 DEF Acquire, Reject, Return, Goto, Home
<1>3. ASSUME NEW a \in Actors, Initializing(a) PROVE Phases'
  BY <1>3 DEF Initializing, InitializeSSL, StartThread, StartFails,
      UndoThread, UndoDone, Publish, NextToStart, NextToStop, At, Return,
      Goto, Home
<1>4. ASSUME NEW a \in Actors, Terminating(a) PROVE Phases'
  BY <1>4 DEF Terminating, BeginStop, Quit, Join, ResetRuntime, CleanupSSL,
      NextToStop, At, Return, Goto, Home
<1>5. ASSUME NEW a \in Actors, OnThreads(a) PROVE Phases'
  BY <1>5 DEF OnThreads, HopToWorker, CreateAdm, BuildFactory, FinishCreate,
      CountAudioDevices, Reply, Getters, Return, Goto, Home
<1>6. CASE Environment
  BY <1>6 DEF Environment, ReleaseFactory, AdmShutDown, BeginCallback,
      EndCallback, Goto
<1>7. CASE UNCHANGED vars
  BY <1>7 DEF vars
<1> QED
  BY ONLY [Next]_vars, <1>1, <1>2, <1>3, <1>4, <1>5, <1>6, <1>7 DEF Next, Progress

(* A creation keeps the handle it has reserved to itself. *)
LEMMA CallAtPreserved == IndInv /\ [Next]_vars => CallAt'
<1> SUFFICES ASSUME IndInv, [Next]_vars PROVE CallAt'
  OBVIOUS
<1> USE LibraryAssumption DEF IndInv, TypeOK, LockDiscipline, Phases, CallAt,
    Served, Threads, Signaling, Worker, Network, Actors, Calls, Getters,
    Statuses, Positions, Inside, Steady
<1>1. ASSUME NEW a \in Actors, CallStep(a) PROVE CallAt'
  BY <1>1 DEF CallStep, CallInitialize, CallTerminate, CallCreate, CallGetter,
      Enter, Goto, Getters
<1>2. ASSUME NEW a \in Actors, Acquire(a) \/ Reject(a) PROVE CallAt'
  BY <1>2 DEF Acquire, Reject, Return, Goto, Home
<1>3. ASSUME NEW a \in Actors, Initializing(a) PROVE CallAt'
  BY <1>3 DEF Initializing, InitializeSSL, StartThread, StartFails,
      UndoThread, UndoDone, Publish, NextToStart, NextToStop, At, Return,
      Goto, Home
<1>4. ASSUME NEW a \in Actors, Terminating(a) PROVE CallAt'
  BY <1>4 DEF Terminating, BeginStop, Quit, Join, ResetRuntime, CleanupSSL,
      NextToStop, At, Return, Goto, Home
<1>5. ASSUME NEW a \in Actors, OnThreads(a) PROVE CallAt'
  BY <1>5 DEF OnThreads, HopToWorker, CreateAdm, BuildFactory, FinishCreate,
      CountAudioDevices, Reply, Getters, Return, Goto, Home
<1>6. CASE Environment
  BY <1>6 DEF Environment, ReleaseFactory, AdmShutDown, BeginCallback,
      EndCallback, Goto
<1>7. CASE UNCHANGED vars
  BY <1>7 DEF vars
<1> QED
  BY ONLY [Next]_vars, <1>1, <1>2, <1>3, <1>4, <1>5, <1>6, <1>7 DEF Next, Progress

(* A thread is idle exactly when no call waits for it. *)
LEMMA ServedPreserved == IndInv /\ [Next]_vars => Served'
<1> SUFFICES ASSUME IndInv, [Next]_vars PROVE Served'
  OBVIOUS
<1> USE LibraryAssumption DEF IndInv, TypeOK, LockDiscipline, Served, Threads,
    Signaling, Worker, Network, Actors, Positions, Inside
<1>1. ASSUME NEW a \in Actors, CallStep(a) PROVE Served'
  BY <1>1 DEF CallStep, CallInitialize, CallTerminate, CallCreate, CallGetter,
      Enter, Goto, Getters
<1>2. ASSUME NEW a \in Actors, Acquire(a) \/ Reject(a) PROVE Served'
  BY <1>2 DEF Acquire, Reject, Return, Goto, Home
<1>3. ASSUME NEW a \in Actors, Initializing(a) PROVE Served'
  BY <1>3 DEF Initializing, InitializeSSL, StartThread, StartFails,
      UndoThread, UndoDone, Publish, NextToStart, NextToStop, At, Return,
      Goto, Home
<1>4. ASSUME NEW a \in Actors, Terminating(a) PROVE Served'
  BY <1>4 DEF Terminating, BeginStop, Quit, Join, ResetRuntime, CleanupSSL,
      NextToStop, At, Return, Goto, Home
<1>5. ASSUME NEW a \in Actors, OnThreads(a) PROVE Served'
  BY <1>5 DEF OnThreads, HopToWorker, CreateAdm, BuildFactory, FinishCreate,
      CountAudioDevices, Reply, Getters, Return, Goto, Home
<1>6. CASE Environment
  BY <1>6 DEF Environment, ReleaseFactory, AdmShutDown, BeginCallback,
      EndCallback, Goto
<1>7. CASE UNCHANGED vars
  BY <1>7 DEF vars
<1> QED
  BY ONLY [Next]_vars, <1>1, <1>2, <1>3, <1>4, <1>5, <1>6, <1>7 DEF Next, Progress

(* The signalling thread is joined with no callback running. *)
LEMMA NeedsPreserved == IndInv /\ [Next]_vars => NeedsRuntime'
<1> SUFFICES ASSUME IndInv, [Next]_vars PROVE NeedsRuntime'
  OBVIOUS
<1> USE LibraryAssumption DEF IndInv, TypeOK, Served, LockDiscipline,
    RuntimeWhole, ThreadsNested, Whole, Phases, NeedsRuntime, Threads,
    Signaling, Worker, Network, Actors, Positions, Inside, Steady
<1>1. ASSUME NEW a \in Actors, CallStep(a) PROVE NeedsRuntime'
  BY <1>1 DEF CallStep, CallInitialize, CallTerminate, CallCreate, CallGetter,
      Enter, Goto, Getters
<1>2. ASSUME NEW a \in Actors, Acquire(a) \/ Reject(a) PROVE NeedsRuntime'
  BY <1>2 DEF Acquire, Reject, Return, Goto, Home
<1>3. ASSUME NEW a \in Actors, Initializing(a) PROVE NeedsRuntime'
  BY <1>3 DEF Initializing, InitializeSSL, StartThread, StartFails,
      UndoThread, UndoDone, Publish, NextToStart, NextToStop, At, Return,
      Goto, Home
<1>4. ASSUME NEW a \in Actors, Terminating(a) PROVE NeedsRuntime'
  BY <1>4 DEF Terminating, BeginStop, Quit, Join, ResetRuntime, CleanupSSL,
      NextToStop, At, Return, Goto, Home
<1>5. ASSUME NEW a \in Actors, OnThreads(a) PROVE NeedsRuntime'
  BY <1>5 DEF OnThreads, HopToWorker, CreateAdm, BuildFactory, FinishCreate,
      CountAudioDevices, Reply, Getters, Return, Goto, Home
<1>6. CASE Environment
  BY <1>6 DEF Environment, ReleaseFactory, AdmShutDown, BeginCallback,
      EndCallback, Goto
<1>7. CASE UNCHANGED vars
  BY <1>7 DEF vars
<1> QED
  BY ONLY [Next]_vars, <1>1, <1>2, <1>3, <1>4, <1>5, <1>6, <1>7 DEF Next, Progress

-----------------------------------------------------------------------------
(* The theorems *)

(* IndInv holds initially and every step preserves it. *)
THEOREM Invariance == Spec => []IndInv
<1>1. Init => IndInv
  <2> SUFFICES ASSUME Init PROVE IndInv
    OBVIOUS
  <2> USE LibraryAssumption DEF Init, Actors, Threads, Signaling, Worker, Network, Inside, Steady
  <2>1. TypeOK
    BY DEF TypeOK, Calls, Getters, Statuses, Positions
  <2>2. RuntimeWhole
    BY DEF RuntimeWhole, Whole
  <2>3. LockDiscipline /\ ThreadsNested /\ Phases /\ CallAt
    BY DEF LockDiscipline, ThreadsNested, Phases, CallAt
  <2>4. Served /\ NeedsRuntime
    BY DEF Served, NeedsRuntime
  <2> QED
    BY <2>1, <2>2, <2>3, <2>4 DEF IndInv
<1>2. IndInv /\ [Next]_vars => IndInv'
  BY TypePreserved, LockPreserved, WholePreserved, NestedPreserved, PhasesPreserved,
     CallAtPreserved, ServedPreserved, NeedsPreserved DEF IndInv
<1>3. QED
  BY <1>1, <1>2, PTL DEF Spec

(* No call of the library's process-wide part takes a variable out of its
   type: in particular CleanupSSL is never called more often than
   InitializeSSL. *)
THEOREM TypeCorrect == Spec => []TypeOK
  BY Invariance, PTL DEF IndInv

(* The bodies of rtc_initialize, rtc_terminate, rtc_factory_create and
   rtc_audio_device_count/info exclude one another on every thread. *)
THEOREM MutualExclusion == Spec => []LockDiscipline
  BY Invariance, PTL DEF IndInv

(* Whoever takes g_mutex finds all of the runtime or none of it, whichever
   step of an initialisation failed before. *)
THEOREM AllOrNothing == Spec => []RuntimeWhole
  BY Invariance, PTL DEF IndInv

(* rtc_initialize, its error path and rtc_terminate keep the order in which
   the threads depend on one another. *)
THEOREM DependencyOrder == Spec => []ThreadsNested
  BY Invariance, PTL DEF IndInv

(* SSL is cleaned up after the last thread of a published runtime. *)
THEOREM SslLast == Spec => []SslOutlivesThreads
<1>1. IndInv => SslOutlivesThreads
  <2> SUFFICES ASSUME IndInv PROVE SslOutlivesThreads
    OBVIOUS
  <2>1. ASSUME NEW a \in Actors, pc[a] = "cleanup" PROVE ssl = 1
    BY <2>1 DEF IndInv, Phases
  <2>2. ASSUME runtime, mutex = NoOwner PROVE ssl = 1
    BY <2>2 DEF IndInv, TypeOK, RuntimeWhole, Whole
  <2>3. ASSUME runtime, mutex # NoOwner PROVE ssl = 1
    <3>1. PICK a \in Actors : mutex = a /\ pc[a] \in Inside
      BY <2>3 DEF IndInv, TypeOK, LockDiscipline
    <3>2. pc[a] \in Steady \cup {"stop"}
      BY <2>3, <3>1 DEF IndInv, Phases, Inside, Steady
    <3> QED
      BY <2>3, <3>1, <3>2 DEF IndInv, TypeOK, RuntimeWhole, Whole, Phases
  <2> QED
    BY <2>1, <2>2, <2>3 DEF SslOutlivesThreads, At
<1>2. QED
  BY <1>1, Invariance, PTL

(* A thread that is asked to serve a BlockingCall is running, and runs until
   it has served it: the caller holds the mutex rtc_terminate needs. *)
THEOREM HopsAreServed == Spec => []CallsAreServed
<1>1. IndInv => CallsAreServed
  <2> SUFFICES ASSUME IndInv, NEW t \in Threads, serving[t] # NoOwner
               PROVE  thread[t] = "running"
    BY DEF CallsAreServed
  <2>1. PICK a \in Actors : serving[t] = a
    BY DEF IndInv, TypeOK
  <2>2. pc[a] \in {"on_worker", "on_signaling"}
    BY <2>1 DEF IndInv, Served, Threads, Signaling, Worker, Network
  <2>3. runtime /\ mutex = a
    BY <2>2 DEF IndInv, Phases, LockDiscipline, Inside
  <2> QED
    BY <2>2, <2>3 DEF IndInv, RuntimeWhole, Whole, Steady
<1>2. QED
  BY <1>1, Invariance, PTL

(* The thread a callback runs on is joined only after the callback. *)
THEOREM CallbackOnThread == Spec => []CallbackHasThread
<1>1. IndInv => CallbackHasThread
  BY DEF IndInv, NeedsRuntime, CallbackHasThread
<1>2. QED
  BY <1>1, Invariance, PTL

(* rtc_terminate and the undoing of rtc_initialize take everything down in the
   order of its dependencies. *)
THEOREM Teardown == Spec => []TeardownOrder
  BY DependencyOrder, SslLast, CallbackOnThread, PTL DEF TeardownOrder

-----------------------------------------------------------------------------
(* Refinement *)

(* The handles of Lifecycle. *)
H == {f \in Factories : factory[f] \in {"current", "orphan"}}

(* The step that decides a call's answer is the step of Lifecycle; every other
   step changes nothing a caller can see. *)
LEMMA StepRefines == IndInv /\ [Next]_vars => [Abstract!Next]_(Abstract!vars)
<1> SUFFICES ASSUME IndInv, [Next]_vars PROVE [Abstract!Next]_<<runtime, H, ret>>
  BY DEF Abstract!vars, H
<1> USE LibraryAssumption DEF IndInv, TypeOK
<1> DEFINE Same == UNCHANGED <<runtime, H, ret>>
           Refined == Abstract!Next \/ Same
<1>1. ASSUME NEW a \in Actors, CallStep(a) PROVE Refined
  <2>1. CASE CallInitialize(a) \/ CallTerminate(a)
    BY <2>1 DEF CallInitialize, CallTerminate, H
  <2>2. ASSUME NEW f \in Factories, CallCreate(a, f) PROVE Same
    BY <2>2 DEF CallCreate, H
  <2>3. ASSUME NEW f \in Factories, NEW c \in Getters, CallGetter(a, c, f) PROVE Refined
    <3>1. UNCHANGED <<runtime, H>> /\ f \in H
      BY <2>3 DEF CallGetter, H
    <3>2. CASE adm[f] = "none"
      <4>1. ret' = [ret EXCEPT ![a] = "INTERNAL"]
        BY <2>3, <3>2 DEF CallGetter
      <4>2. Abstract!Enumerate(a)
        BY <3>1, <4>1 DEF Abstract!Enumerate, Abstract!Answers, H
      <4> QED
        BY <4>2 DEF Abstract!Next
    <3>3. CASE adm[f] # "none"
      BY <2>3, <3>1, <3>3 DEF CallGetter
    <3> QED
      BY <3>2, <3>3
  <2> QED
    BY <1>1, <2>1, <2>2, <2>3 DEF CallStep
<1>2. ASSUME NEW a \in Actors, Acquire(a) PROVE Same
  BY <1>2 DEF Acquire, H
<1>3. ASSUME NEW a \in Actors, Reject(a) PROVE Abstract!Next
  <2>1. ret' = [ret EXCEPT ![a] = "INVALID_STATE"] /\ UNCHANGED runtime
    BY <1>3 DEF Reject, Return
  <2>2. UNCHANGED H
    BY <1>3 DEF Reject, H, CallAt, Steady
  <2>3. Abstract!Initialize(a) \/ Abstract!Terminate(a)
    BY <1>3, <2>1, <2>2
       DEF Reject, Abstract!Initialize, Abstract!Terminate, Abstract!Answers, H
  <2> QED
    BY <2>3 DEF Abstract!Next
<1>4. ASSUME NEW a \in Actors, Initializing(a) PROVE Refined
  <2>1. UNCHANGED H
    BY <1>4 DEF Initializing, InitializeSSL, StartThread, StartFails, UndoThread, UndoDone,
                Publish, H
  <2>2. CASE InitializeSSL(a) /\ pc'[a] = "start"
    BY <1>4, <2>1, <2>2 DEF InitializeSSL, Return, Goto, Home
  <2>3. CASE (InitializeSSL(a) /\ Return(a, "INTERNAL")) \/ UndoDone(a)
    <3>1. ~runtime /\ UNCHANGED runtime /\ ret' = [ret EXCEPT ![a] = "INTERNAL"]
      BY <2>3 DEF InitializeSSL, UndoDone, Return, Phases
    <3>2. Abstract!Initialize(a)
      BY <2>1, <3>1 DEF Abstract!Initialize, Abstract!Answers, H
    <3> QED
      BY <3>2 DEF Abstract!Next
  <2>4. CASE Publish(a)
    <3>1. ~runtime /\ runtime' = TRUE /\ ret' = [ret EXCEPT ![a] = "OK"]
      BY <2>4 DEF Publish, Return, Phases
    <3>2. Abstract!Initialize(a)
      BY <2>1, <3>1 DEF Abstract!Initialize, Abstract!Answers, H
    <3> QED
      BY <3>2 DEF Abstract!Next
  <2>5. CASE StartFails(a) \/ \E t \in Threads : StartThread(a, t) \/ UndoThread(a, t)
    BY <2>1, <2>5 DEF StartFails, StartThread, UndoThread
  <2> QED
    BY <1>4, <2>2, <2>3, <2>4, <2>5 DEF Initializing, InitializeSSL, Goto
<1>5. ASSUME NEW a \in Actors, Terminating(a) PROVE Refined
  <2>1. UNCHANGED H
    BY <1>5 DEF Terminating, BeginStop, Quit, Join, ResetRuntime, CleanupSSL, H
  <2>2. CASE ResetRuntime(a)
    <3>1. runtime /\ runtime' = FALSE /\ ret' = [ret EXCEPT ![a] = "OK"]
      BY <2>2 DEF ResetRuntime, Phases
    <3>2. Abstract!Terminate(a)
      BY <2>1, <3>1 DEF Abstract!Terminate, Abstract!Answers, H
    <3> QED
      BY <3>2 DEF Abstract!Next
  <2>3. CASE CleanupSSL(a)
    BY <2>1, <2>3 DEF CleanupSSL, Return, Phases
  <2>4. CASE BeginStop(a) \/ \E t \in Threads : Quit(a, t) \/ Join(a, t)
    BY <2>1, <2>4 DEF BeginStop, Quit, Join
  <2> QED
    BY <1>5, <2>2, <2>3, <2>4 DEF Terminating
<1>6. ASSUME NEW a \in Actors, OnThreads(a) PROVE Refined
  <2>1. CASE HopToWorker(a) \/ CreateAdm(a) \/ BuildFactory(a) \/ Reply(a)
    BY <2>1 DEF HopToWorker, CreateAdm, BuildFactory, Reply, Return, H
  <2>2. CASE FinishCreate(a)
    <3>1. PICK f \in Factories : f = arg[a]
      BY <1>6
    <3>2. runtime /\ UNCHANGED runtime /\ f \notin H
      BY <2>2, <3>1 DEF FinishCreate, Phases, CallAt, Steady, H
    <3>3. \/ H' = H \cup {f} /\ ret' = [ret EXCEPT ![a] = "OK"]
          \/ H' = H /\ ret' = [ret EXCEPT ![a] = "INTERNAL"]
      BY <2>2, <3>1, <3>2 DEF FinishCreate, Return, H
    <3>4. Abstract!CreateFactory(a, f)
      BY <3>2, <3>3 DEF Abstract!CreateFactory, Abstract!Answers, H
    <3> QED
      BY <3>4 DEF Abstract!Next
  <2>3. CASE CountAudioDevices(a)
    <3>1. runtime /\ UNCHANGED <<runtime, H>>
      BY <2>3 DEF CountAudioDevices, Phases, Served, H
    <3>2. \E r \in {"OK", "NOT_FOUND", "INTERNAL"} : ret' = [ret EXCEPT ![a] = r]
      BY <2>3 DEF CountAudioDevices
    <3>3. Abstract!Enumerate(a)
      BY <3>1, <3>2 DEF Abstract!Enumerate, Abstract!Answers, H
    <3> QED
      BY <3>3 DEF Abstract!Next
  <2> QED
    BY <1>6, <2>1, <2>2, <2>3 DEF OnThreads
<1>7. CASE Environment
  <2>1. ASSUME NEW f \in Factories, ReleaseFactory(f) PROVE Abstract!Next
    <3>1. f \in H /\ H' = H \ {f} /\ UNCHANGED <<runtime, ret>>
      BY <2>1 DEF ReleaseFactory, H
    <3>2. Abstract!ReleaseFactory(f)
      BY <3>1 DEF Abstract!ReleaseFactory, H
    <3> QED
      BY <3>2 DEF Abstract!Next
  <2>2. CASE BeginCallback \/ EndCallback \/ \E f \in Factories : AdmShutDown(f)
    BY <2>2 DEF BeginCallback, EndCallback, AdmShutDown, H
  <2> QED
    BY <1>7, <2>1, <2>2 DEF Environment
<1>8. CASE UNCHANGED vars
  BY <1>8 DEF vars, H
<1> QED
  BY ONLY [Next]_vars, <1>1, <1>2, <1>3, <1>4, <1>5, <1>6, <1>7, <1>8 DEF Next, Progress

(* Every call takes effect at one instant and answers from what the library
   is then: the model implements Lifecycle. *)
THEOREM Refinement == Spec => ImplementsLifecycle
<1>1. Init => Abstract!Init
  BY DEF Init, Abstract!Init
<1>2. IndInv /\ [Next]_vars => [Abstract!Next]_(Abstract!vars)
  BY StepRefines
<1>3. QED
  BY <1>1, <1>2, Invariance, PTL DEF Spec, Abstract!Spec, ImplementsLifecycle

-----------------------------------------------------------------------------
(* Who may wait for whom *)

(* Callbacks only enumerate devices, and run on behalf of a factory. *)
CallbackInv ==
    /\ op[Signaling] \in {"init"} \cup Getters
    /\ pc[Signaling] # "idle" => \E f \in Factories : factory[f] = "current"

(* A disciplined application has neither a handle nor a creation under way
   while it terminates. *)
DisciplineInv ==
    Disciplined =>
        \A a \in Actors : op[a] = "term" /\ pc[a] # "idle" =>
            Held = {} /\ \A b \in Actors : op[b] = "create" => pc[b] = "idle"

(* What is served on the worker thread. *)
HopInv == \A a \in Actors : pc[a] = "on_worker" => op[a] \in {"create"} \cup Getters

WaitInv == CallbackInv /\ DisciplineInv /\ HopInv

(* All three hold whatever step comes next. *)

LEMMA WaitInvStep == IndInv /\ WaitInv /\ [Next]_vars => WaitInv'
<1> SUFFICES ASSUME IndInv, WaitInv, [Next]_vars PROVE WaitInv'
  OBVIOUS
<1> USE LibraryAssumption DEF IndInv, TypeOK, WaitInv, CallbackInv, DisciplineInv, HopInv,
    Signaling, Actors, Getters, Held
<1>1. ASSUME NEW a \in Actors, CallStep(a) PROVE WaitInv'
  <2>1. CASE CallInitialize(a)
    BY <2>1 DEF CallInitialize, Enter, Goto, Threads
  <2>2. CASE CallTerminate(a)
    BY <2>2 DEF CallTerminate, MayTerminate, Enter, Goto, Threads
  <2>3. ASSUME NEW f \in Factories, CallCreate(a, f) PROVE WaitInv'
    BY <2>3 DEF CallCreate, MayCreate, Enter, Goto, Threads
  <2>4. ASSUME NEW f \in Factories, NEW c \in Getters, CallGetter(a, c, f) PROVE WaitInv'
    BY <2>4 DEF CallGetter, Enter, Goto, Threads
  <2> QED
    BY <1>1, <2>1, <2>2, <2>3, <2>4 DEF CallStep
<1>2. ASSUME NEW a \in Actors, Acquire(a) PROVE WaitInv'
  BY <1>2 DEF Acquire, Goto
<1>3. ASSUME NEW a \in Actors, Reject(a) PROVE WaitInv'
  BY <1>3 DEF Reject, Return, Goto, Home, CallAt, Steady
<1>4. ASSUME NEW a \in Actors, Initializing(a) PROVE WaitInv'
  BY <1>4 DEF Initializing, InitializeSSL, StartThread, StartFails, UndoThread, UndoDone,
      Publish, At, Return, Goto, Home
<1>5. ASSUME NEW a \in Actors, Terminating(a) PROVE WaitInv'
  <2>1. CASE ResetRuntime(a)
    <3>1. pc[Signaling] = "idle"
      BY <2>1 DEF ResetRuntime, NeedsRuntime, Threads
    <3> QED
      BY <2>1, <3>1 DEF ResetRuntime, Goto, CallAt
  <2>2. CASE BeginStop(a) \/ CleanupSSL(a) \/ \E t \in Threads : Quit(a, t) \/ Join(a, t)
    BY <2>2 DEF BeginStop, CleanupSSL, Quit, Join, At, Return, Goto, Home
  <2> QED
    BY <1>5, <2>1, <2>2 DEF Terminating
<1>6. ASSUME NEW a \in Actors, OnThreads(a) PROVE WaitInv'
  <2>1. CASE HopToWorker(a) \/ CreateAdm(a) \/ BuildFactory(a)
    BY <2>1 DEF HopToWorker, CreateAdm, BuildFactory, Served, CallAt, Goto
  <2>2. CASE FinishCreate(a)
    <3>1. /\ pc' = [pc EXCEPT ![a] = Home(a)] /\ UNCHANGED op
          /\ \A f \in Factories : factory[f] = "current" => factory'[f] = "current"
      BY <2>2 DEF FinishCreate, CallAt, Steady, Return, Goto
    <3>2. op[a] = "create" /\ pc[a] = "alloc"
      BY <2>2 DEF FinishCreate, CallAt
    <3>3. CallbackInv'
      BY <3>1, <3>2
    <3>4. Disciplined => \A b \in Actors : op[b] = "term" => pc[b] = "idle"
      BY <3>2
    <3>5. DisciplineInv'
      BY <3>1, <3>2, <3>4
    <3>6. HopInv'
      BY <3>1 DEF Home
    <3> QED
      BY <3>3, <3>5, <3>6
  <2>3. CASE CountAudioDevices(a) \/ Reply(a)
    BY <2>3 DEF CountAudioDevices, Reply, Served, Return, Goto, Home
  <2> QED
    BY <1>6, <2>1, <2>2, <2>3 DEF OnThreads
<1>7. CASE Environment
  <2>1. ASSUME NEW f \in Factories, ReleaseFactory(f) PROVE WaitInv'
    BY <2>1 DEF ReleaseFactory
  <2>2. CASE BeginCallback \/ EndCallback \/ \E f \in Factories : AdmShutDown(f)
    BY <2>2 DEF BeginCallback, EndCallback, AdmShutDown, Goto
  <2> QED
    BY <1>7, <2>1, <2>2 DEF Environment
<1>8. CASE UNCHANGED vars
  BY <1>8 DEF vars
<1> QED
  BY ONLY [Next]_vars, <1>1, <1>2, <1>3, <1>4, <1>5, <1>6, <1>7, <1>8 DEF Next, Progress

(* They hold of every behaviour. *)
LEMMA WaitInvariance == Spec => []WaitInv
<1>1. Init => WaitInv
  BY LibraryAssumption DEF Init, WaitInv, CallbackInv, DisciplineInv, HopInv, Actors, Signaling
<1> QED
  BY <1>1, WaitInvStep, Invariance, PTL DEF Spec

(* What it takes for a callback and the holder of g_mutex to wait for each
   other: a factory that exists, and another that is being created or an
   rtc_terminate that did not wait for the first to be released. *)
WaitNeeds(a) ==
    \E f \in Factories :
        /\ factory[f] = "current"
        /\ \/ op[a] = "create" /\ arg[a] # f /\ factory[arg[a]] = "reserved"
           \/ op[a] = "term" /\ ~Disciplined

(* A circle of waiting has such a cause. *)
LEMMA WaitNeedsMore ==
    ASSUME IndInv, WaitInv, NEW a \in Clients, CircularWait(a)
    PROVE  WaitNeeds(a)
<1>1. PICK f \in Factories : factory[f] = "current"
  BY DEF CircularWait, WaitInv, CallbackInv
<1>2. CASE pc[a] = "on_signaling"
  <2>1. a \in Actors /\ op[a] = "create" /\ factory[arg[a]] = "reserved" /\ arg[a] \in Factories
    BY <1>2 DEF IndInv, TypeOK, CallAt, Actors, Steady
  <2> QED
    BY <1>1, <2>1 DEF WaitNeeds
<1>3. CASE pc[a] = "stop"
  <2>1. a \in Actors /\ op[a] = "term"
    BY <1>3 DEF IndInv, CallAt, Actors
  <2>2. ~Disciplined
    BY <1>1, <1>3, <2>1 DEF WaitInv, DisciplineInv, Held
  <2> QED
    BY <1>1, <2>1, <2>2 DEF WaitNeeds
<1> QED
  BY <1>2, <1>3 DEF CircularWait

(* Each of these waits has its cause: no callback waits for a holder of g_mutex
   that waits for it unless there is a second factory, or a termination with
   the first still alive. *)
THEOREM WaitExplained == Spec => [](\A a \in Clients : CircularWait(a) => WaitNeeds(a))
<1>1. IndInv /\ WaitInv => \A a \in Clients : CircularWait(a) => WaitNeeds(a)
  BY WaitNeedsMore
<1> QED
  BY <1>1, Invariance, WaitInvariance, PTL

(* So an application with one factory at a time, which releases it before it
   terminates, may enumerate devices in its callbacks. *)
THEOREM OneFactoryIsSafe ==
    ASSUME Disciplined, \A f, g \in Factories : f = g
    PROVE  Spec => []NoCircularWait
<1>1. IndInv /\ WaitInv => NoCircularWait
  <2> SUFFICES ASSUME IndInv, WaitInv, NEW a \in Clients, CircularWait(a) PROVE FALSE
    BY DEF NoCircularWait
  <2>1. arg[a] \in Factories
    BY DEF IndInv, TypeOK, Actors
  <2> QED
    BY <2>1, WaitNeedsMore DEF WaitNeeds
<1> QED
  BY <1>1, Invariance, WaitInvariance, PTL

(* And where there is a second one the wait is for ever: no step of any thread
   ends it, whatever the scheduler does. *)
THEOREM WaitsForEver ==
    ASSUME NEW a \in Clients
    PROVE  Spec => [](CircularWait(a) => []CircularWait(a))
<1>1. IndInv /\ CircularWait(a) /\ [Next]_vars => CircularWait(a)'
  <2> SUFFICES ASSUME IndInv, CircularWait(a), [Next]_vars PROVE CircularWait(a)'
    OBVIOUS
  <2> USE LibraryAssumption DEF IndInv, TypeOK, CircularWait, LockDiscipline, Served,
      Threads, Signaling, Worker, Network, Actors, Inside
  <2>1. ASSUME NEW b \in Actors, CallStep(b) PROVE CircularWait(a)'
    BY <2>1 DEF CallStep, CallInitialize, CallTerminate, CallCreate, CallGetter, Enter, Goto
  <2>2. ASSUME NEW b \in Actors, Acquire(b) \/ Reject(b) PROVE CircularWait(a)'
    BY <2>2 DEF Acquire, Reject, Return, Goto, Home
  <2>3. ASSUME NEW b \in Actors, Initializing(b) PROVE CircularWait(a)'
    BY <2>3 DEF Initializing, InitializeSSL, StartThread, StartFails, UndoThread, UndoDone,
        Publish, At, Return, Goto, Home
  <2>4. ASSUME NEW b \in Actors, Terminating(b) PROVE CircularWait(a)'
    BY <2>4 DEF Terminating, BeginStop, Quit, Join, ResetRuntime, CleanupSSL, NextToStop,
        At, Return, Goto, Home
  <2>5. ASSUME NEW b \in Actors, OnThreads(b) PROVE CircularWait(a)'
    BY <2>5 DEF OnThreads, HopToWorker, CreateAdm, BuildFactory, FinishCreate,
        CountAudioDevices, Reply, Return, Goto, Home
  <2>6. CASE Environment
    BY <2>6 DEF Environment, ReleaseFactory, AdmShutDown, BeginCallback, EndCallback, Goto
  <2>7. CASE UNCHANGED vars
    BY <2>7 DEF vars
  <2> QED
    BY ONLY [Next]_vars, <2>1, <2>2, <2>3, <2>4, <2>5, <2>6, <2>7 DEF Next, Progress
<1> QED
  BY <1>1, Invariance, PTL DEF Spec

-----------------------------------------------------------------------------
(* How g_mutex is let go again: what of LockIsReleased is not fairness *)

(* A step that is not the holder's leaves its position and the threads alone. *)
LEMMA OthersWait ==
    ASSUME IndInv, [Next]_vars, NEW a \in Actors, mutex = a, ~Progress(a)
    PROVE  pc'[a] = pc[a] /\ thread' = thread
<1> USE LibraryAssumption DEF IndInv, TypeOK, LockDiscipline, Actors, Inside, Served,
      Threads, Worker, Signaling, Network
<1>1. ASSUME NEW b \in Actors, CallStep(b) PROVE pc'[a] = pc[a] /\ thread' = thread
  BY <1>1 DEF CallStep, CallInitialize, CallTerminate, CallCreate, CallGetter, Enter, Goto
<1>2. ASSUME NEW b \in Actors, Acquire(b) PROVE FALSE
  BY <1>2 DEF Acquire
<1>3. ASSUME NEW b \in Actors \ {a}, Progress(b) PROVE FALSE
  <2>1. pc[b] \notin Inside
    BY <1>3
  <2> QED
    BY <2>1, <1>3 DEF Progress, Reject, Initializing, InitializeSSL, StartThread, StartFails,
      UndoThread, UndoDone, Publish, Terminating, BeginStop, Quit, Join, ResetRuntime,
      CleanupSSL, OnThreads, HopToWorker, CreateAdm, BuildFactory, FinishCreate,
      CountAudioDevices, Reply, At
<1>4. CASE Environment
  BY <1>4 DEF Environment, ReleaseFactory, AdmShutDown, BeginCallback, EndCallback, Goto
<1>5. CASE UNCHANGED vars
  BY <1>5 DEF vars
<1> QED
  BY ONLY [Next]_vars, ~Progress(a), <1>1, <1>2, <1>3, <1>4, <1>5 DEF Next

(* A step of the holder that does not let the mutex go brings it nearer. *)
LEMMA GetsOn ==
    ASSUME IndInv, NEW a \in Actors, mutex = a, mutex' = a, Progress(a)
    PROVE  Left(a)' < Left(a)
<1> USE LibraryAssumption DEF IndInv, TypeOK, Actors, Threads, Worker, Signaling, Network,
    Positions, Inside
<1>0. a # NoOwner
  OBVIOUS
<1>1. /\ ~Reject(a) /\ ~UndoDone(a) /\ ~Publish(a)
      /\ ~CleanupSSL(a) /\ ~FinishCreate(a) /\ ~Reply(a)
  BY <1>0 DEF Reject, UndoDone, Publish, CleanupSSL, FinishCreate, Reply, Return
<1>2. CASE InitializeSSL(a)
  BY <1>0, <1>2 DEF InitializeSSL, At, Return, Goto, Left, Exists
<1>3. ASSUME NEW t \in Threads, StartThread(a, t) PROVE Left(a)' < Left(a)
  BY <1>3 DEF StartThread, NextToStart, Left, Exists
<1>4. CASE StartFails(a)
  BY <1>4 DEF StartFails, Goto, Left, Exists
<1>5. ASSUME NEW t \in Threads, UndoThread(a, t) PROVE Left(a)' < Left(a)
  BY <1>5 DEF UndoThread, NextToStop, Left, Exists
<1>6. CASE BeginStop(a)
  BY <1>6 DEF BeginStop, At, Goto, Left, ToStop, Exists
<1>7. ASSUME NEW t \in Threads, Quit(a, t) \/ Join(a, t) PROVE Left(a)' < Left(a)
  BY <1>7 DEF Quit, Join, NextToStop, Left, ToStop, Exists
<1>8. CASE ResetRuntime(a)
  BY <1>8 DEF ResetRuntime, Goto, Left, ToStop, Exists
<1>9. CASE HopToWorker(a)
  BY <1>9 DEF HopToWorker, Goto, Left
<1>10. CASE CreateAdm(a) \/ BuildFactory(a) \/ CountAudioDevices(a)
  BY <1>10 DEF CreateAdm, BuildFactory, CountAudioDevices, Served, Goto, Left
<1> QED
  BY ONLY Progress(a), <1>1, <1>2, <1>3, <1>4, <1>5, <1>6, <1>7, <1>8, <1>9, <1>10
     DEF Progress, Initializing, Terminating, OnThreads

(* A call that holds g_mutex is at most nine steps of its own from letting it
   go, for any number of threads that wait for it meanwhile. *)
THEOREM BoundedHold == Spec => HolderGetsOn
<1>1. IndInv /\ [Next]_vars =>
        [\A a \in Actors : mutex = a /\ mutex' = a =>
          /\ Left(a)' <= Left(a)
          /\ Progress(a) => Left(a)' < Left(a)]_vars
  <2> SUFFICES ASSUME IndInv, [Next]_vars, NEW a \in Actors, mutex = a, mutex' = a
               PROVE  /\ Left(a)' <= Left(a)
                      /\ Progress(a) => Left(a)' < Left(a)
    OBVIOUS
  <2>0. Left(a) \in Int /\ Left(a)' \in Int
    BY DEF Left, ToStop, Exists
  <2>1. CASE Progress(a)
    BY <2>0, <2>1, GetsOn
  <2>2. CASE ~Progress(a)
    <3>1. pc'[a] = pc[a] /\ thread' = thread
      BY <2>2, OthersWait
    <3>2. Left(a)' = Left(a)
      BY <3>1 DEF Left, ToStop, Exists
    <3> QED
      BY <2>0, <2>2, <3>2
  <2> QED
    BY <2>1, <2>2
<1> QED
  BY <1>1, Invariance, PTL DEF Spec, HolderGetsOn

(* What the holder's next step needs is there: the worker is up and free for
   its hop, or serves it already; a thread is next to be stopped, or none is
   left; the signalling thread is between two callbacks. *)
CanProceed(a) ==
    \/ pc[a] = "check" /\ (runtime /\ op[a] \in {"create"} \cup Getters =>
                              thread[Worker] = "running" /\ serving[Worker] = NoOwner)
    \/ pc[a] = "start" /\ (\/ \E t \in Threads : thread[t] = "absent"
                           \/ \A t \in Threads : thread[t] = "running")
    \/ pc[a] = "undo" /\ (\/ \A t \in Threads : thread[t] = "absent"
                          \/ \E t \in Threads : NextToStop(t))
    \/ pc[a] = "stop" /\ (\/ \A t \in Threads : thread[t] = "absent"
                          \/ \E t \in Threads : /\ NextToStop(t)
                                                /\ \/ thread[t] = "running"
                                                   \/ t = Signaling => pc[t] = "idle")
    \/ pc[a] = "on_worker" /\ serving[Worker] = a /\ op[a] \in {"create"} \cup Getters
    \/ pc[a] = "on_signaling" /\ serving[Signaling] = a /\ pc[Signaling] = "idle"
    \/ pc[a] \in {"alloc", "reply", "cleanup"}

(* The holder of g_mutex never waits but for a callback to end; and a callback
   that has not ended runs, or waits for that very mutex. *)
THEOREM HolderProceeds ==
    Spec => [](\A a \in Actors : mutex = a =>
                  CanProceed(a) \/ pc[Signaling] = "handler" \/ CircularWait(a))
<1>1. IndInv /\ WaitInv => \A a \in Actors : mutex = a =>
                  CanProceed(a) \/ pc[Signaling] = "handler" \/ CircularWait(a)
  <2> SUFFICES ASSUME IndInv, WaitInv, NEW a \in Actors, mutex = a,
                      pc[Signaling] # "handler", ~CircularWait(a)
               PROVE  CanProceed(a)
    OBVIOUS
  <2> USE LibraryAssumption DEF IndInv, TypeOK, Actors, Threads, Signaling, Worker, Network
  <2>1. pc[a] \in Inside /\ a # NoOwner
    BY DEF LockDiscipline
  <2>2. pc[Signaling] \in {"idle", "lock"} \/ a = Signaling
    BY DEF LockDiscipline, Positions
  <2>3. CASE pc[a] = "check"
    <3>1. runtime => thread[Worker] = "running"
      BY <2>3 DEF RuntimeWhole, Whole, Steady
    <3>2. serving[Worker] = NoOwner
      BY <2>3 DEF Served, LockDiscipline, Inside
    <3> QED
      BY <2>3, <3>1, <3>2 DEF CanProceed
  <2>4. CASE pc[a] = "start" \/ pc[a] = "undo"
    BY <2>4 DEF Phases, CanProceed, NextToStop, ThreadsNested
  <2>5. CASE pc[a] = "stop"
    <3>1. a # Signaling /\ pc[Signaling] \in {"idle", "lock"}
      BY <2>2, <2>5 DEF CallAt, WaitInv, CallbackInv, Getters
    <3>2. pc[Signaling] = "lock" => thread[Signaling] = "running"
      BY <2>5, <3>1 DEF CircularWait, NeedsRuntime
    <3>3. CASE thread[Signaling] # "absent"
      BY <2>5, <3>1, <3>2, <3>3 DEF CanProceed, NextToStop
    <3>4. CASE thread[Signaling] = "absent"
      BY <2>5, <3>4 DEF CanProceed, NextToStop
    <3> QED
      BY <3>3, <3>4
  <2>6. CASE pc[a] = "on_worker"
    BY <2>6 DEF CanProceed, Served, WaitInv, HopInv
  <2>7. CASE pc[a] = "on_signaling"
    <3>1. a # Signaling /\ pc[Signaling] \in {"idle", "lock"}
      BY <2>2, <2>7 DEF CallAt, WaitInv, CallbackInv, Getters
    <3> QED
      BY <2>7, <3>1 DEF CanProceed, Served, CircularWait
  <2>8. CASE pc[a] \in {"alloc", "reply", "cleanup"}
    BY <2>8 DEF CanProceed
  <2> QED
    BY <2>1, <2>3, <2>4, <2>5, <2>6, <2>7, <2>8 DEF Inside
<1> QED
  BY <1>1, Invariance, WaitInvariance, PTL
=============================================================================
