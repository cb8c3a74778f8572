# A TLA+ verification of WebRtcInterop

WebRtcInterop is a C ABI over libwebrtc: some 3,600 lines of C++ that turn
libwebrtc's reference-counted, multi-threaded C++ objects into plain handles,
status codes and callbacks.  It has almost no data structures.  What can go
wrong in it is *when* things happen: which thread runs a call, which object is
still there when a callback arrives, who frees what after a call failed half
way, who waits for whom.  These modules model that.

All paths are relative to the repository (`src/` is its root here);
`Interop.cc`, `PeerConnection.cc`, `DataChannel.cc`, `DesktopCapture.cc`,
`FrameSink.cc` and `Internal.h` are under `WebRtcInterop/src/`, `Interop.h` is
under `WebRtcInterop/include/`, and "wiki" is `wiki/Interop-ABI.md`.
`PROJECT.json` holds the machine-readable side: components, runs, mutants,
hazards, findings, theorems and, under `map`, the source lines every definition
stands for.

Contents: [1 The system](#1-the-system) - [2 Modules](#2-modules) -
[3 Correspondence](#3-how-the-modules-correspond-to-the-code) -
[4 Runs](#4-runs-bounds-and-what-they-show) -
[5 Fairness and deadlock](#5-fairness-and-deadlock) -
[6 Proofs](#6-proofs) - [7 Findings](#7-findings) -
[8 What is not modelled](#8-what-is-not-modelled) - [9 Plan](#9-plan)

## 1 The system

### Threads

Every interaction below is between these:

| thread | who makes it | what it runs |
|---|---|---|
| application threads | the caller | every ABI call |
| network, worker, signalling | `rtc_initialize` | libwebrtc; the signalling thread also runs **every** callback of a peer connection, a data channel and a request |
| capture thread, one per desktop track | `DesktopSource::Create` | capturer creation, use and destruction; frames |
| decode and camera threads | libwebrtc | frames, through `CameraSource::OnFrame` or directly, into sinks |

An ABI call on a proxied object is a *hop*: it posts to the signalling (or
worker) thread and waits.  A hop therefore waits for the callback that thread
is running, and a call made *inside* a callback is already on that thread.

### Components

**Library runtime** (`Interop.cc` 273-449 and the audio enumeration at
495-577).  State: `g_mutex`, `g_runtime` (three threads), the SSL
initialisation, and per factory handle its audio device module.  Operations:
`rtc_initialize`, `rtc_terminate`, `rtc_factory_create`/`_release`,
`rtc_audio_device_count`/`_info`.  Interaction: all but release hold `g_mutex`
from beginning to end, while they start or join threads and hop to them; a
callback on the signalling thread may call the getters.  Hard: failure half way
through the three `Start()`s; terminating under a running callback; a hop to a
thread that is being stopped; waiting for a thread that waits for the mutex.
Correct when: the runtime is all there or not at all for whoever holds the
mutex; threads are nested in dependency order; SSL outlives them; every hop is
served; every call looks atomic; the mutex is always released.

**Desktop capture** (`DesktopCapture.cc`).  State: `running_`, `started_`,
`thread_`, the loop's deadline, and who holds references on the source and on
the track over it.  Operations: `rtc_desktop_source_count`/`_info`,
`rtc_desktop_track_create`, the thread's `Run`, `rtc_media_track_release`,
adding to and removing from senders.  Hard: a one-second poll racing a late
capturer; a thread that owns a reference to the object that joins it; failure
after the thread has started; captures that overrun their period.  Correct when:
a creation refused with `RTC_ERR_NOT_FOUND` leaves nothing behind; no thread
joins itself; capture lasts as long
as somebody holds the track, and no longer; frames keep to their schedule.

**Camera tracks** (`CameraSource` and `rtc_video_track_create`, `Interop.cc`
71-261 and 642-683).  State: the device, the module's callback pointer, the
references on the source.  Operations: creation, frames, adding to and removing
from senders, release.  Hard: the module calls `OnFrame` on its own thread from
before `StartCapture` has returned until the callback is deregistered, and any
later step of the creation may fail.  Correct when: no frame enters a freed
source; the camera is open exactly as long as somebody holds the track.

**Device enumeration** (`rtc_video_device_count`/`_info`, `Interop.cc` 417-474,
and the desktop sources).  Nothing is kept between two calls: an index into one
list is used on the next.  Correct when: a walk over a list that stays as it
was is exact, and no string is lost when a copy fails.

**Frame sinks** (`FrameSink.cc`, `rtc_media_track` in `Internal.h`).  State:
one sink slot per handle; the broadcaster's registrations.  Operations: add,
remove, release (which removes).  Interaction: several handles may name one
track, and its broadcaster delivers on its own thread.  Correct when: no frame
reaches a freed sink; each sink is owned once; one registration per handle.

**Data channels** (`DataChannel.cc`, `OnDataChannel` and
`rtc_peer_connection_create_data_channel`).  State: the observer slot; the
channel's state, its buffer, and the notifications on their way.  Operations:
create, arrive, set_observer (new or null), send, close, release.  Hard: the
channel outlives its handle; the observer is exchanged while notifications are
queued for it; calls made inside `on_data_channel`; `OnStateChange` reads the
state of *now*.  Correct when: no freed observer is called, none leaks, and
nothing is missed after registration; a call that waits for callbacks returns.

**Peer connections and their requests** (`PeerConnection.cc` 74-425, 1009-1200).
State: handle, observer and libwebrtc's object, destroyed in an order that
matters; one reference-counted completion object per create_offer,
create_answer, set_*_description and get_stats.  Hard: an answer may come
before the call that asked has returned, or after the connection was released.
Correct when: no freed observer or completion object is called; each accepted
request answers once and each refused one never.

**Senders' parameters** (`PeerConnection.cc` 602-780).  State: libwebrtc's
encodings and its "latest transaction"; the strings handed to the caller.
Operations: `rtc_rtp_sender_get_parameters`, `_set_parameters`.  Hard: get and
set are two hops with nothing held in between, libwebrtc rejects a set whose get
is not the latest; layers go in negotiations; allocation fails in the middle of
an array, or between two strings of an element; a transceiver is stopped.
Correct when: a set is exact, or changes nothing and tells whether it is about the
values; every string is owned once.

**Transceivers** (`PeerConnection.cc` 564-690, 782-795, 847-1124).  State:
libwebrtc's list of transceivers; the callers' handles, which are views onto it.
Operations: `rtc_peer_connection_add_track`, `_add_transceiver`,
`_remove_track`, `_get_transceivers`, `rtc_rtp_sender_replace_track` and the
calls on a transceiver.  Hard: a list is counted in one call and fetched in the
next while a negotiation changes it; the handle of one element of several cannot
be allocated; an add succeeds and its handle cannot be.  Correct when: a listing
is the list of one moment; every handle is the caller's or freed.

**ICE servers** (`PeerConnection.cc` 330-368).  A comma-separated list of URLs is
split by an index that may run one past the end.  Correct when: every URL gets
through, and nothing else.

**Audio track creation and getters, the branch-resolution script, build tools**:
listed in `PROJECT.json` with the reason they are left out (section 8).

### Hazards

`PROJECT.json` lists 40, each at its line, with the properties that would catch
it or the reason none does.  They fall into six groups: the mutex against hops
and callbacks; lifetime of what is called back (sinks, sources, observers,
completion objects) against removal and release; references that cross threads
(camera and desktop capture); partial failure of a multi-step call; values read
in one step and used in another (lists, parameters, states); and boundaries of
an index or a deadline.

## 2 Modules

| module | what it is |
|---|---|
| `Lifecycle` | **abstract**: each library call takes effect at one instant |
| `Library`, `MCLibrary`, `LibraryProofs` | the locked, thread-hopping calls; implements `Lifecycle` |
| `Subscription` | **abstract**: a callback object is called only between registration and removal, and removal waits for the call in progress |
| `VideoTrack` | handles, sinks and frame delivery of one track |
| `CameraTrack`, `MCVideoTrack`, `CameraTrackProofs` | extends `VideoTrack` with where the track comes from: a camera's source, its creation, holders and end, or a remote peer; implements `Subscription` |
| `DataChannel`, `MCDataChannel`, `DataChannelProofs` | one channel, its handle and observers; implements `Subscription` |
| `OneShot` | **abstract**: an accepted request answers exactly as asked, once; a refused one never |
| `PeerConnection`, `PeerConnectionProofs` | connection life and requests; implements `OneShot` |
| `IceServers`, `MCPeerConnection` | extends `PeerConnection` with the configuration a connection is created with: the splitting of the URL lists |
| `Transceivers`, `MCTransceivers`, `TransceiversProofs` | the list of transceivers, its negotiation, and the handles onto it |
| `DesktopTrack`, `DesktopTrackProofs` | one desktop track per creation: threads and references |
| `Enumeration` | a walk over a list of devices that come and go |
| `DesktopCapture`, `MCDesktopTrack`, `DesktopCaptureProofs` | extends `DesktopTrack` and `Enumeration`: a track is created for a source of the walk, captured at a pace; implements `DesktopTrack` |
| `Sender`, `MCSender`, `SenderProofs` | get/set of parameters by several threads on one sender |

`Subscription` is stated once and implemented twice, by a broadcaster with a
lock and by a channel with a queue: the two mechanisms make the same promise in
`FrameSink.cc:130-131` and `DataChannel.cc:86-88`.

Components that share state are composed: the camera's source calls the sinks
of the track over it, and the walk over the sources gives the id that a desktop
track is created for.  The rest is not composed into one module: what they share is only "the signalling
thread does one thing at a time", which each states itself (`pc[Signaling]` in
`Library`, `called`/`inside` in `DataChannel`, `raising`/`answering` in
`PeerConnection`).  `Library` contributes the fact that this thread exists while
handles do.

Definitions whose comment begins with "Mutant:" are plausible bugs.  No
specification uses them; each replaces the definition below it to confirm that
the property it is paired with in `PROJECT.json` would notice.

## 3 How the modules correspond to the code

What libwebrtc does is modelled only as the shim uses it, and every such part
is marked `external` in `map`.

### Library

`pc[a]` is where thread `a` is in a call: `lock` before the `lock_guard`,
`check` at the test of `g_runtime`, then one position per step.  The signalling
thread is an actor too: `handler` while it runs a callback, `idle` otherwise.
`thread` is `absent`, `running`, or `quitting` between `Quit()` and the join.

| code | actions |
|---|---|
| `rtc_initialize` | `CallInitialize`, `Acquire`, `Reject` or `InitializeSSL`, `StartThread` x3 then `Publish`, or `StartFails`, `UndoThread`*, `UndoDone` (the locals' destructors stop the threads already started, *after* `CleanupSSL`) |
| `rtc_terminate` | `CallTerminate`, `Acquire`, `Reject` or `BeginStop`, (`Quit`, `Join`) x3 in reverse order, `ResetRuntime`, `CleanupSSL` |
| `rtc_factory_create` | `CallCreate`, `Acquire`, `Reject` or `HopToWorker`, `CreateAdm`, `BuildFactory`, `FinishCreate` (either outcome) |
| `rtc_audio_device_count`/`_info` | `CallGetter` (returns at once without a device module), `Acquire`, `Reject` or `HopToWorker`, `CountAudioDevices`, `Reply` |
| `rtc_factory_release` | `ReleaseFactory`: no lock |
| the engine | `AdmShutDown`, `BeginCallback`, `EndCallback` |

`Disciplined` is the contract "release everything before `rtc_terminate`": the
safety run sets it to FALSE, so that safety does not rest on the caller's
obedience.  In refinement, `runtime` is `up` and a factory handle exists
from the step in which its creation answers `RTC_OK`.

### DesktopTrack

One element of `Sources` per call of `rtc_desktop_track_create`.  `refs` and
`owners` are reference counts written as the set of holders, so "who drops the
last reference, and on which thread" can be asked.  `Destroyed` is
`~DesktopSource` followed by `~thread`: it distinguishes an orderly end from a
thread that joins itself and from `std::terminate`.  `Poll` is one turn of the
100 x 10 ms loop; `Decide` is the second read of `started_`; `Join` is `Stop()`
waiting for `Run` to return.

### DesktopCapture and Enumeration

`PacedFrame` is a whole round of the loop in `DesktopSource::Run`: it takes
`CaptureFrame` of `DesktopTrack` and adds the time.  Time is relative: `late` is
by how much a capture started behind the deadline `next`, and the round's length
`d` and the lateness `j` of its sleep give the next one (`NextLate` is 198-202,
`Gap` the distance between the two captures).  `early` and `behind` are history:
the most by which frames have come too soon, and quick captures too late, after
*any* earlier frame.  `SelectWanted` makes `DesktopTrack`'s nondeterministic
selection depend on whether the id is still in the system's list.

In `Enumeration` the caller counts, asks for index 0, 1, ... and stops at an
error.  A desktop call reads the list once; a camera's reads it for the range
check and again for the name (`AskDevice`, `NameDevice`), and the list may change
between the two.  Then `CopyString` is one call of `DuplicateString`, for a
camera's name and its id or a source's title, each of which may fail by itself:
`copies` are the locals that are not null.  `EndCopies` hands all of them out, or
frees those there are (`Freed`).  `heap` is which strings are allocated, each
known by the place of its device in the walk and its name; `moved` records that
the list changed since the count.

### VideoTrack

`pc[h]` is where the one call in progress on handle `h` is.  The order inside
`rtc_video_track_add_sink` (allocate, `AddOrUpdateSink`, then store) and inside
`_remove_sink` (`RemoveSink`, then reset) is kept.  The broadcaster holds its lock
(`locked`) over one frame's delivery to all sinks, and add/remove take the same
lock.  A handle is used by one thread at a time; different handles are free.

### CameraTrack

The references on `CameraSource` are the set `holders`: the creating call, each
handle and a sender; the last one out runs `~CameraSource` (`ending`) on its own
thread.  `camera`, `callback` and `delivery` are the capture module: a device
that was started delivers frames to the callback it has, under a lock
(`ModuleFree`) that registering and deregistering take too.  From the call of
`StartCapture` on a frame may be anywhere in `OnFrame`, also when the device is
then reported as not starting (`Refuse`).  `Undo` is either failure after that.
A frame that is not dropped goes through `VideoTrack`'s broadcaster
(`ForwardFrame` ... `EndForward`).  A handle's reference on the track is
given up (`ReleaseTrack`) after its sink was removed and freed (`Destroy`): the
order of the members of `rtc_media_track`.

### DataChannel

One handle onto one channel.  `queue` holds notifications on their way to the
signalling thread, each addressed to the observer registered when it arose.
`inside` says that `on_data_channel` is running with this handle: then the
calls run on the signalling thread and do not wait for it.  `known[o]` is the
state in which `o` was registered, or that it was last told.  Because
`OnStateChange` reads the current state (`DataChannel.cc:52`), an observer may be
told a later state, or one state twice; `NothingMissed` says this never leaves it
wrong once the queue has run dry.

`send` looks at the state, and hands the payload over in a later step
(`SendAsync`), which may drop it in any state: because the channel has left the
open one, or because an open channel does not take it.  Nobody is told
(`DataChannel.cc:199-205`), and nothing is promised about a payload once it is accepted.

Calls that *change* the channel from inside its own callbacks are undefined by
the wiki (168-169) and are not modelled; calls inside `on_data_channel`, which
the tests make, are.

### PeerConnection

A request is `Refuse`d, or goes `Ask` (the completion object is made), `Post`
(the signalling thread takes it and a reference), `Return`, with `Answer` and
`EndAnswer` before or after the return.  The four kinds are create, apply
(set_local/remote_description), stats and selected stats; `listens` is which of
the two callbacks the caller gave, since some calls refuse a request nobody
would hear of.  `Release` is split where the destructor is: libwebrtc's object
goes first (`DestroyNative`, on the signalling thread), the observer second.

An answer may come after `rtc_peer_connection_release` has returned:
`QuietAfterRelease` is about events only, and the `user_data` of a request that
is outstanding has to outlive the connection.  That libwebrtc answers every
request it was given is an assumption (`Answer` is fair and never lost), not a
result.

### IceServers

`list`, `start` and `urls` are the locals of the loop at 341-354, `SplitOne` one
round of it.  Indices count from 1, so `std::string::npos` is 0 (`Npos`).  The
reference definition is `Begins`/`Run`: the places at which a run of characters
without a comma starts, and the run as far as it goes.  `CreateConfigured` is
`PeerConnection`'s `Create` behind it.

### Transceivers

A transceiver is its number in the order of creation, a handle the number it is
a view onto.  The connection lists transceivers in that order (`InOrder`); a
negotiation takes some out (`Leave`).  An add is libwebrtc's step
(`AddTransceiver`, `AddTrack`) and, later, the handle (`FinishAdd`), with either
outcome.  `GetTransceivers` is one hop that copies the list, `Wrap` one turn of
the loop over the copy, `WrapFails` its error return with the loop that deletes
(`Deleted`), `CopyOut` the end.  `heap[t]` is how many handles are allocated for
`t`, against `buffer[t]` and `out[t]`, what the caller can release.  `during` is
history: every list there was while a listing ran.  Directions are accepted or
refused and not kept.

### Sender

`recent` is the thread whose `GetParameters` was the latest (libwebrtc keeps a
transaction id), `local[t]` the copy a call works on.  A value is one abstract
field that may be `Unset`; `rid` says whether an encoding has one.  `heap[t]` is
what has been allocated for `t`, `buffer[t]` what its array points to: a leak or
a double free is a difference between the two.  `ToInterop` is a step for each
string (`Duplicate`), which are its locals (`made`) until the assignments
(`CopyEncoding`); `CopyFails` is a `DuplicateString` that returns null, with what
`ToInterop` (`FreeLocals`) and its caller (`FreeEncodingStrings`) then free.

`Verdicts` is what libwebrtc may answer to a set, and `StatusOf` the code's switch
on it, whose default is reached by a closed connection, a stopped transceiver, a
sender that was set by another thread in between, and an error of libwebrtc's
own.  A set that fails may or may not have used the transaction up.  `disturbed`
is a history variable; no action reads it except to update it.

## 4 Runs, bounds and what they show

Passing runs:

| run | instance | states | what it shows |
|---|---|---|---|
| `library` | 2 application threads, 2 factories, any order of calls, contract not obeyed; symmetry; deadlock checked | 598 k | runtime and SSL are whole or gone for whoever holds the mutex, threads and callbacks end in dependency order (`TeardownOrder`), hops are served, every call is atomic (`ImplementsLifecycle`) |
| `library_live` | 2 threads, 1 factory, contract obeyed, getters inside callbacks; deadlock checked | 70 k | nobody waits in a circle (`NoCircularWait`), the holder of `g_mutex` is a bounded number of its own steps from the end (`HolderGetsOn`), and so the mutex is always released; a callback that counts devices always gets it |
| `desktop` | 1 creation, 2 polls, 2 sources to list; period 4 ms, captures up to 6 ms, sleeps up to 1 ms late | 155 k | a refusal with `RTC_ERR_NOT_FOUND` leaves nothing, capture lasts while held, no fatal destruction, every creation returns; an undisturbed walk is exact and its strings accounted for whichever copy fails; frames keep to their schedule |
| `video_track` | 2 handles, 4 sinks, camera or remote | 98 k | lifetime of sinks and of the camera's source, ownership, `Subscription`; the camera is open while held and closes afterwards; removals, releases and creations return |
| `data_channel` | 2 observers, 2 payloads, queue of 2 | 104 k | observers' lifetime, nothing missed, `Subscription`, opening is reported, calls return |
| `peer_connection` | 1 connection, 2 requests; lists of up to 5 of 2 characters and the comma | 86 k | observers' lifetime; a completion object lives while the call or webrtc has use for it, and no longer (`CompletionLifetime`); `OneShot`, every request completes; the URLs are split exactly |
| `transceivers` | 1 caller, 2 tracks, 2 transceivers | 133 k | handles accounted for, listings exact, asking again works |
| `sender` | 2 threads, 2 layers; symmetry; deadlock checked | 2.5 M | a get returns the encodings of one moment, with their strings (`GetIsWhole`); a set that succeeds is exact, one that is refused changes nothing and, undisturbed, says `RTC_ERR_INVALID_ARG` exactly when a live sender does not take a value; strings accounted for whichever allocation fails |

Runs that violate one property (section 7): `library_getter_in_callback`,
`desktop_leak`, `peer_connection_selector`, `sender_race`.

`library` and `desktop` check the type invariant too; those of the other modules
are theorems (`TypeCorrect`), proved of every instance.

A run carries all the questions that one instance can answer; a second cfg of
the same module exists only where the instance or the specification has to
differ.

**Why the bounds are enough.**

- *Library.* Each hazard needs at most a holder of the mutex and one other
  actor; there are two application threads and the signalling thread.  Two
  factories allow one that is alive (so that callbacks exist) while a second is
  being created, and one orphaned while a new runtime comes up.  The live run
  has one factory on purpose: `library_getter_in_callback` shows that a second
  one makes the property false.
- *DesktopTrack.* Sources do not interact (the theorems hold for any number), so
  one is enough.  With `Polls = 2` the capturer can be up before the first poll,
  between polls, between the last poll and the decision, after it, or never.
  The code's 100 polls add only repetitions of the middle case.
- *DesktopCapture.* A capture of up to 6 ms in a period of 4 is quick, late
  within the period, or an overrun of more than half a period; two sources can
  change places between two calls.
- *CameraTrack.* Two handles and two sinks for each allow replacement, release
  with a sink, and both handles registered at once; the camera's creation makes
  one handle, which is what the code does.
- *IceServers.* Five places hold two URLs with an empty field between them or a
  comma at each end; the loop keeps nothing from one URL to the next but its
  place.  One creation is followed at a time, since a configuration is a local.
- *Transceivers.* Two transceivers are what "the second handle fails" and "one
  leaves between counting and fetching" take.  The callers share only the
  connection, and negotiation, which is not a caller's step, changes it under
  the one there is.
- *DataChannel.* `Observers` bounds how often an observer is made: two is one
  exchange.  `MaxBuffered` is how many payloads the channel's buffer takes (beyond
  it `SendAsync` drops them, as a full buffer does), `MaxQueue` how long the queue may be when *data* adds to it
  (`Receive`, `Drain`); state changes are never held back.
- *PeerConnection.* Two requests meet in each other's calls and answers.  With
  two connections (`peer_connection_selector`) the selector may be foreign.
- *Sender.* Two threads are what a stale transaction takes; two layers are what
  "an allocation fails after an encoding was copied" and "a layer is rejected" take.
  `Settings` has one ordinary value besides `Unset` and `Refused`.

Symmetry is used for safety and for refinement of specifications without
fairness only, over constants that no definition distinguishes.

## 5 Fairness and deadlock

`std::mutex` promises no order, and the application need not do anything:
neither acquiring `g_mutex` nor any call is fair anywhere.

| specification | assumed | because |
|---|---|---|
| `Library` | WF of what a holder of the mutex does next | a thread that can run does; libwebrtc's threads start, stop and serve |
| | SF of `BuildFactory` | the signalling queue is in order, so a hop is served between two callbacks, not starved by them |
| | WF of `EndCallback` | callbacks have to return (`Interop.h:16-17`) |
| `DesktopTrack` | WF of the creating and of the capture thread | threads that can run do |
| `DesktopCapture` | the same, of the composed steps | walking the list owes nothing |
| `CameraTrack` | WF of a frame's way, the creation's steps, the destructor and the rest of a call | threads that can run do; a sink's callback returns (`Interop.h:16-17`) |
| | SF of `Refuse` and of a handle's `Unregister` | both wait for a lock that is free for most of a frame's period, so a stream of frames does not keep them out |
| `Transceivers` | WF of `Continue` (the rest of a call) | a call in progress goes on |
| | SF of `Retry` | an assumption about the caller, and the property is about one that keeps it: told that its buffer was too small, it asks again with that count.  The list is bounded by `MaxTransceivers`, so it does not grow for ever |
| `DataChannel` | WF of `Deliver`, `EndCallback`, `Continue` (the rest of a call that began) | signalling queue runs; callbacks return; a call in progress goes on |
| | SF of `Hop` (`Unregister`, `Register`) | the signalling queue is in order, so a hop has its turn between two callbacks |
| | SF of `EndOnDataChannel` | it returns although it may make any number of calls |
| `PeerConnection` | SF of `Post`, `Answer` | posted tasks have their turn between callbacks |
| | WF of `Return`, `EndAnswer`, `EndRaise` | threads run, callbacks return |

`Sender` states no fairness: only safety is checked of it, and deadlock.
`IceServers` (`IceSpec`, and `FairIceSpec` with `PeerConnection`'s `Fairness`)
adds none of its own: a creation may be given up.

Deadlock is not checked in `desktop`, `video_track`, `data_channel`,
`peer_connection` and the counterexample runs: in all of these an instance
really may stop, because its sources, handles or requests are used up, and in
`library_getter_in_callback` because that is the finding.

## 6 Proofs

Eight modules prove, for any constants that satisfy the named assumptions of
the modules they extend, that is for any number of threads, factories, tracks,
sinks, observers, requests, layers, transceivers and devices and for URL lists
of any length, **every invariant and every action property** that the passing
runs check, type correctness of every component, and all the refinements: of the abstract specifications, and of a
component by the module that composes it (`TrackRefinement`, `SinkRefinement`,
`ConfiguredRefinement`), so that what is proved of the one holds in the other.

The assumptions are those on the constants (`LibraryAssumption`,
`CharactersAssumption` and the like): sets are disjoint where the code's objects
are, bounds are natural numbers.  One theorem assumes more, and says so:
`OneFactoryIsSafe` is about an application that keeps the contract and one
factory.

**Library.** None of the invariants is inductive.  `RuntimeWhole` speaks
only of the moments when nobody is starting or stopping; to get there the proof
has to know what each position means.  `IndInv` adds

- `Phases`: while the owner is at `start`, `undo`, `stop` or `cleanup`, which
  threads may exist and what `ssl` is;
- `CallAt`: which call can be at which position (`start` belongs to
  `rtc_initialize` and so on), so that a position determines a call;
- `Served`: a thread serves exactly the actor that waits for it at `on_worker`
  or `on_signaling`;
- `NeedsRuntime`: current factories and callbacks exist only on a published
  runtime.

From these `Invariance` is one step per action, and the other theorems are
consequences.  `Refinement` uses `IndInv` on both sides of each step: the step in
which the call takes effect maps to the `Lifecycle` action, all others stutter.
`CallsAreServed` (`HopsAreServed`) is the one that makes the code's
choice to hold the mutex during hops right: `Quit` needs the mutex, so no thread
stops under a hop.  `Teardown` combines three orders that each hold on every
path, failing initialisations included: callbacks before their thread, threads
before those they depend on, SSL last.

*Waiting.* That the mutex is always released cannot be proved here, but what
there is to it besides fairness is:

- `BoundedHold`: every step of the holder's own lowers `Left`, which starts at
  nine, and no step of anybody else raises it;
- `HolderProceeds`: the holder's next step is possible (`CanProceed`, which
  spells out when one is), unless a callback is running, which has to return, or
  the callback waits for the very mutex (`CircularWait`);
- `WaitExplained`: such a circle takes a second factory, or a termination under
  a live one.  So `OneFactoryIsSafe`: with one factory and the contract kept there
  is none, `NoCircularWait`;
- `WaitsForEver`: where there is one, it is permanent: the first finding does
  not depend on the scheduler.

`NoCircularWait` is not inductive: `WaitInv` adds that a callback runs for a
current factory and only enumerates devices (`CallbackInv`), that whoever
terminates has no handle and no creation under way if the contract is kept
(`DisciplineInv`), and which calls hop to the worker (`HopInv`).  A creation that
hops to the signalling thread has reserved a handle of its own (`IndInv`), so the
factory of the callback it waits for is a second one.

**DesktopTrack.** `IndInv` relates three things per track: where the thread is
and what it owns (`ThreadInv`), where the creating call is and what it owns
(`CreateInv`), and what each returned status leaves (`ReturnInv`).
`SafeDestruction` follows because the thread gives its reference up only while
the creating call, which is polling or joining, still holds one.  Its other side is
theorem `Leak`: once a creation has answered `RTC_OK` or `RTC_ERR_INTERNAL` the
thread's reference stays, the thread is never at its exit, and the finding `desktop_leak` is not a matter of
timing but holds in every behaviour.

**DesktopCapture.** `TrackRefinement` maps every composed step to a step of
`DesktopTrack`, so its theorems carry over (`ListedDestruction`,
`ListedRefusal`, `ListedCapture`).  `Pacing` rests on an invariant that is
stronger than `OnSchedule`: `early + late <= Jitter` and `behind <= late`.  What
a capture is late by is exactly what the next frames may come closer by, and
what quick captures have fallen behind by; an overrun resets the one without
adding to the other.  The walk needs `StillInv` (the devices told so far are the
first of the list, element by element) and, for types, that inserting or
removing a device keeps the list free of repetitions (`PluggedIn`, `TakenAway`).
`Truncation` is arithmetic about the constants the code computes: the period is
0, a loop without a pause, exactly above 1000 frames a second, and below that it
lets through at least `max_fps` frames and less than twice as many (the second
of the smaller observations in section 7).

**CameraTrack.** `SinkInv` is proved of `VideoTrack`'s own steps first:
`PlaceInv` says which sink each position of a call has in hand, `HeldInv` that
what is alive is what is held, `FrameInv` that a frame in delivery goes to
listening sinks only.  `StepOfVideoTrack` shows that each composed step is one of
those or leaves them alone, which is also `SinkRefinement`.  `CameraInv` adds who holds the source (`HolderInv`),
when it lives (`SourceInv`) and what the device does then (`DeviceInv`).
`NoDanglingSource` is not inductive: it does not say that a source in
destruction has its callback registered until `Deregister`, nor that a handle
that still has a sink is a holder of the track.

**DataChannel.** `PlaceInv` says where the observer is at each point of a call
(in the slot, in hand, registered), `CallInv` that a callback is one of the
registered observer.  `NothingMissed` is inductive as it stands: each state
change queues a notification for the registered observer, and exchanging
observers makes the new one look at the state.

**Transceivers.** `HeapInv` accounts for handles at every position:
`heap = Len(buffer) + Single + Len(handles)`, where the listing in progress has
an empty buffer; `ListingInv` says that the handles made so far are the first of
the copied list, which is in `during`.  `LeaveGood` and `AppendedGood` show
that a negotiation leaves a list in order and within what was made.

**Sender.** `StringsInv` accounts for the strings by position of the call: what
is allocated is what the array points to and what `ToInterop` has in hand.
`SettingInv` says of a set in progress that its values are applied to the copy
and that the transaction is the latest unless somebody `disturbed` it.
`Snapshot` needs `CopyInv`: while the array is filled, it holds the strings of the
encodings before the loop's place, of the list as it was when the call asked.

**PeerConnection.** `ConnInv` says what exists at each point of a handle's life,
`RequestInv` which references a completion object has at each position of its
request.  `CompletionLifetime` alone is not inductive: that somebody holds a
reference while a request is `due` does not say that it is *webrtc*'s, which is
the one that is left when the call drops its own.

**IceServers.** `UrlsInv` adds to `UrlsExact` that the loop is at the beginning,
behind a comma or behind the end, so that a run starts where the loop is or
there is an empty field.  A round then finds exactly that run (`FindFinds`,
`RunIs`) and adds exactly one place to those that lie behind (`OneMore`), whose
rank is its index in `urls` (`CountIsIndex`).  No induction over the list is
needed: the loop is the induction.

**Model-checked only:** liveness (`LockIsReleased`, `GetterFindsLock`,
`CreateReturns`, `CameraEnds`, `CallsReturn` of the sinks and of the data channel,
`OpenIsReported`, `RequestsComplete`, `AskingAgainWorks`), since fairness and ENABLED are out of the
prover's reach; nothing else that a passing run checks.
The findings' properties are violated, so there is nothing to prove of them but
`Leak` and `WaitsForEver`.

## 7 Findings

1. **A getter in a callback can deadlock** (`library_getter_in_callback`,
   `Interop.cc:524`).  The wiki (168) allows getters in callbacks.
   `rtc_audio_device_count` waits for `g_mutex`; `rtc_factory_create` holds it
   while it waits for the signalling thread (`Interop.cc:382`), which is running
   the callback.  It takes an application with one live factory that creates a
   second.  The same wait is possible against `rtc_terminate`, but only for a
   caller that terminates with live handles.
2. **A desktop track's capture never ends** (`desktop_leak`,
   `DesktopCapture.cc:68`): the thread holds the reference whose loss would
   stop it.  It is the same whether the track was released or the creation
   failed after the thread had started (`RTC_ERR_INTERNAL`, 319-325).
3. **A foreign selector** is accepted by the per-sender and per-receiver
   statistics, although the header promises `RTC_ERR_INVALID_ARG`
   (`peer_connection_selector`, `PeerConnection.cc:1179`).
4. **`set_parameters` may be refused for no reason the caller can see**
   (`sender_race`, `PeerConnection.cc:747`): another thread's *read* of the
   parameters in between makes the transaction stale.

Two smaller observations have no run, because only a name says otherwise: the
parameter of `on_buffered_amount_change` is called `buffered` (`Interop.h:247-248`)
and is given the amount just sent (`DataChannel.cc:66-70`); and the capture
period is `1000 / max_fps` truncated (`DesktopCapture.cc:62`), so that rates up to
twice `max_fps` result, and no pause at all above 1000.

## 8 What is not modelled

- Formats: SDP, candidates, JSON statistics, I420 conversion, cropping and
  scaling, string contents, struct layouts (the compiler's business).
- The choice of a camera's capability from its list: a pure search whose result
  no property is about.
- Null-argument checks: they return before any state is touched.
- `rtc_audio_track_create`, `rtc_video_track_get_settings`, `set_enabled` and the
  other getters: no state of the shim's but the handle itself.
- `rtc_peer_connection_restart_ice` and `_add_ice_candidate`: fire and forget,
  their outcome is only logged.
- Two threads on *one* handle of a video track or data channel: the handle is a
  plain pointer with no lock, and the models take one thread at a time
  (`Sender` and `Transceivers` allow several threads on one object).
- Releasing a handle while a call on it is in progress: a caller bug the ABI
  does not define.
- The winsock initialiser and the logging variable (no failure path), the
  tests (clients of the ABI), the branch-resolution script (sequential, and
  without a part in the library), build scripts, workflows and the diagram
  generator (external tools run in a straight line).

## 9 Plan

Done, in the order of importance: `Library`, `DesktopTrack`, `VideoTrack`,
`DataChannel`, `PeerConnection`, `Sender`; then `CameraTrack` over `VideoTrack`,
`Transceivers`, `Enumeration` and `DesktopCapture`, `IceServers` over
`PeerConnection`; each with its proofs.

What is left, in order:

1. For the other liveness properties what `BoundedHold` and `HolderProceeds` are
   for `LockIsReleased`: a measure that each step of a creation or a call lowers,
   and that it waits for nobody but a thread that runs.
2. An abstract specification of what `Sender` promises (a get is one moment, a set
   is one step or refused), implemented by `Sender`.
3. Two connections in one `Transceivers`, as `rtc_peer_connection_remove_track`
   takes a sender that may be another connection's.
4. Two threads on one handle, where the header leaves it open.
