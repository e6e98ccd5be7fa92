------------------------------- MODULE Lifecycle -------------------------------
(***************************************************************************)
(* Loading and unloading the module: PAModule (pa_module.cpp), the start   *)
(* and the end of the worker (webrtc/writer_webrtc.cpp), and the singleton *)
(* PASink with its IO thread (pa_sink.cpp).  PulseAudio's thread (core)    *)
(* loads and unloads, the module's main thread makes the parts and runs    *)
(* the event loop, the IO thread writes, the worker sends messages and has *)
(* the voice engine ask the sink.                                          *)
(*                                                                         *)
(* PASink objects are numbered as they are made; 0 is NULL.                *)
(***************************************************************************)
EXTENDS Integers, FiniteSets

CONSTANTS
  EarlyUnload,      \* the module may be unloaded before its event loop runs
  Failures,         \* where PASinkPriv::init may fail
  RtcThreadQuits    \* the worker's rtc thread is told to quit; no code does it

ASSUME LifecycleAssumption ==
  /\ EarlyUnload \in BOOLEAN /\ RtcThreadQuits \in BOOLEAN
  /\ Failures \subseteq {"arguments", "sink", "thread"}

VARIABLES
  core,         \* what pa__done, on PulseAudio's thread, does next, unless
                \*   the process has been aborted or has crashed
  main,         \* what the main thread does next in exec
  application,  \* m_application is set
  quit,         \* the event loop has been told to quit
  server,       \* m_control_server
  writer,       \* m_writer
  worker,       \* the worker thread
  sinks,        \* history: the number of PASinks made
  instance,     \* PASink::m_instance
  held,         \* the PASink that exec and the writer point to
  gone,         \* the PASinks that have been destroyed
  made,         \* what PASinkPriv::init has made
  released,     \* what ~PASinkPriv has released
  io,           \* the IO thread
  message       \* the message the IO thread has still to handle

loop == <<main, application, quit>>
parts == <<server, writer, worker>>
singleton == <<sinks, instance, held, gone>>
device == <<made, released, io, message>>
vars == <<core, loop, parts, singleton, device>>

Init ==
  /\ core = "load"
  /\ main = "none"
  /\ application = FALSE
  /\ quit = FALSE
  /\ server = "none"
  /\ writer = "none"
  /\ worker = "none"
  /\ sinks = 0
  /\ instance = 0
  /\ held = 0
  /\ gone = {}
  /\ made = {}
  /\ released = {}
  /\ io = "none"
  /\ message = "none"

--------------------------------------------------------------------------------
(* Mutation: PASink::instance does not make the sink.                      *)
InstanceNotMade == UNCHANGED <<sinks, instance>>

(* Mutation: PASink::instance always makes a sink.                         *)
InstanceAlwaysMade == sinks' = sinks + 1 /\ instance' = sinks + 1

(* PASink::instance makes a sink when m_instance is NULL.                  *)
GetInstance ==
  /\ sinks' = IF instance = 0 THEN sinks + 1 ELSE sinks
  /\ instance' = IF instance = 0 THEN sinks + 1 ELSE instance

CoreAt(stage, next) == core = stage /\ core' = next
MainAt(stage, next) == main = stage /\ main' = next

(* pa__init: PAModule::init starts the main thread and returns.            *)
Load ==
  /\ CoreAt("load", "loaded")
  /\ MainAt("none", "makeServer")
  /\ UNCHANGED <<application, quit, parts, singleton, device>>

--------------------------------------------------------------------------------
(* The main thread: PAModule::exec                                         *)

MakeServer ==
  /\ MainAt("makeServer", "makeWriter")
  /\ server' = "alive"
  /\ UNCHANGED <<core, application, quit, writer, worker, singleton, device>>

(* The sink is made, and the writer, which starts the thread of the worker *)
(* and has it call run once its event loop runs.                           *)
MakeWriter ==
  /\ MainAt("makeWriter", "initSink")
  /\ GetInstance
  /\ held' = instance'
  /\ writer' = "alive"
  /\ worker' = "starting"
  /\ UNCHANGED <<core, application, quit, server, gone, device>>

(* PASinkPriv::init up to the start of its thread.                         *)
InitSink ==
  /\ MainAt("initSink", "putSink")
  /\ made' = {"mq", "sink", "thread"}
  /\ io' = "closed"
  /\ UNCHANGED <<core, application, quit, parts, singleton, released, message>>

(* Or as far as it gets: exec ignores the result.                          *)
MadeBefore(failure) ==
  CASE failure = "arguments" -> {}
    [] failure = "sink"      -> {"mq"}
    [] failure = "thread"    -> {"mq", "sink"}

InitSinkFails ==
  /\ MainAt("initSink", "publish")
  /\ \E failure \in Failures : made' = MadeBefore(failure)
  /\ UNCHANGED <<core, application, quit, parts, singleton, released, io,
                 message>>

(* pa_sink_put waits for the IO thread.                                    *)
PutSink ==
  /\ MainAt("putSink", "waitPut")
  /\ message = "none"
  /\ message' = "put"
  /\ UNCHANGED <<core, application, quit, parts, singleton, made, released, io>>

WaitPut ==
  /\ MainAt("waitPut", "publish")
  /\ message # "put"
  /\ UNCHANGED <<core, application, quit, parts, singleton, device>>

Publish ==
  /\ MainAt("publish", "enterLoop")
  /\ application' = TRUE
  /\ UNCHANGED <<core, quit, parts, singleton, device>>

(* QCoreApplication::exec forgets what it was told before it was entered.  *)
EnterLoop ==
  /\ MainAt("enterLoop", "loop")
  /\ quit' = FALSE
  /\ UNCHANGED <<core, application, parts, singleton, device>>

(* The loop ends, and with it the thread.                                  *)
LeaveLoop ==
  /\ MainAt("loop", "finished")
  /\ quit
  /\ application' = FALSE
  /\ UNCHANGED <<core, quit, parts, singleton, device>>

--------------------------------------------------------------------------------
(* The IO thread.  It handles messages between two writes; to handle those *)
(* of the sink it looks the sink up with instance().                       *)

StartWrite ==
  /\ io = "open" /\ message = "none"
  /\ io' = "writing"
  /\ UNCHANGED <<core, loop, parts, singleton, made, released, message>>

EndWrite ==
  /\ io = "writing"
  /\ io' = "open"
  /\ UNCHANGED <<core, loop, parts, singleton, made, released, message>>

HandleState ==
  /\ io \in {"closed", "open"}
  /\ message \in {"put", "unlink"}
  /\ GetInstance
  /\ io' = IF message = "put" THEN "open" ELSE "closed"
  /\ message' = "none"
  /\ UNCHANGED <<core, loop, parts, held, gone, made, released>>

HandleShutdown ==
  /\ io \in {"closed", "open"}
  /\ message = "shutdown"
  /\ io' = "ended"
  /\ message' = "none"
  /\ UNCHANGED <<core, loop, parts, singleton, made, released>>

--------------------------------------------------------------------------------
(* The worker: it sends what the peer connection comes up with, and the    *)
(* engine asks the sink for its volume, its rate and its channels.         *)

(* Worker::run begins by making its handler, which connects to the control *)
(* server.                                                                 *)
WorkerRuns ==
  /\ worker = "starting"
  /\ worker' = "sending"
  /\ UNCHANGED <<core, loop, server, writer, singleton, device>>

(* The quit() of the QThread ends its event loop before run is delivered.  *)
WorkerQuits ==
  /\ core = "joinWorker"
  /\ worker = "starting"
  /\ worker' = "ended"
  /\ UNCHANGED <<core, loop, server, writer, singleton, device>>

WorkerUses ==
  /\ worker = "idle"
  /\ worker' \in {"sending", "asking"}
  /\ UNCHANGED <<core, loop, server, writer, singleton, device>>

WorkerGoesOn ==
  /\ worker \in {"sending", "asking"}
  /\ worker' = "idle"
  /\ UNCHANGED <<core, loop, server, writer, singleton, device>>

(* Worker::run, once called, ends when its rtc thread is told to quit; the *)
(* quit() of the QThread, which ~WebRTCWriter calls, does not tell it.     *)
WorkerEnds ==
  /\ RtcThreadQuits
  /\ core = "joinWorker"
  /\ worker = "idle"
  /\ worker' = "ended"
  /\ UNCHANGED <<core, loop, server, writer, singleton, device>>

--------------------------------------------------------------------------------
(* pa__done, on PulseAudio's thread: ~PAModule, and what it destroys.      *)

(* Mutation: the main thread is waited for and not told to quit.           *)
UnloadWithoutQuit ==
  /\ CoreAt("loaded", IF application THEN "waitMain" ELSE "dropServer")
  /\ EarlyUnload \/ main = "loop"
  /\ UNCHANGED <<loop, parts, singleton, device>>

(* m_application is told to quit, and the main thread waited for, only if  *)
(* m_application is already there.                                         *)
Unload ==
  /\ CoreAt("loaded", IF application THEN "waitMain" ELSE "dropServer")
  /\ EarlyUnload \/ main = "loop"
  /\ quit' = (quit \/ application)
  /\ UNCHANGED <<main, application, parts, singleton, device>>

(* Mutation: the main thread is told to quit and not waited for.           *)
NotWaitedFor ==
  /\ CoreAt("waitMain", "dropServer")
  /\ UNCHANGED <<loop, parts, singleton, device>>

WaitMain ==
  /\ CoreAt("waitMain", "dropServer")
  /\ main = "finished"
  /\ UNCHANGED <<loop, parts, singleton, device>>

DropServer ==
  /\ CoreAt("dropServer", "dropSink")
  /\ server' = IF server = "alive" THEN "gone" ELSE server
  /\ UNCHANGED <<loop, writer, worker, singleton, device>>

(* PASink::drop, of a sink that is made if there is none.  m_instance is   *)
(* NULL before the destructor begins, which does nothing before init.      *)
DropSink ==
  /\ CoreAt("dropSink", IF main \in {"makeServer", "makeWriter", "initSink"}
                        THEN "dropWriter" ELSE "unlink")
  /\ sinks' = IF instance = 0 THEN sinks + 1 ELSE sinks
  /\ gone' = IF core' = "unlink" THEN gone
             ELSE gone \cup {IF instance = 0 THEN sinks' ELSE instance}
  /\ instance' = 0
  /\ UNCHANGED <<loop, parts, held, device>>

(* pa_sink_unlink waits for the IO thread, if the sink was put.            *)
Unlink ==
  /\ CoreAt("unlink", "shutdown")
  /\ message = "none"
  /\ message' = IF io \in {"open", "writing"} THEN "unlink" ELSE "none"
  /\ UNCHANGED <<loop, parts, singleton, made, released, io>>

(* Mutation: the IO thread is joined and not told to end.                  *)
ShutdownNotSent ==
  /\ CoreAt("shutdown", "joinIo")
  /\ message = "none"
  /\ UNCHANGED <<loop, parts, singleton, device>>

Shutdown ==
  /\ CoreAt("shutdown", "joinIo")
  /\ message = "none"
  /\ message' = IF "thread" \in made THEN "shutdown" ELSE "none"
  /\ UNCHANGED <<loop, parts, singleton, made, released, io>>

(* Mutation: the thread is not joined, and released also when there is     *)
(* none.                                                                   *)
ReleaseUnchecked ==
  /\ CoreAt("joinIo", "dropWriter")
  /\ released' = {"thread", "mq", "sink"}
  /\ gone' = gone \cup {held}
  /\ UNCHANGED <<loop, parts, sinks, instance, held, made, io, message>>

(* pa_thread_free joins the IO thread.  The queue is released whether it   *)
(* was made or not: if not, with whatever pointers happen to be there.     *)
JoinIo ==
  /\ core = "joinIo"
  /\ core' = "dropWriter" \/ ("mq" \notin made /\ core' = "crashed")
  /\ "thread" \in made => io = "ended"
  /\ released' = ({"thread", "sink"} \cap made) \cup {"mq"}
  /\ gone' = gone \cup {held}
  /\ UNCHANGED <<loop, parts, sinks, instance, held, made, io, message>>

(* The members of PAModule go next: ~WebRTCWriter tells the QThread of the *)
(* worker to quit and waits for it.                                        *)
DropWriter ==
  /\ CoreAt("dropWriter",
            IF writer = "none" THEN "dropThread" ELSE "joinWorker")
  /\ UNCHANGED <<loop, parts, singleton, device>>

JoinWorker ==
  /\ CoreAt("joinWorker", "dropThread")
  /\ worker = "ended"
  /\ writer' = "gone"
  /\ UNCHANGED <<loop, server, worker, singleton, device>>

(* ~QThread ends the process if the thread is running.                     *)
DropThread ==
  /\ CoreAt("dropThread", IF main = "finished" THEN "done" ELSE "aborted")
  /\ UNCHANGED <<loop, parts, singleton, device>>

--------------------------------------------------------------------------------
MainStep ==
  \/ MakeServer \/ MakeWriter \/ InitSink \/ InitSinkFails \/ PutSink \/ WaitPut
  \/ Publish \/ EnterLoop \/ LeaveLoop

IoStep == EndWrite \/ HandleState \/ HandleShutdown

Teardown ==
  \/ WaitMain \/ DropServer \/ DropSink \/ Unlink \/ Shutdown \/ JoinIo
  \/ DropWriter \/ JoinWorker \/ DropThread

Next ==
  /\ core \notin {"aborted", "crashed"}
  /\ \/ Load \/ Unload \/ Teardown
     \/ MainStep
     \/ StartWrite \/ IoStep
     \/ WorkerRuns \/ WorkerQuits \/ WorkerUses \/ WorkerGoesOn \/ WorkerEnds

(* Every thread runs, that of the worker starts, and the loop of run looks *)
(* at its rtc thread again and again.  Nobody has to unload the module.    *)
Spec ==
  /\ Init /\ [][Next]_vars
  /\ WF_vars(MainStep) /\ WF_vars(IoStep) /\ WF_vars(Teardown)
  /\ WF_vars(WorkerRuns \/ WorkerQuits) /\ WF_vars(WorkerGoesOn)
  /\ SF_vars(WorkerEnds)

--------------------------------------------------------------------------------
(* The types of the variables.                                             *)
TypeOK ==
  /\ core \in {"load", "loaded", "waitMain", "dropServer", "dropSink", "unlink",
               "shutdown", "joinIo", "dropWriter", "joinWorker", "dropThread",
               "done", "aborted", "crashed"}
  /\ main \in {"none", "makeServer", "makeWriter", "initSink", "putSink",
               "waitPut", "publish", "enterLoop", "loop", "finished"}
  /\ application \in BOOLEAN /\ quit \in BOOLEAN
  /\ server \in {"none", "alive", "gone"}
  /\ writer \in {"none", "alive", "gone"}
  /\ worker \in {"none", "starting", "idle", "sending", "asking", "ended"}
  /\ sinks \in Nat /\ instance \in 0 .. sinks /\ held \in 0 .. sinks
  /\ gone \subseteq 1 .. sinks
  /\ made \subseteq {"mq", "sink", "thread"}
  /\ released \subseteq {"mq", "sink", "thread"}
  /\ io \in {"none", "closed", "open", "writing", "ended"}
  /\ message \in {"none", "put", "unlink", "shutdown"}

(* As long as the IO thread lives, the writer it writes to, the sink whose *)
(* loop it runs and what init has made of it do, whatever the thread is    *)
(* doing when the module is unloaded.                                      *)
IoUsesNothingGone ==
  io \notin {"none", "ended"} =>
    writer = "alive" /\ held \notin gone /\ released = {}

(* The destructor is past the main thread.                                 *)
TearingDown ==
  core \in {"dropServer", "dropSink", "unlink", "shutdown", "joinIo",
           "dropWriter", "joinWorker", "dropThread"}

(* The parts the main thread makes are torn down once it is over ("All     *)
(* initialization is done on it"): none is made while it is destroyed.     *)
MainThreadIsOver == TearingDown \/ core = "aborted" => main = "finished"

(* An unload comes to its end ("Shuts the module down"), wherever the      *)
(* threads are and also when the sink could not be made: unless init has   *)
(* refused the arguments of the module, and the process may crash on the   *)
(* queue that it has not made.                                             *)
UnloadCompletes ==
  core = "waitMain" \/ TearingDown ~>
    core = "done" \/ (core = "crashed" /\ "mq" \notin made)

(* Nobody waits for the main thread or the IO thread without an answer to  *)
(* come: pa_sink_put, pa_sink_unlink, and the joins of the two threads     *)
(* each have a message under way to a thread that is alive, has not begun  *)
(* to wait in turn and comes to handle it, wherever it was when the unload *)
(* began and whatever has failed before.  No message is sent over another. *)
EachWaitIsAnswered ==
  /\ core = "waitMain" => main = "finished" \/ (main = "loop" /\ quit)
  /\ main = "putSink" \/ core = "unlink" => message = "none"
  /\ main = "waitPut" => message = "none" \/ (message = "put" /\ io = "closed")
  /\ core = "shutdown" =>
       message = "none" \/ (message = "unlink" /\ io \in {"open", "writing"})
  /\ core = "joinIo" /\ "thread" \in made =>
       io = "ended" \/ (message = "shutdown" /\ io \in {"closed", "open", "writing"})

(* The worker sends through no control server that has been stopped and    *)
(* the engine asks no sink that has been stopped.                          *)
WorkerUsesNothingGone ==
  /\ worker = "sending" => server # "gone"
  /\ worker = "asking" => held \notin gone

(* PASink is a singleton: the callbacks of the IO thread find with         *)
(* instance() the sink whose loop it runs.  The exception is the time from *)
(* drop() until the thread is joined, when they find none and make one     *)
(* more, which they use though nothing has initialised it (SinkThread says *)
(* what comes of that).  They never make more than that one.               *)
SecondSinkOnlyAtUnload ==
  /\ sinks <= 2
  /\ sinks = 2 => core \notin {"load", "loaded", "waitMain", "dropServer", "dropSink"}
  /\ io \notin {"none", "ended"} /\ instance # held =>
       core \in {"unlink", "shutdown", "joinIo"}
================================================================================
