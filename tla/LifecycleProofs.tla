----------------------------- MODULE LifecycleProofs -----------------------------
(***************************************************************************)
(* What the order of the teardown guarantees, mostly when the module is    *)
(* unloaded while its event loop runs: wherever the IO thread, the worker  *)
(* and the callbacks are, and wherever the making of the sink has failed.  *)
(***************************************************************************)
EXTENDS Lifecycle, TLAPS

(* The stages of the core before it has dropped the sink, and before it    *)
(* has joined the sink's thread; those of the main thread after it has     *)
(* made the writer.                                                        *)
BeforeDrop == {"load", "loaded", "waitMain", "dropServer", "dropSink"}
BeforeJoin == BeforeDrop \cup {"unlink", "shutdown", "joinIo"}
WriterMade == {"initSink", "putSink", "waitPut", "publish", "enterLoop", "loop", "finished"}

(* The core tears down only when the main thread has finished.             *)
StagesInv ==
  /\ core # "aborted"
  /\ main = "none" <=> core = "load"
  /\ core \notin {"load", "loaded"} => main \in {"loop", "finished"}
  /\ TearingDown \/ core \in {"done", "crashed"} => main = "finished"
  /\ main \in {"enterLoop", "loop"} => application
  /\ core = "waitMain" => quit \/ main = "finished"

(* The one sink of the module, and the one that a late message may make.   *)
SinksInv ==
  /\ main \notin WriterMade => sinks = 0 /\ instance = 0
  /\ main \in WriterMade => held = 1
  /\ main \in WriterMade /\ core \in BeforeDrop => sinks = 1 /\ instance = 1
  /\ core \notin BeforeDrop => <<sinks, instance>> \in {<<1, 0>>, <<2, 2>>}
  /\ core \in BeforeJoin => gone = {}

(* The writer outlives the IO thread, which lives until it is joined.      *)
ThreadInv ==
  /\ main \in WriterMade => writer # "none"
  /\ writer = "gone" => core \in {"dropThread", "done"}
  /\ main \notin WriterMade \ {"initSink"} => made = {}
  /\ main \in {"putSink", "waitPut"} => "thread" \in made
  /\ io # "none" <=> "thread" \in made
  /\ io = "ended" => core \notin BeforeJoin \ {"joinIo"}
  /\ core \notin BeforeJoin => io \in {"none", "ended"}
  /\ core \in BeforeJoin => released = {}

(* Who has sent the message the IO thread has still to handle, and what    *)
(* the thread was doing when it was sent.                                  *)
MessageInv ==
  /\ message # "none" => "thread" \in made /\ io # "ended"
  /\ message = "put" => main = "waitPut"
  /\ message = "unlink" => core = "shutdown" /\ io \in {"open", "writing"}
  /\ message = "shutdown" => core = "joinIo"
  /\ main = "putSink" \/ message = "put" => io = "closed"
  /\ core = "joinIo" /\ "thread" \in made => message = "shutdown" \/ io = "ended"

(* The inductive invariant.                                                *)
LifeInv == TypeOK /\ StagesInv /\ SinksInv /\ ThreadInv /\ MessageInv

LEMMA LifeStart == Init => LifeInv
<1> SUFFICES ASSUME Init PROVE LifeInv
  OBVIOUS
<1> USE DEF Init
<1>1. TypeOK
  <2>1. application \in BOOLEAN /\ quit \in BOOLEAN
    BY Zenon
  <2>2. QED BY <2>1 DEF TypeOK
<1>2. StagesInv
  BY DEF StagesInv, TearingDown
<1>3. SinksInv
  BY DEF SinksInv, WriterMade, BeforeJoin, BeforeDrop
<1>4. ThreadInv
  BY DEF ThreadInv, WriterMade, BeforeJoin, BeforeDrop
<1>5. MessageInv
  BY DEF MessageInv, WriterMade
<1>6. QED BY <1>1, <1>2, <1>3, <1>4, <1>5 DEF LifeInv

(* Loading, and the main thread's way to its event loop and out of it.     *)
LEMMA MainKeeps ==
  ASSUME LifeInv, Load \/ MainStep
  PROVE  LifeInv'
<1> USE DEF LifeInv, TypeOK, StagesInv, SinksInv, ThreadInv, MessageInv,
            BeforeDrop, BeforeJoin, WriterMade, TearingDown, MainAt, CoreAt,
            loop, parts, singleton, device
<1>1. CASE Load
  BY <1>1 DEF Load
<1>2. CASE MakeServer
  BY <1>2 DEF MakeServer
<1>3. CASE MakeWriter
  BY <1>3 DEF MakeWriter, GetInstance
<1>4. CASE InitSink
  BY <1>4 DEF InitSink
<1>5. CASE InitSinkFails
  BY <1>5, LifecycleAssumption DEF InitSinkFails, MadeBefore
<1>6. CASE PutSink
  BY <1>6 DEF PutSink
<1>7. CASE WaitPut
  BY <1>7 DEF WaitPut
<1>8. CASE Publish
  BY <1>8 DEF Publish
<1>9. CASE EnterLoop
  <2>1. /\ main = "enterLoop" /\ main' = "loop" /\ quit' = FALSE
        /\ UNCHANGED <<core, application, parts, singleton, device>>
    BY <1>9 DEF EnterLoop
  <2>2. application' \in BOOLEAN /\ quit' \in BOOLEAN
    BY <2>1, Zenon
  <2>3. TypeOK'
    BY <2>1, <2>2
  <2>4. StagesInv' /\ SinksInv'
    BY <2>1
  <2>5. ThreadInv' /\ MessageInv'
    BY <2>1
  <2>6. QED BY <2>3, <2>4, <2>5
<1>10. CASE LeaveLoop
  <2>1. /\ main = "loop" /\ main' = "finished" /\ application' = FALSE
        /\ UNCHANGED <<core, quit, parts, singleton, device>>
    BY <1>10 DEF LeaveLoop
  <2>2. application' \in BOOLEAN /\ quit' \in BOOLEAN
    BY <2>1, Zenon
  <2>3. TypeOK'
    BY <2>1, <2>2
  <2>4. StagesInv' /\ SinksInv'
    BY <2>1
  <2>5. ThreadInv' /\ MessageInv'
    BY <2>1
  <2>6. QED BY <2>3, <2>4, <2>5
<1>11. QED
  BY <1>1, <1>2, <1>3, <1>4, <1>5, <1>6, <1>7, <1>8, <1>9, <1>10 DEF MainStep

(* The IO thread and the worker, at any time.                              *)
LEMMA ThreadsKeep ==
  ASSUME LifeInv, \/ StartWrite \/ IoStep
                  \/ WorkerRuns \/ WorkerQuits \/ WorkerUses \/ WorkerGoesOn \/ WorkerEnds
  PROVE  LifeInv'
<1> USE DEF LifeInv, TypeOK, StagesInv, SinksInv, ThreadInv, MessageInv,
            BeforeDrop, BeforeJoin, WriterMade, TearingDown,
            loop, parts, singleton, device
<1>1. CASE StartWrite
  BY <1>1 DEF StartWrite
<1>2. CASE EndWrite
  BY <1>2 DEF EndWrite
<1>3. CASE HandleState
  BY <1>3 DEF HandleState, GetInstance
<1>4. CASE HandleShutdown
  BY <1>4 DEF HandleShutdown
<1>5. CASE WorkerUses
  BY <1>5 DEF WorkerUses
<1>6. CASE WorkerGoesOn
  BY <1>6 DEF WorkerGoesOn
<1>7. CASE WorkerEnds
  BY <1>7 DEF WorkerEnds
<1>8. CASE WorkerRuns
  BY <1>8 DEF WorkerRuns
<1>9. CASE WorkerQuits
  BY <1>9 DEF WorkerQuits
<1>10. QED
  BY <1>1, <1>2, <1>3, <1>4, <1>5, <1>6, <1>7, <1>8, <1>9 DEF IoStep

(* The unload, of a module whose event loop runs, and the teardown.        *)
LEMMA TeardownKeeps ==
  ASSUME ~EarlyUnload, LifeInv, Unload \/ Teardown
  PROVE  LifeInv'
<1> USE DEF LifeInv, TypeOK, StagesInv, SinksInv, ThreadInv, MessageInv,
            BeforeDrop, BeforeJoin, WriterMade, TearingDown, CoreAt,
            loop, parts, singleton, device
<1>1. CASE Unload
  BY <1>1 DEF Unload
<1>2. CASE WaitMain
  BY <1>2 DEF WaitMain
<1>3. CASE DropServer
  BY <1>3 DEF DropServer
<1>4. CASE DropSink
  BY <1>4 DEF DropSink
<1>5. CASE Unlink
  BY <1>5 DEF Unlink
<1>6. CASE Shutdown
  BY <1>6 DEF Shutdown
<1>7. CASE JoinIo
  <2>1. /\ core = "joinIo" /\ core' \in {"dropWriter", "crashed"} /\ main = "finished"
        /\ released' = ({"thread", "sink"} \cap made) \cup {"mq"}
        /\ gone' = gone \cup {held} /\ held = 1 /\ sinks \in {1, 2}
        /\ UNCHANGED <<main, application, quit, server, writer, worker, sinks, instance,
                       held, made, io, message>>
        /\ io \in {"none", "ended"}
    BY <1>7 DEF JoinIo
  <2>2. gone' \subseteq 1 .. sinks' /\ released' \subseteq {"mq", "sink", "thread"}
    BY <2>1
  <2>3. TypeOK'
    BY <2>1, <2>2
  <2>4. StagesInv' /\ SinksInv' /\ ThreadInv' /\ MessageInv'
    BY <2>1
  <2>5. QED BY <2>3, <2>4
<1>8. CASE DropWriter
  BY <1>8 DEF DropWriter
<1>9. CASE JoinWorker
  BY <1>9 DEF JoinWorker
<1>10. CASE DropThread
  BY <1>10 DEF DropThread
<1>11. QED
  BY <1>1, <1>2, <1>3, <1>4, <1>5, <1>6, <1>7, <1>8, <1>9, <1>10 DEF Teardown

(* Where the threads of a module that is unloaded from its event loop can  *)
(* be, together: what all its threads' promises to each other follow from. *)
THEOREM LifeInvariant ==
  ASSUME ~EarlyUnload
  PROVE  Spec => []LifeInv
<1>1. LifeInv /\ UNCHANGED vars => LifeInv'
  BY DEF vars, loop, parts, singleton, device, LifeInv, TypeOK, StagesInv, SinksInv,
         ThreadInv, MessageInv, TearingDown
<1>2. LifeInv /\ [Next]_vars => LifeInv'
  BY <1>1, MainKeeps, ThreadsKeep, TeardownKeeps DEF Next
<1>3. QED BY LifeStart, <1>2, PTL DEF Spec

(* The QThread of PAModule is never destroyed while it runs, which would   *)
(* end the process.                                                        *)
THEOREM ThreadIsNotDestroyedRunning ==
  ASSUME ~EarlyUnload
  PROVE  Spec => [](core # "aborted")
<1>1. LifeInv => core # "aborted"
  BY DEF LifeInv, StagesInv
<1>2. QED BY <1>1, LifeInvariant, PTL

(* The writer and the sink outlive the IO thread.                          *)
THEOREM IoThreadIsSafe ==
  ASSUME ~EarlyUnload
  PROVE  Spec => []IoUsesNothingGone
<1>1. LifeInv => IoUsesNothingGone
  BY DEF LifeInv, TypeOK, SinksInv, ThreadInv, IoUsesNothingGone, BeforeJoin, BeforeDrop,
         WriterMade
<1>2. QED BY <1>1, LifeInvariant, PTL

(* Nothing is torn down before the main thread is over.                    *)
THEOREM TeardownWaits ==
  ASSUME ~EarlyUnload
  PROVE  Spec => []MainThreadIsOver
<1>1. LifeInv => MainThreadIsOver
  BY DEF LifeInv, StagesInv, MainThreadIsOver
<1>2. QED BY <1>1, LifeInvariant, PTL

(* The IO thread's callbacks find the sink whose loop it runs until drop(),*)
(* and from then on at most one more.                                      *)
THEOREM OneSinkUntilUnload ==
  ASSUME ~EarlyUnload
  PROVE  Spec => []SecondSinkOnlyAtUnload
<1>1. LifeInv => SecondSinkOnlyAtUnload
  BY DEF LifeInv, TypeOK, StagesInv, SinksInv, ThreadInv, SecondSinkOnlyAtUnload,
         BeforeDrop, BeforeJoin, WriterMade, TearingDown
<1>2. QED BY <1>1, LifeInvariant, PTL

--------------------------------------------------------------------------------
(* Whoever waits is waiting for a thread that can answer                   *)

(* Nobody waits for the main thread or the IO thread when that has ended   *)
(* without an answer, has not been told, or waits in turn: what            *)
(* UnloadCompletes needs of the states.  Of the wait for the worker, which *)
(* nobody tells to end, it says nothing.                                   *)
THEOREM NobodyWaitsForTheDead ==
  ASSUME ~EarlyUnload
  PROVE  Spec => []EachWaitIsAnswered
<1>1. LifeInv => EachWaitIsAnswered
  BY DEF LifeInv, TypeOK, StagesInv, ThreadInv, MessageInv, EachWaitIsAnswered,
         BeforeDrop, BeforeJoin, WriterMade, TearingDown
<1>2. QED BY <1>1, LifeInvariant, PTL

--------------------------------------------------------------------------------
(* The types, whenever the module is unloaded                              *)

(* The destructor of a sink begins only after exec has made one to hold.   *)
EarlyInv ==
  /\ TypeOK
  /\ main = "none" <=> core = "load"
  /\ main \in WriterMade => held \in 1 .. sinks
  /\ core \in {"unlink", "shutdown", "joinIo"} => main \in WriterMade

(* An unload at any time keeps this much.                                 *)
LEMMA EarlyInvariant == Spec => []EarlyInv
<1>1. Init => EarlyInv
  BY LifeStart DEF LifeInv, Init, EarlyInv, WriterMade
<1>2. EarlyInv /\ [Next]_vars => EarlyInv'
  <2> SUFFICES ASSUME EarlyInv, [Next]_vars PROVE EarlyInv'
    OBVIOUS
  <2> USE DEF EarlyInv, TypeOK, WriterMade, CoreAt, MainAt, loop, parts, singleton, device
  <2>1. CASE Load
    BY <2>1 DEF Load
  <2>2. CASE MakeServer
    BY <2>2 DEF MakeServer
  <2>3. CASE MakeWriter
    BY <2>3 DEF MakeWriter, GetInstance
  <2>4. CASE InitSink
    BY <2>4 DEF InitSink
  <2>5. CASE InitSinkFails
    BY <2>5, LifecycleAssumption DEF InitSinkFails, MadeBefore
  <2>6. CASE PutSink
    BY <2>6 DEF PutSink
  <2>7. CASE WaitPut
    BY <2>7 DEF WaitPut
  <2>8. CASE Publish
    BY <2>8 DEF Publish
  <2>9. CASE EnterLoop
    <3>1. application' \in BOOLEAN /\ quit' \in BOOLEAN
      BY <2>9, Zenon DEF EnterLoop
    <3>2. TypeOK'
      BY <2>9, <3>1 DEF EnterLoop
    <3>3. (main \in WriterMade => held \in 1 .. sinks)'
      BY <2>9 DEF EnterLoop
    <3>4. QED BY <2>9, <3>2, <3>3 DEF EnterLoop
  <2>10. CASE LeaveLoop
    <3>1. application' \in BOOLEAN /\ quit' \in BOOLEAN
      BY <2>10, Zenon DEF LeaveLoop
    <3>2. TypeOK'
      BY <2>10, <3>1 DEF LeaveLoop
    <3>3. (main \in WriterMade => held \in 1 .. sinks)'
      BY <2>10 DEF LeaveLoop
    <3>4. QED BY <2>10, <3>2, <3>3 DEF LeaveLoop
  <2>11. CASE StartWrite
    BY <2>11 DEF StartWrite
  <2>12. CASE EndWrite
    BY <2>12 DEF EndWrite
  <2>13. CASE HandleState
    BY <2>13 DEF HandleState, GetInstance
  <2>14. CASE HandleShutdown
    BY <2>14 DEF HandleShutdown
  <2>15. CASE WorkerUses
    BY <2>15 DEF WorkerUses
  <2>16. CASE WorkerGoesOn
    BY <2>16 DEF WorkerGoesOn
  <2>17. CASE WorkerEnds
    BY <2>17 DEF WorkerEnds
  <2>18. CASE Unload
    BY <2>18 DEF Unload
  <2>19. CASE WaitMain
    BY <2>19 DEF WaitMain
  <2>20. CASE DropServer
    BY <2>20 DEF DropServer
  <2>21. CASE DropSink
    BY <2>21 DEF DropSink
  <2>22. CASE Unlink
    BY <2>22 DEF Unlink
  <2>23. CASE Shutdown
    BY <2>23 DEF Shutdown
  <2>24. CASE JoinIo
    BY <2>24 DEF JoinIo
  <2>25. CASE DropWriter
    BY <2>25 DEF DropWriter
  <2>26. CASE JoinWorker
    BY <2>26 DEF JoinWorker
  <2>27. CASE DropThread
    BY <2>27 DEF DropThread
  <2>28. CASE UNCHANGED vars
    BY <2>28 DEF vars
  <2>29. CASE WorkerRuns
    BY <2>29 DEF WorkerRuns
  <2>30. CASE WorkerQuits
    BY <2>30 DEF WorkerQuits
  <2>31. QED
    BY <2>1, <2>2, <2>3, <2>4, <2>5, <2>6, <2>7, <2>8, <2>9, <2>10, <2>11, <2>12,
       <2>13, <2>14, <2>15, <2>16, <2>17, <2>18, <2>19, <2>20, <2>21, <2>22,
       <2>23, <2>24, <2>25, <2>26, <2>27, <2>28, <2>29, <2>30
    DEF Next, MainStep, IoStep, Teardown
<1>3. QED BY <1>1, <1>2, PTL DEF Spec

(* The variables keep their types, also when the module is unloaded before *)
(* its event loop runs.                                                    *)
THEOREM LifeTypeCorrect == Spec => []TypeOK
<1>1. EarlyInv => TypeOK
  BY DEF EarlyInv
<1>2. QED BY <1>1, EarlyInvariant, PTL
================================================================================
