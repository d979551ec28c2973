------------------------------ MODULE Shutdown ------------------------------
(***************************************************************************)
(* How the daemon ends: the signal task and the event loop (src/src/main.rs *)
(* lines 122-194), hotkey::run with its state machine, device manager and   *)
(* reader threads (src/src/hotkey.rs), which share one tokio Notify and two *)
(* channels.                                                                *)
(*                                                                          *)
(* A Notify holds at most one permit.  notify_one wakes one waiting future  *)
(* or leaves the permit; notify_waiters wakes the futures that wait at that *)
(* moment and nobody later.  A future that was woken and is dropped because *)
(* another branch of its select! was taken passes a notify_one on, and      *)
(* forgets a notify_waiters.  (tokio wakes the oldest waiter; here any.)    *)
(*                                                                          *)
(* Keys are counted, not told apart: a transition may or may not yield an   *)
(* event, an event may or may not start a recording (Hotkey and Recording   *)
(* have the rest).                                                          *)
(*                                                                          *)
(* A definition marked faulty stands beside the one it is a variant of; it   *)
(* is used by no specification, only to see a property fail.                *)
(***************************************************************************)
EXTENDS Naturals, FiniteSets

CONSTANTS
    Devices,      \* paths of F24 devices
    Threads,      \* reader threads, as many as may ever live at a time
    None,
    EventCap,     \* capacity of the hotkey channel (32 in the code)
    RawCap,       \* capacity of the raw channel (128)
    MaxKeys,      \* bound: transitions read
    MaxUnplugs    \* bound: devices that go

ASSUME ShutdownAssumption ==
    /\ None \notin Devices \cup Threads
    /\ EventCap \in Nat \ {0} /\ RawCap \in Nat \ {0}
    /\ MaxKeys \in Nat /\ MaxUnplugs \in Nat

Tasks == {"main", "sm", "manager"}

VARIABLES
    \* shutdown_notify
    permit,
    future,       \* of each task, its Notified: "none", "waiting", "all" or "one"
    signalled,    \* notify_waiters was called
    heard,        \* history: the tasks that acted on it
    \* tasks
    main,         \* "loop", "recording", "leaving", "awaiting" or "returned"
    sm,           \* the state machine: "select", "process", "send" or "ended"
    settling,     \* settle_deadline is Some
    manager,      \* "scan", "select" or "ended"
    run,          \* hotkey::run awaits "sm", then "manager", then is "done"
    \* channels
    events, raw,
    \* devices and their readers
    present,      \* devices that can be opened
    thread,       \* [device, at]; at is "unused", "opening", "reading", "lost" or "ended"
    active,       \* active_readers: of each device its thread, or None
    forgotten,    \* history: live threads whose entry was removed
    keys, unplugs,
    exited        \* the process has ended

notifyVars == <<permit, future, heard>>
taskVars == <<main, sm, settling, manager, run>>
channelVars == <<events, raw>>
deviceVars == <<present, thread, active, forgotten, keys, unplugs>>
vars == <<notifyVars, signalled, taskVars, channelVars, deviceVars, exited>>

Init ==
    /\ permit = FALSE /\ future = [t \in Tasks |-> "none"]
    /\ signalled = FALSE /\ heard = {}
    /\ main = "loop" /\ sm = "select" /\ settling = FALSE
    /\ manager = "scan" /\ run = "sm"
    /\ events = 0 /\ raw = 0
    /\ present \in SUBSET Devices
    /\ thread = [r \in Threads |-> [device |-> None, at |-> "unused"]]
    /\ active = [d \in Devices |-> None]
    /\ forgotten = {} /\ keys = 0 /\ unplugs = 0
    /\ exited = FALSE

Of(at) == {r \in Threads : thread[r].at = at}

\* Who still holds the other end of a channel.
HotkeyOpen == main \notin {"awaiting", "returned"}
HotkeyClosed == sm = "ended" /\ events = 0
RawOpen == sm # "ended"
RawClosed == raw = 0 /\ manager = "ended" /\ Of("opening") \cup Of("reading") \cup Of("lost") = {}

-----------------------------------------------------------------------------
(* Notify.                                                                  *)

Wake(futures) ==
    \/ \E t \in Tasks :
        /\ futures[t] = "waiting"
        /\ future' = [futures EXCEPT ![t] = "one"]
        /\ UNCHANGED permit
    \/ /\ \A t \in Tasks : futures[t] # "waiting"
       /\ future' = futures /\ permit' = TRUE

notify_one == Wake(future)

notify_waiters ==
    future' = [t \in Tasks |-> IF future[t] = "waiting" THEN "all" ELSE future[t]]

\* The task's notified() is ready, and is the branch taken.
notified(t) ==
    /\ future[t] \in {"all", "one"} \/ (future[t] = "none" /\ permit)
    /\ permit' = (permit /\ future[t] # "none")
    /\ heard' = IF future[t] = "all" THEN heard \cup {t} ELSE heard
    /\ future' = [future EXCEPT ![t] = "none"]

\* Nothing is ready: the task waits.
parks(t) ==
    /\ future[t] = "none" /\ ~permit
    /\ future' = [future EXCEPT ![t] = "waiting"]
    /\ UNCHANGED <<permit, heard>>

\* Another branch is taken, and the future dropped.
drops(t) ==
    /\ IF future[t] = "one" THEN Wake([future EXCEPT ![t] = "none"])
       ELSE /\ future' = [future EXCEPT ![t] = "none"]
            /\ UNCHANGED permit
    /\ UNCHANGED heard

\* SIGTERM or SIGINT.  The signal task ends with it: a second one is ignored.
Signal ==
    /\ ~signalled /\ main # "returned"
    /\ signalled' = TRUE
    /\ notify_waiters
    /\ UNCHANGED <<permit, heard, taskVars, channelVars, deviceVars, exited>>

-----------------------------------------------------------------------------
(* The event loop.                                                          *)

main_recv ==
    /\ main = "loop" /\ events > 0
    /\ events' = events - 1
    /\ main' \in {"loop", "recording"}
    /\ drops("main")
    /\ UNCHANGED <<signalled, sm, settling, manager, run, raw, deviceVars, exited>>

main_closed ==
    /\ main = "loop" /\ HotkeyClosed
    /\ main' = "leaving"
    /\ drops("main")
    /\ UNCHANGED <<signalled, sm, settling, manager, run, channelVars, deviceVars, exited>>

main_shutdown ==
    /\ main = "loop" /\ notified("main")
    /\ main' = "leaving"
    /\ UNCHANGED <<signalled, sm, settling, manager, run, channelVars, deviceVars, exited>>

main_parks ==
    /\ main = "loop" /\ events = 0 /\ ~HotkeyClosed
    /\ parks("main")
    /\ UNCHANGED <<signalled, taskVars, channelVars, deviceVars, exited>>

\* A recording takes what arrives, and returns in the end (Recording).
recording_recv ==
    /\ main = "recording" /\ events > 0
    /\ events' = events - 1
    /\ UNCHANGED <<notifyVars, signalled, taskVars, raw, deviceVars, exited>>

recording_returns ==
    /\ main = "recording"
    /\ main' = "loop"
    /\ UNCHANGED <<notifyVars, signalled, sm, settling, manager, run, channelVars, deviceVars, exited>>

main_leaves_Silently ==                                     \* faulty
    /\ main = "leaving"
    /\ main' = "awaiting"
    /\ UNCHANGED <<notifyVars, signalled, sm, settling, manager, run, channelVars, deviceVars, exited>>

\* notify_one, and the receiver is dropped.
main_leaves ==
    /\ main = "leaving"
    /\ notify_one
    /\ main' = "awaiting"
    /\ UNCHANGED <<heard, signalled, sm, settling, manager, run, channelVars, deviceVars, exited>>

main_returns ==
    /\ main = "awaiting" /\ run = "done"
    /\ main' = "returned"
    /\ UNCHANGED <<notifyVars, signalled, sm, settling, manager, run, channelVars, deviceVars, exited>>

\* The runtime is dropped, which waits for the threads of spawn_blocking.
Exit ==
    /\ main = "returned" /\ ~exited
    /\ \A r \in Threads : thread[r].at \in {"unused", "ended"}
    /\ exited' = TRUE
    /\ UNCHANGED <<notifyVars, signalled, taskVars, channelVars, deviceVars>>

Main ==
    \/ main_recv \/ main_closed \/ main_shutdown \/ main_parks \/ recording_recv
    \/ main_leaves \/ main_returns \/ Exit

-----------------------------------------------------------------------------
(* hotkey::run and its state machine.                                       *)

sm_recv ==
    /\ sm = "select" /\ raw > 0
    /\ raw' = raw - 1
    /\ sm' = "process"
    /\ drops("sm")
    /\ UNCHANGED <<signalled, main, settling, manager, run, events, deviceVars, exited>>

\* The timer, of a biased select!: ReleaseCompleted.
sm_settle ==
    /\ sm = "select" /\ settling /\ raw = 0
    /\ settling' = FALSE /\ sm' = "send"
    /\ drops("sm")
    /\ UNCHANGED <<signalled, main, manager, run, channelVars, deviceVars, exited>>

sm_shutdown ==
    /\ sm = "select" /\ (settling => raw = 0)
    /\ notified("sm")
    /\ sm' = "ended"
    /\ UNCHANGED <<signalled, main, settling, manager, run, channelVars, deviceVars, exited>>

sm_closed ==
    /\ sm = "select" /\ RawClosed
    /\ sm' = "ended"
    /\ drops("sm")
    /\ UNCHANGED <<signalled, main, settling, manager, run, channelVars, deviceVars, exited>>

sm_parks ==
    /\ sm = "select" /\ raw = 0 /\ ~RawClosed
    /\ parks("sm")
    /\ UNCHANGED <<signalled, taskVars, channelVars, deviceVars, exited>>

\* HotkeyState::process: maybe an event, maybe a deadline.
sm_process ==
    /\ sm = "process"
    /\ sm' \in {"select", "send"}
    /\ settling' \in BOOLEAN
    /\ UNCHANGED <<notifyVars, signalled, main, manager, run, channelVars, deviceVars, exited>>

\* tx.send().await: waits for room, and fails once the receiver is gone.
sm_send ==
    /\ sm = "send"
    /\ \/ /\ HotkeyOpen /\ events < EventCap
          /\ events' = events + 1 /\ sm' = "select"
       \/ /\ ~HotkeyOpen
          /\ sm' = "ended" /\ UNCHANGED events
    /\ UNCHANGED <<notifyVars, signalled, main, settling, manager, run, raw, deviceVars, exited>>

StateMachine == sm_recv \/ sm_settle \/ sm_shutdown \/ sm_closed \/ sm_parks \/ sm_process \/ sm_send

run_notifies_Waiters ==                                     \* faulty
    /\ run = "sm" /\ sm = "ended"
    /\ run' = "manager"
    /\ notify_waiters
    /\ UNCHANGED <<permit, heard, signalled, main, sm, settling, manager, channelVars, deviceVars, exited>>

run_notifies ==
    /\ run = "sm" /\ sm = "ended"
    /\ run' = "manager"
    /\ notify_one
    /\ UNCHANGED <<heard, signalled, main, sm, settling, manager, channelVars, deviceVars, exited>>

run_returns ==
    /\ run = "manager" /\ manager = "ended"
    /\ run' = "done"
    /\ UNCHANGED <<notifyVars, signalled, main, sm, settling, manager, channelVars, deviceVars, exited>>

Run == run_notifies \/ run_returns

-----------------------------------------------------------------------------
(* The device manager.                                                      *)

Finished == {r \in Threads : thread[r].at = "ended"}
Unused == [device |-> None, at |-> "unused"]

\* A free thread for each of the devices.
Assignments(devices) ==
    {f \in [devices -> Of("unused") \cup Finished] : \A d, e \in devices : f[d] = f[e] => d = e}

\* One pass: the entries of finished readers go, each of the devices given gets a
\* reader, and the entries of devices that are gone are removed.  (There is always
\* a thread to be had in the code; here while Threads are left.)
scanning(devices) ==
    /\ manager = "scan" /\ Assignments(devices) # {}
    /\ LET reader == CHOOSE f \in Assignments(devices) : TRUE
           gone == {active[d] : d \in Devices \ present} \ {None}
       IN /\ active' = [d \in Devices |->
               IF d \in devices THEN reader[d]
               ELSE IF d \in present THEN active[d] ELSE None]
          /\ thread' = [r \in Threads |->
               IF \E d \in devices : reader[d] = r
               THEN [device |-> CHOOSE d \in devices : reader[d] = r, at |-> "opening"]
               ELSE IF r \in Finished THEN Unused ELSE thread[r]]
          /\ forgotten' = forgotten \cup (gone \ Finished)
    /\ manager' = "select"
    /\ UNCHANGED <<notifyVars, signalled, main, sm, settling, run, channelVars,
                   present, keys, unplugs, exited>>

scan_All == scanning(present)                                        \* faulty

scan == scanning({d \in present : active[d] \in Finished \cup {None}})

\* Ten seconds later.
manager_rescan ==
    /\ manager = "select" /\ future["manager"] # "none"
    /\ drops("manager")
    /\ manager' = "scan"
    /\ UNCHANGED <<signalled, main, sm, settling, run, channelVars, deviceVars, exited>>

manager_shutdown ==
    /\ manager = "select" /\ notified("manager")
    /\ manager' = "ended"
    /\ UNCHANGED <<signalled, main, sm, settling, run, channelVars, deviceVars, exited>>

manager_parks ==
    /\ manager = "select" /\ parks("manager")
    /\ UNCHANGED <<signalled, taskVars, channelVars, deviceVars, exited>>

Manager == scan \/ manager_rescan \/ manager_shutdown \/ manager_parks

-----------------------------------------------------------------------------
(* Readers, and the devices they read.                                      *)

Goes(r, at) == thread' = [thread EXCEPT ![r].at = at]
othersThan_thread ==
    <<notifyVars, signalled, taskVars, present, active, unplugs, exited>>

\* Device::open, in a loop that nothing but success ends.
reader_opens(r) ==
    /\ thread[r].at = "opening" /\ thread[r].device \in present
    /\ Goes(r, "reading")
    /\ UNCHANGED <<othersThan_thread, channelVars, forgotten, keys>>

reader_sends(r) ==
    /\ thread[r].at = "reading" /\ keys < MaxKeys
    /\ RawOpen /\ raw < RawCap
    /\ raw' = raw + 1 /\ keys' = keys + 1
    /\ UNCHANGED <<othersThan_thread, thread, forgotten, events>>

\* The receiver is gone, or the device.
reader_ends(r) ==
    /\ thread[r].at = "lost" \/ (thread[r].at = "reading" /\ ~RawOpen)
    /\ IF r \in forgotten THEN thread' = [thread EXCEPT ![r] = Unused]
       ELSE Goes(r, "ended")
    /\ forgotten' = forgotten \ {r}
    /\ UNCHANGED <<othersThan_thread, channelVars, keys>>

Reader(r) == reader_opens(r) \/ reader_ends(r)

Vanish(d) ==
    /\ d \in present /\ unplugs < MaxUnplugs
    /\ present' = present \ {d} /\ unplugs' = unplugs + 1
    /\ thread' = [r \in Threads |->
         IF thread[r] = [device |-> d, at |-> "reading"] THEN [thread[r] EXCEPT !.at = "lost"]
         ELSE thread[r]]
    /\ UNCHANGED <<notifyVars, signalled, taskVars, channelVars, active, forgotten, keys, exited>>

Appear(d) ==
    /\ d \notin present /\ ~exited
    /\ present' = present \cup {d}
    /\ UNCHANGED <<notifyVars, signalled, taskVars, channelVars, thread, active, forgotten,
                   keys, unplugs, exited>>

-----------------------------------------------------------------------------
Next ==
    \/ Signal \/ Main \/ recording_returns \/ StateMachine \/ Run \/ Manager
    \/ \E r \in Threads : Reader(r) \/ reader_sends(r)
    \/ \E d \in Devices : Vanish(d) \/ Appear(d)

\* Every task and thread is scheduled, and a recording returns (HandlerReturns
\* of Recording).  Nothing is promised of the user: no signal, key or device.
Fairness ==
    /\ WF_vars(Main) /\ WF_vars(recording_returns)
    /\ WF_vars(StateMachine) /\ WF_vars(Run) /\ WF_vars(Manager)
    /\ \A r \in Threads : WF_vars(Reader(r))

Spec == Init /\ [][Next]_vars /\ Fairness

-----------------------------------------------------------------------------
(* Properties.                                                              *)

\* A thread that retries to open a device that is not there.
StuckReader == \E r \in Of("opening") : thread[r].device \notin present

\* The process ends once the signal reached the state machine, or the event
\* loop and the manager (whose notify_one then has nobody but the state machine
\* to wake) -- unless a reader thread retries to open a device that is gone,
\* which the runtime waits for (main.rs:161-194, hotkey.rs:214-284, 348-356).
EndsOnceHeard ==
    []<>StuckReader
    \/ (("sm" \in heard \/ {"main", "manager"} \subseteq heard) ~> exited)

\* run awaits the manager only while a wake-up for it is left or still to come,
\* although one Notify serves three tasks and every wake-up may be taken by
\* another (hotkey.rs:283, main.rs:190).
ManagerWillHear ==
    run = "manager" /\ manager # "ended" =>
        permit \/ future["manager"] = "one" \/ main \notin {"awaiting", "returned"}

\* No device is read twice, which would double every key, except by a thread that
\* still tried to open it when the manager found it gone and removed the entry
\* (hotkey.rs:174-205).
OneReader ==
    \A r, s \in Of("reading") :
        r # s /\ thread[r].device = thread[s].device => {r, s} \cap forgotten # {}
=============================================================================
