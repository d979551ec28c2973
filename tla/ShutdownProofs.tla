--------------------------- MODULE ShutdownProofs ---------------------------
(***************************************************************************)
(* Proofs about Shutdown, for any devices, reader threads, channel          *)
(* capacities and number of keys: hotkey::run never awaits a manager that   *)
(* nothing will wake any more, and no device is read twice but by a thread  *)
(* whose entry the manager removed.                                         *)
(***************************************************************************)
EXTENDS Shutdown, TLAPS

-----------------------------------------------------------------------------
(* The inductive invariants.                                                *)

\* A task has a Notified only while it waits in its select!, and hotkey::run goes
\* on in order: state machine, manager, return.
NotifyInv ==
    /\ permit \in BOOLEAN
    /\ future \in [Tasks -> {"none", "waiting", "all", "one"}]
    /\ main # "loop" => future["main"] = "none"
    /\ sm # "select" => future["sm"] = "none"
    /\ manager # "select" => future["manager"] = "none"
    /\ run \in {"sm", "manager", "done"}
    /\ run # "sm" => sm = "ended"
    /\ ManagerWillHear

Live == Of("opening") \cup Of("reading") \cup Of("lost")

\* The entry of a device is the thread that reads it, or will, unless the entry was
\* removed while the thread was alive.
ReaderInv ==
    /\ thread \in [Threads -> [device : Devices \cup {None},
                               at : {"unused", "opening", "reading", "lost", "ended"}]]
    /\ active \in [Devices -> Threads \cup {None}]
    /\ present \subseteq Devices
    /\ \A r \in Live \ forgotten :
          thread[r].device \in Devices /\ active[thread[r].device] = r

IInv == NotifyInv /\ ReaderInv

\* The daemon starts in the invariant.
LEMMA InitIInv == Init => IInv
  <1> SUFFICES ASSUME Init
               PROVE  IInv
    OBVIOUS
  <1>1. NotifyInv
    BY DEF Init, NotifyInv, ManagerWillHear, Tasks
  <1>2. ReaderInv
    BY DEF Init, ReaderInv, Live, Of
  <1> QED BY <1>1, <1>2 DEF IInv

-----------------------------------------------------------------------------
(* Wake-ups.                                                                *)

\* A wake-up goes to a task that waits, or is kept as the permit.
LEMMA WakeLeaves ==
  ASSUME NEW futures \in [Tasks -> {"none", "waiting", "all", "one"}], Wake(futures), permit \in BOOLEAN
  PROVE  /\ permit' \in BOOLEAN /\ future' \in [Tasks -> {"none", "waiting", "all", "one"}]
         /\ permit => permit'
         /\ \A t \in Tasks : /\ futures[t] # "waiting" => future'[t] = futures[t]
                             /\ futures[t] = "waiting" => future'[t] \in {"waiting", "one"}
         /\ permit' \/ \E t \in Tasks : futures[t] = "waiting" /\ future'[t] = "one"
  <1>1. CASE permit' = TRUE /\ future' = futures
    BY <1>1
  <1>2. CASE \E t \in Tasks : /\ futures[t] = "waiting"
                              /\ future' = [futures EXCEPT ![t] = "one"]
                              /\ UNCHANGED permit
    BY <1>2
  <1> QED BY <1>1, <1>2 DEF Wake

\* A future that is dropped is gone, and the wake-up it held passed on.
LEMMA DropsLeaves ==
  ASSUME NEW t \in Tasks, NotifyInv, drops(t)
  PROVE  /\ permit' \in BOOLEAN /\ future' \in [Tasks -> {"none", "waiting", "all", "one"}]
         /\ permit => permit'
         /\ future'[t] = "none"
         /\ \A u \in Tasks : /\ future[u] # "waiting" /\ u # t => future'[u] = future[u]
                             /\ future[u] = "waiting" /\ u # t => future'[u] \in {"waiting", "one"}
         /\ future[t] = "one" =>
               permit' \/ \E u \in Tasks : u # t /\ future[u] = "waiting" /\ future'[u] = "one"
  <1> DEFINE futures == [future EXCEPT ![t] = "none"]
  <1>1. futures \in [Tasks -> {"none", "waiting", "all", "one"}] /\ futures[t] = "none"
        /\ \A u \in Tasks : u # t => futures[u] = future[u]
    BY DEF NotifyInv
  <1>2. CASE future[t] = "one"
    <2>1. Wake(futures)
      BY <1>2 DEF drops
    <2> HIDE DEF futures
    <2> QED BY <1>1, <2>1, WakeLeaves DEF NotifyInv
  <1>3. CASE future[t] # "one"
    <2>1. future' = futures /\ permit' = permit
      BY <1>3 DEF drops
    <2> HIDE DEF futures
    <2> QED BY <1>1, <1>3, <2>1 DEF NotifyInv
  <1> QED BY <1>2, <1>3

\* A task that is notified, or parks, changes its own future only.
LEMMA NotifiedLeaves ==
  ASSUME NEW t \in Tasks, NotifyInv, notified(t) \/ parks(t)
  PROVE  /\ permit' \in BOOLEAN /\ future' \in [Tasks -> {"none", "waiting", "all", "one"}]
         /\ \A u \in Tasks : u # t => future'[u] = future[u]
         /\ notified(t) => future'[t] = "none"
         /\ parks(t) => future[t] = "none" /\ permit' = permit /\ ~permit
  <1>1. permit' \in BOOLEAN
    BY Zenon DEF notified, parks, NotifyInv
  <1>2. /\ future' \in [Tasks -> {"none", "waiting", "all", "one"}]
        /\ \A u \in Tasks : u # t => future'[u] = future[u]
        /\ notified(t) => future'[t] = "none"
    BY DEF notified, parks, NotifyInv
  <1>3. parks(t) => future[t] = "none" /\ permit' = permit /\ ~permit
    BY Zenon DEF parks
  <1> QED BY <1>1, <1>2, <1>3

\* Steps of main.
LEMMA MainNotify == NotifyInv /\ (Main \/ recording_returns) => NotifyInv'
  <1> SUFFICES ASSUME NotifyInv, Main \/ recording_returns
               PROVE  NotifyInv'
    OBVIOUS
  <1> USE DEF taskVars, notifyVars, channelVars, Tasks
  <1>1. CASE main_recv \/ main_closed
    <2>1. /\ drops("main") /\ main = "loop"  /\ main' \in {"loop", "recording", "leaving"}
          /\ UNCHANGED <<sm, manager, run>>
      BY <1>1 DEF main_recv, main_closed
    <2>2. /\ permit' \in BOOLEAN /\ future' \in [Tasks -> {"none", "waiting", "all", "one"}]
          /\ future'["main"] = "none"
          /\ future["sm"] # "waiting" => future'["sm"] = future["sm"]
          /\ future["manager"] # "waiting" => future'["manager"] = future["manager"]
      BY <2>1, DropsLeaves
    <2> QED BY <2>1, <2>2 DEF NotifyInv, ManagerWillHear
  <1>2. CASE main_shutdown
    <2>1. /\ notified("main") /\ main' = "leaving" /\ UNCHANGED <<sm, manager, run>>
      BY <1>2 DEF main_shutdown
    <2> QED BY <2>1, NotifiedLeaves DEF NotifyInv, ManagerWillHear
  <1>3. CASE main_parks
    <2>1. /\ parks("main") /\ main = "loop" /\ UNCHANGED <<main, sm, manager, run>>
      BY <1>3 DEF main_parks
    <2> QED BY <2>1, NotifiedLeaves DEF NotifyInv, ManagerWillHear
  <1>4. CASE recording_recv \/ recording_returns \/ main_returns \/ Exit
    BY <1>4 DEF recording_recv, recording_returns, main_returns, Exit, NotifyInv, ManagerWillHear
  <1>5. CASE main_leaves
    <2>1. /\ Wake(future) /\ main = "leaving" /\ main' = "awaiting" /\ UNCHANGED <<sm, manager, run>>
      BY <1>5 DEF main_leaves, notify_one
    <2>2. /\ permit' \in BOOLEAN /\ future' \in [Tasks -> {"none", "waiting", "all", "one"}]
          /\ \A t \in Tasks : future[t] # "waiting" => future'[t] = future[t]
          /\ permit' \/ \E t \in Tasks : future[t] = "waiting" /\ future'[t] = "one"
      BY <2>1, WakeLeaves DEF NotifyInv
    <2>3. future["main"] = "none" /\ (run # "sm" => future["sm"] = "none")
      BY <2>1 DEF NotifyInv
    <2> QED BY <2>1, <2>2, <2>3 DEF NotifyInv, ManagerWillHear
  <1> QED BY <1>1, <1>2, <1>3, <1>4, <1>5 DEF Main

\* Steps of the state machine and of run, which awaits it.
LEMMA RunNotify == NotifyInv /\ (StateMachine \/ Run) => NotifyInv'
  <1> SUFFICES ASSUME NotifyInv, StateMachine \/ Run
               PROVE  NotifyInv'
    OBVIOUS
  <1> USE DEF taskVars, notifyVars, channelVars, Tasks
  <1>1. CASE sm_recv \/ sm_settle \/ sm_closed
    <2>1. /\ drops("sm") /\ sm = "select" /\ UNCHANGED <<main, manager, run>>
      BY <1>1 DEF sm_recv, sm_settle, sm_closed
    <2>2. /\ permit' \in BOOLEAN /\ future' \in [Tasks -> {"none", "waiting", "all", "one"}]
          /\ future'["sm"] = "none"
          /\ future["main"] # "waiting" => future'["main"] = future["main"]
          /\ future["manager"] # "waiting" => future'["manager"] = future["manager"]
      BY <2>1, DropsLeaves
    <2>3. run = "sm"
      BY <2>1 DEF NotifyInv
    <2> QED BY <2>1, <2>2, <2>3 DEF NotifyInv, ManagerWillHear
  <1>2. CASE sm_shutdown \/ sm_parks
    <2>1. /\ (notified("sm") /\ sm' = "ended") \/ (parks("sm") /\ sm' = sm)
          /\ sm = "select" /\ UNCHANGED <<main, manager, run>>
      BY <1>2 DEF sm_shutdown, sm_parks
    <2>2. run = "sm"
      BY <2>1 DEF NotifyInv
    <2> QED BY <2>1, <2>2, NotifiedLeaves DEF NotifyInv, ManagerWillHear
  <1>3. CASE sm_process \/ sm_send
    BY <1>3 DEF sm_process, sm_send, NotifyInv, ManagerWillHear
  <1>4. CASE run_notifies
    <2>1. /\ Wake(future) /\ sm = "ended" /\ run' = "manager" /\ UNCHANGED <<main, sm, manager>>
      BY <1>4 DEF run_notifies, notify_one
    <2>2. /\ permit' \in BOOLEAN /\ future' \in [Tasks -> {"none", "waiting", "all", "one"}]
          /\ \A t \in Tasks : future[t] # "waiting" => future'[t] = future[t]
          /\ permit' \/ \E t \in Tasks : future[t] = "waiting" /\ future'[t] = "one"
      BY <2>1, WakeLeaves DEF NotifyInv
    <2> QED BY <2>1, <2>2 DEF NotifyInv, ManagerWillHear
  <1>5. CASE run_returns
    BY <1>5 DEF run_returns, NotifyInv, ManagerWillHear
  <1> QED BY <1>1, <1>2, <1>3, <1>4, <1>5 DEF StateMachine, Run

\* Steps of the manager, and the signal.
LEMMA ManagerNotify == NotifyInv /\ (Manager \/ Signal) => NotifyInv'
  <1> SUFFICES ASSUME NotifyInv, Manager \/ Signal
               PROVE  NotifyInv'
    OBVIOUS
  <1> USE DEF taskVars, notifyVars, channelVars, Tasks
  <1>1. CASE scan
    <2>1. /\ manager = "scan" /\ manager' = "select"
          /\ UNCHANGED <<permit, future, main, sm, run>>
      BY <1>1 DEF scan, scanning
    <2> QED BY <2>1 DEF NotifyInv, ManagerWillHear
  <1>2. CASE manager_rescan
    <2>1. /\ drops("manager") /\ manager = "select" /\ manager' = "scan"
          /\ UNCHANGED <<main, sm, run>>
      BY <1>2 DEF manager_rescan
    <2>2. /\ permit' \in BOOLEAN /\ future' \in [Tasks -> {"none", "waiting", "all", "one"}]
          /\ permit => permit'
          /\ future'["manager"] = "none"
          /\ future["main"] # "waiting" => future'["main"] = future["main"]
          /\ future["sm"] # "waiting" => future'["sm"] = future["sm"]
          /\ future["manager"] = "one" =>
                permit' \/ future["main"] = "waiting" \/ future["sm"] = "waiting"
      BY <2>1, DropsLeaves
    <2> QED BY <2>1, <2>2 DEF NotifyInv, ManagerWillHear
  <1>3. CASE manager_shutdown
    <2>1. /\ notified("manager") /\ manager' = "ended" /\ UNCHANGED <<main, sm, run>>
      BY <1>3 DEF manager_shutdown
    <2> QED BY <2>1, NotifiedLeaves DEF NotifyInv, ManagerWillHear
  <1>4. CASE manager_parks
    <2>1. /\ parks("manager") /\ manager = "select" /\ UNCHANGED <<main, sm, manager, run>>
      BY <1>4 DEF manager_parks
    <2> QED BY <2>1, NotifiedLeaves DEF NotifyInv, ManagerWillHear
  <1>5. CASE Signal
    <2>1. /\ notify_waiters /\ UNCHANGED <<permit, main, sm, manager, run>>
      BY <1>5 DEF Signal
    <2>2. /\ future' \in [Tasks -> {"none", "waiting", "all", "one"}]
          /\ \A t \in Tasks : future[t] # "waiting" => future'[t] = future[t]
      BY <2>1 DEF notify_waiters, NotifyInv
    <2> QED BY <2>1, <2>2 DEF NotifyInv, ManagerWillHear
  <1> QED BY <1>1, <1>2, <1>3, <1>4, <1>5 DEF Manager

-----------------------------------------------------------------------------
(* Readers.                                                                 *)

\* What a pass of the manager does: a free thread for every device without one, and
\* the threads of devices that are gone are forgotten.
LEMMA ScanReaders == ReaderInv /\ scan => ReaderInv'
  <1> SUFFICES ASSUME ReaderInv, scan
               PROVE  ReaderInv'
    OBVIOUS
  <1> DEFINE devices == {d \in present : active[d] \in Finished \cup {None}}
             reader == CHOOSE f \in Assignments(devices) : TRUE
             gone == {active[d] : d \in Devices \ present} \ {None}
             free == Of("unused") \cup Finished
             owner(r) == CHOOSE d \in devices : reader[d] = r
  <1>1. /\ Assignments(devices) # {}
        /\ active' = [d \in Devices |->
               IF d \in devices THEN reader[d]
               ELSE IF d \in present THEN active[d] ELSE None]
        /\ thread' = [r \in Threads |->
               IF \E d \in devices : reader[d] = r
               THEN [device |-> owner(r), at |-> "opening"]
               ELSE IF r \in Finished THEN Unused ELSE thread[r]]
        /\ forgotten' = forgotten \cup (gone \ Finished)
        /\ UNCHANGED present
    BY DEF scan, scanning
  <1>2. devices \subseteq Devices /\ free \subseteq Threads
    BY DEF ReaderInv, Of, Finished
  <1>3. reader \in [devices -> free] /\ \A d, e \in devices : reader[d] = reader[e] => d = e
    <2>1. reader \in Assignments(devices)
      BY <1>1
    <2> QED BY <2>1 DEF Assignments
  <1>4. \A d \in devices : owner(reader[d]) = d
    <2> HIDE DEF devices, reader
    <2> QED BY <1>3
  <1>5. \A r \in Threads :
           \/ \E d \in devices : reader[d] = r /\ thread'[r] = [device |-> d, at |-> "opening"]
           \/ /\ \A d \in devices : reader[d] # r
              /\ thread'[r] = IF r \in Finished THEN Unused ELSE thread[r]
    <2> HIDE DEF devices, reader, owner
    <2> QED BY <1>1, <1>4
  <1>6. /\ active' \in [Devices -> Threads \cup {None}]
        /\ thread' \in [Threads -> [device : Devices \cup {None},
                                    at : {"unused", "opening", "reading", "lost", "ended"}]]
    <2>1. \A d \in devices : reader[d] \in Threads
      BY <1>2, <1>3
    <2>2. active' \in [Devices -> Threads \cup {None}]
      BY <1>1, <2>1 DEF ReaderInv
    <2>3. \A r \in Threads : thread'[r] \in [device : Devices \cup {None},
                                    at : {"unused", "opening", "reading", "lost", "ended"}]
      <3> DEFINE State == [device : Devices \cup {None},
                           at : {"unused", "opening", "reading", "lost", "ended"}]
      <3>1. /\ \A d \in devices : [device |-> d, at |-> "opening"] \in State
            /\ Unused \in State
            /\ \A r \in Threads : thread[r] \in State
        BY <1>2 DEF ReaderInv, Unused
      <3>2. ASSUME NEW r \in Threads
            PROVE  thread'[r] \in State
        <4> HIDE DEF devices, reader, State
        <4>1. \/ \E d \in devices : thread'[r] = [device |-> d, at |-> "opening"]
              \/ thread'[r] = Unused \/ thread'[r] = thread[r]
          BY <1>5, Zenon
        <4> QED BY <3>1, <4>1, Zenon
      <3> QED BY <3>2
    <2>4. thread' = [r \in Threads |-> thread'[r]]
      BY <1>1
    <2> QED BY <2>2, <2>3, <2>4
  <1>7. ASSUME NEW r \in Threads, thread'[r].at \in {"opening", "reading", "lost"}, r \notin forgotten'
        PROVE  thread'[r].device \in Devices /\ active'[thread'[r].device] = r
    <2>1. CASE \E d \in devices : reader[d] = r /\ thread'[r] = [device |-> d, at |-> "opening"]
      <3> HIDE DEF reader
      <3> QED BY <1>1, <1>2, <2>1
    <2>2. CASE /\ \A d \in devices : reader[d] # r
               /\ thread'[r] = IF r \in Finished THEN Unused ELSE thread[r]
      <3>1. r \notin Finished /\ thread'[r] = thread[r]
        BY <1>7, <2>2 DEF Unused
      <3>2. r \in Live \ forgotten
        BY <1>1, <1>7, <3>1 DEF Live, Of
      <3> DEFINE e == thread[r].device
      <3>3. e \in Devices /\ active[e] = r /\ r # None
        BY <3>2, ShutdownAssumption DEF ReaderInv
      <3>4. e \notin devices
        BY <3>1, <3>3
      <3>5. e \in present
        BY <1>1, <1>7, <3>1, <3>3
      <3> HIDE DEF devices
      <3> QED BY <1>1, <3>1, <3>3, <3>4, <3>5
    <2> QED BY <1>5, <1>7, <2>1, <2>2
  <1> QED BY <1>1, <1>6, <1>7 DEF ReaderInv, Live, Of

\* What a thread does to itself keeps the entry of its device.
LEMMA ThreadReaders ==
  ASSUME NEW r \in Threads, ReaderInv, Reader(r)
  PROVE  ReaderInv'
  <1> USE DEF othersThan_thread, Goes
  <1>1. CASE reader_opens(r)
    <2>1. /\ thread' = [thread EXCEPT ![r].at = "reading"] /\ thread[r].at = "opening"
          /\ UNCHANGED <<present, active, forgotten>>
      BY <1>1 DEF reader_opens
    <2> QED BY <2>1 DEF ReaderInv, Live, Of
  <1>2. CASE reader_ends(r)
    <2>1. /\ thread' = [thread EXCEPT ![r] = Unused] \/ thread' = [thread EXCEPT ![r].at = "ended"]
          /\ forgotten' = forgotten \ {r}
          /\ UNCHANGED <<present, active>>
      BY <1>2 DEF reader_ends
    <2>2. thread'[r].at \in {"unused", "ended"} /\ \A s \in Threads \ {r} : thread'[s] = thread[s]
      BY <2>1 DEF ReaderInv, Unused
    <2>3. thread' \in [Threads -> [device : Devices \cup {None},
                                   at : {"unused", "opening", "reading", "lost", "ended"}]]
      BY <2>1 DEF ReaderInv, Unused
    <2> QED BY <2>1, <2>2, <2>3 DEF ReaderInv, Live, Of
  <1> QED BY <1>1, <1>2 DEF Reader

\* A device that goes makes its reader lose it, no more.
LEMMA DeviceReaders ==
  ASSUME NEW d \in Devices, ReaderInv, Vanish(d) \/ Appear(d)
  PROVE  ReaderInv'
  <1>1. CASE Vanish(d)
    <2>1. /\ thread' = [r \in Threads |->
                IF thread[r] = [device |-> d, at |-> "reading"] THEN [thread[r] EXCEPT !.at = "lost"]
                ELSE thread[r]]
          /\ present' = present \ {d} /\ UNCHANGED <<active, forgotten>>
      BY <1>1 DEF Vanish
    <2>2. \A r \in Threads : thread'[r].device = thread[r].device
      BY <2>1 DEF ReaderInv
    <2>3. \A r \in Threads : thread'[r].at \in {"opening", "reading", "lost"}
                                <=> thread[r].at \in {"opening", "reading", "lost"}
      BY <2>1 DEF ReaderInv
    <2>4. thread' \in [Threads -> [device : Devices \cup {None},
                                   at : {"unused", "opening", "reading", "lost", "ended"}]]
      BY <2>1 DEF ReaderInv
    <2> QED BY <2>1, <2>2, <2>3, <2>4 DEF ReaderInv, Live, Of
  <1>2. CASE Appear(d)
    BY <1>2 DEF Appear, ReaderInv, Live, Of
  <1> QED BY <1>1, <1>2

-----------------------------------------------------------------------------
(* The theorems.                                                            *)

\* The invariant is inductive.
LEMMA NextIInv == IInv /\ [Next]_vars => IInv'
  <1> SUFFICES ASSUME IInv, [Next]_vars
               PROVE  NotifyInv' /\ ReaderInv'
    BY DEF IInv
  <1>1. CASE Signal \/ Main \/ recording_returns \/ StateMachine \/ Run \/ Manager
    <2>1. NotifyInv'
      BY <1>1, MainNotify, RunNotify, ManagerNotify DEF IInv
    <2>2. CASE scan
      BY <2>1, <2>2, ScanReaders DEF IInv
    <2>3. CASE ~scan
      <3>1. Signal \/ Main \/ recording_returns => UNCHANGED deviceVars
        BY DEF Signal, Main, main_recv, main_closed, main_shutdown, main_parks, recording_recv,
               main_leaves, main_returns, Exit, recording_returns
      <3>2. StateMachine \/ Run => UNCHANGED deviceVars
        BY DEF StateMachine, sm_recv, sm_settle, sm_shutdown, sm_closed, sm_parks, sm_process,
               sm_send, Run, run_notifies, run_returns
      <3>3. Manager => UNCHANGED deviceVars
        BY <2>3 DEF Manager, manager_rescan, manager_shutdown, manager_parks
      <3>4. UNCHANGED deviceVars
        BY <1>1, <3>1, <3>2, <3>3
      <3>5. ReaderInv'
        BY <3>4 DEF IInv, deviceVars, ReaderInv, Live, Of
      <3> QED BY <2>1, <3>5
    <2> QED BY <2>2, <2>3
  <1>2. CASE \E r \in Threads : Reader(r) \/ reader_sends(r)
    <2>1. PICK r \in Threads : Reader(r) \/ reader_sends(r)
      BY <1>2
    <2>2. UNCHANGED <<permit, future, main, sm, manager, run>>
      BY <2>1 DEF Reader, reader_opens, reader_ends, reader_sends, othersThan_thread, notifyVars,
                  taskVars
    <2>3. NotifyInv'
      BY <2>2 DEF IInv, NotifyInv, ManagerWillHear
    <2>4. reader_sends(r) => ReaderInv'
      BY DEF reader_sends, othersThan_thread, IInv, ReaderInv, Live, Of
    <2> QED BY <2>1, <2>3, <2>4, ThreadReaders DEF IInv
  <1>3. CASE \E d \in Devices : Vanish(d) \/ Appear(d)
    <2>1. UNCHANGED <<permit, future, main, sm, manager, run>>
      BY <1>3 DEF Vanish, Appear, notifyVars, taskVars
    <2>2. NotifyInv'
      BY <2>1 DEF IInv, NotifyInv, ManagerWillHear
    <2> QED BY <1>3, <2>2, DeviceReaders DEF IInv
  <1>4. CASE UNCHANGED vars
    <2>1. UNCHANGED <<permit, future, main, sm, manager, run, deviceVars>>
      BY <1>4 DEF vars, notifyVars, taskVars
    <2>2. NotifyInv'
      BY <2>1 DEF IInv, NotifyInv, ManagerWillHear
    <2>3. ReaderInv'
      BY <2>1 DEF IInv, deviceVars, ReaderInv, Live, Of
    <2> QED BY <2>2, <2>3
  <1> QED BY <1>1, <1>2, <1>3, <1>4 DEF Next

\* Every reachable state satisfies the invariant.
THEOREM Invariance == Spec => []IInv
  <1> QED BY InitIInv, NextIInv, PTL DEF Spec

\* While hotkey::run awaits the manager, a wake-up for it is left or still to come,
\* although three tasks share one Notify (hotkey.rs:283, main.rs:190).
THEOREM ManagerHears == Spec => []ManagerWillHear
  <1>1. IInv => ManagerWillHear
    BY DEF IInv, NotifyInv
  <1> QED BY <1>1, Invariance, PTL

\* No device is read twice, except by a thread whose entry the manager removed while
\* it still tried to open the device (hotkey.rs:174-205).
THEOREM ReadOnce == Spec => []OneReader
  <1>1. IInv => OneReader
    <2> SUFFICES ASSUME ReaderInv, NEW r \in Of("reading"), NEW s \in Of("reading"),
                        thread[r].device = thread[s].device, {r, s} \cap forgotten = {}
                 PROVE  r = s
      BY DEF IInv, OneReader
    <2>1. r \in Live \ forgotten /\ s \in Live \ forgotten
      BY DEF Live
    <2> QED BY <2>1 DEF ReaderInv
  <1> QED BY <1>1, Invariance, PTL
=============================================================================
