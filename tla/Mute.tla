-------------------------------- MODULE Mute --------------------------------
(***************************************************************************)
(* src/src/media.rs and src/src/mic.rs, with begin_recording of main.rs:    *)
(* the output sinks and the capture streams of other applications that a    *)
(* recording mutes with pactl, and what it gives back afterwards.           *)
(*                                                                          *)
(* The daemon shares the mute switches with their owners (the user, the     *)
(* applications): while it lists, mutes and restores one device after the   *)
(* other, they change switches and devices come and go.  A pactl command    *)
(* may fail, and nobody knows then whether it was carried out.              *)
(*                                                                          *)
(* An index is never used twice while the sound server runs.                *)
(*                                                                          *)
(* A definition marked faulty stands beside the one it is a variant of; it   *)
(* is used by no specification, only to see a property fail.                *)
(***************************************************************************)
EXTENDS Naturals

CONSTANTS
    Sinks,        \* output sinks
    Streams,      \* capture streams of other applications
    Own,          \* the capture stream of pw-record
    Monitors,     \* the streams that record a monitor source
    Tagged,       \* those of them whose metadata says so
    MaxChanges    \* bound: changes the owners make

ASSUME MuteAssumption ==
    /\ Sinks \cap Streams = {}
    /\ Own \notin Sinks \cup Streams
    /\ Monitors \subseteq Streams /\ Tagged \subseteq Monitors
    /\ MaxChanges \in Nat

Kinds == {"outputs", "mics"}
OfKind(kind) == IF kind = "outputs" THEN Sinks ELSE Streams \cup {Own}
Devices == Sinks \cup Streams \cup {Own}

VARIABLES
    enabled,      \* config.mute_audio_outputs, config.mute_other_mic_apps
    present,      \* devices the sound server lists
    fresh,        \* devices that have not appeared yet
    muted,        \* devices whose switch is on mute
    phase,        \* what the daemon is doing
    doing,        \* the kind of device it is doing it to
    todo,         \* devices its loop has still to visit
    snapshot,     \* muted_sinks, muted_streams
    changes,
    chosen,       \* history: devices whose owner last chose mute
    meddled,      \* history: devices whose owner last chose during a recording
    stuck,        \* history: a command failed on it since its owner last chose
    hush          \* history: devices this recording has to keep muted

deviceVars == <<present, fresh, muted>>
historyVars == <<chosen, meddled, stuck, hush>>
muteVars == <<enabled, deviceVars, phase, doing, todo, snapshot, changes, historyVars>>

MuteInit ==
    /\ enabled \in SUBSET Kinds
    /\ present \in SUBSET (Sinks \cup Streams)
    /\ fresh = (Sinks \cup Streams) \ present
    /\ muted \in SUBSET present
    /\ phase = "idle" /\ doing = "outputs" /\ todo = {}
    /\ snapshot = [kind \in Kinds |-> {}]
    /\ changes = 0
    /\ chosen = muted /\ meddled = {} /\ stuck = {} /\ hush = {}

-----------------------------------------------------------------------------
(* The owners of the switches.                                              *)

Choose(d, mute) ==
    /\ d \in present \ {Own} /\ changes < MaxChanges
    /\ changes' = changes + 1
    /\ muted' = IF mute THEN muted \cup {d} ELSE muted \ {d}
    /\ chosen' = IF mute THEN chosen \cup {d} ELSE chosen \ {d}
    /\ meddled' = IF phase = "idle" THEN meddled \ {d} ELSE meddled \cup {d}
    /\ stuck' = stuck \ {d}
    /\ hush' = hush \ {d}
    /\ UNCHANGED <<enabled, present, fresh, phase, doing, todo, snapshot>>

\* The owner decides how a device appears.
Appear(d, mute) ==
    /\ d \in fresh
    /\ fresh' = fresh \ {d}
    /\ present' = present \cup {d}
    /\ muted' = IF mute THEN muted \cup {d} ELSE muted
    /\ chosen' = IF mute THEN chosen \cup {d} ELSE chosen
    /\ UNCHANGED <<enabled, phase, doing, todo, snapshot, changes, meddled, stuck, hush>>

Vanish(d) ==
    /\ d \in present \ {Own}
    /\ present' = present \ {d}
    /\ UNCHANGED <<enabled, fresh, muted, phase, doing, todo, snapshot, changes, historyVars>>

-----------------------------------------------------------------------------
(* pactl.  A command on a device that is gone fails.                        *)

set_mute(d, mute) == muted' = IF mute THEN muted \cup {d} ELSE muted \ {d}

Succeeds(d, mute) ==
    /\ d \in present
    /\ set_mute(d, mute)
    /\ UNCHANGED <<stuck, hush>>

Fails(d, mute) ==
    /\ UNCHANGED muted \/ set_mute(d, mute)
    /\ stuck' = stuck \cup {d}
    /\ hush' = hush \ {d}

-----------------------------------------------------------------------------
(* The daemon: all but `press' and `stop_recording' are one pactl call.      *)

\* mem::take of a snapshot; the loop over it starts.
Take_Copied(kind, next) ==                                  \* faulty
    /\ phase' = next /\ doing' = kind
    /\ todo' = snapshot[kind]
    /\ UNCHANGED snapshot

Take(kind, next) ==
    /\ phase' = next /\ doing' = kind
    /\ todo' = snapshot[kind]
    /\ snapshot' = [snapshot EXCEPT ![kind] = {}]

Goto(next) == phase' = next /\ UNCHANGED <<doing, todo, snapshot>>

press ==
    /\ phase = "idle"
    /\ IF "outputs" \in enabled THEN Take("outputs", "stale") ELSE Goto("marker")
    /\ hush' = {}
    /\ UNCHANGED <<enabled, deviceVars, changes, chosen, meddled, stuck>>

\* restore_muted_outputs, MicMuteState::restore: one device of the loop.
restore_one ==
    /\ phase \in {"stale", "restore"}
    /\ \E d \in todo :
        /\ todo' = todo \ {d}
        /\ Succeeds(d, FALSE) \/ Fails(d, FALSE)
    /\ UNCHANGED <<enabled, present, fresh, phase, doing, snapshot, changes, chosen, meddled>>

\* What the code takes for a monitor, given that the sources could be listed.
TakenForMonitor(classified) == IF classified THEN Monitors ELSE Tagged

\* unmuted_sinks, microphone_capture_streams
Unmuted(classified) ==
    (present \cap OfKind(doing)) \ (muted \cup TakenForMonitor(classified))

\* The list of the outputs, or of the sources and the source outputs.  The
\* latter failing, or either list malformed, mutes nothing.
list ==
    /\ phase = "stale" /\ todo = {}
    /\ phase' = "mute"
    /\ \/ /\ \E classified \in BOOLEAN : todo' = Unmuted(classified)
          /\ hush' = hush \cup ((present \cap OfKind(doing)) \ Monitors)
       \/ UNCHANGED <<todo, hush>>
    /\ UNCHANGED <<enabled, deviceVars, doing, snapshot, changes, chosen, meddled, stuck>>

\* mute_unmuted_outputs, mute_other_apps: one device of the loop.
Remember(d) == snapshot' = [snapshot EXCEPT ![doing] = @ \cup {d}]

mute_one_UntilFailure ==                                    \* faulty
    /\ phase = "mute"
    /\ \E d \in todo :
        \/ todo' = todo \ {d} /\ Succeeds(d, TRUE) /\ Remember(d)
        \/ todo' = {} /\ Fails(d, TRUE) /\ UNCHANGED snapshot
    /\ UNCHANGED <<enabled, present, fresh, phase, doing, changes, chosen, meddled>>

mute_one ==
    /\ phase = "mute"
    /\ \E d \in todo :
        /\ todo' = todo \ {d}
        /\ \/ Succeeds(d, TRUE) /\ Remember(d)
           \/ Fails(d, TRUE) /\ UNCHANGED snapshot
    /\ UNCHANGED <<enabled, present, fresh, phase, doing, changes, chosen, meddled>>

mute_done ==
    /\ phase = "mute" /\ todo = {}
    /\ Goto(IF doing = "outputs" THEN "marker" ELSE "start")
    /\ UNCHANGED <<enabled, deviceVars, changes, historyVars>>

\* begin_recording after the outputs: the marker, which may fail, the streams.
marker ==
    /\ phase = "marker"
    /\ \/ "mics" \in enabled /\ Take("mics", "stale")
       \/ "mics" \notin enabled /\ Goto("start")
       \/ Take("outputs", "restore")
    /\ UNCHANGED <<enabled, deviceVars, changes, historyVars>>

start_recording ==
    /\ phase = "start"
    /\ \/ Goto("recording") /\ present' = present \cup {Own}
       \/ Take("outputs", "restore") /\ UNCHANGED present
    /\ UNCHANGED <<enabled, fresh, muted, changes, historyVars>>

stop_recording ==
    /\ phase = "recording"
    /\ present' = present \ {Own}
    /\ Take("outputs", "restore")
    /\ UNCHANGED <<enabled, fresh, muted, changes, historyVars>>

\* restore_recording_audio once more, from an overlapping cleanup path.
restore_recording_audio ==
    /\ phase = "idle"
    /\ Take("outputs", "restore")
    /\ UNCHANGED <<enabled, deviceVars, changes, historyVars>>

restore_done_OutputsOnly ==                                 \* faulty
    /\ phase = "restore" /\ todo = {}
    /\ Goto("idle")
    /\ UNCHANGED <<enabled, deviceVars, changes, historyVars>>

restore_done ==
    /\ phase = "restore" /\ todo = {}
    /\ IF doing = "outputs" THEN Take("mics", "restore") ELSE Goto("idle")
    /\ UNCHANGED <<enabled, deviceVars, changes, historyVars>>

-----------------------------------------------------------------------------
Owners ==
    \E d \in Devices :
        Vanish(d) \/ \E mute \in BOOLEAN : Appear(d, mute) \/ Choose(d, mute)

Daemon ==
    \/ press \/ restore_one \/ list \/ mute_one \/ mute_done
    \/ marker \/ start_recording \/ stop_recording \/ restore_recording_audio \/ restore_done

MuteNext == Owners \/ Daemon
MuteSpec == MuteInit /\ [][MuteNext]_muteVars

-----------------------------------------------------------------------------
(* Properties.                                                              *)

\* Types; a snapshot holds devices of its kind, a loop devices of the kind it
\* is at (OutputMuteState, MicMuteState).
TypeOK ==
    /\ enabled \subseteq Kinds /\ doing \in Kinds
    /\ present \subseteq Devices /\ fresh \subseteq Devices /\ muted \subseteq Devices
    /\ phase \in {"idle", "stale", "mute", "marker", "start", "recording", "restore"}
    /\ snapshot \in [Kinds -> SUBSET Devices]
    /\ todo \subseteq OfKind(doing)
    /\ \A kind \in Kinds : snapshot[kind] \subseteq OfKind(kind)
    /\ changes \in 0..MaxChanges
    /\ chosen \subseteq Devices /\ meddled \subseteq Devices
    /\ stuck \subseteq Devices /\ hush \subseteq Devices

\* Once a recording has given back what it took, a device is muted only when
\* its owner chose so, or a pactl command failed on it (main.rs:55-64).
MutesUndone == phase = "idle" => muted \subseteq chosen \cup stuck

\* A device its owner muted while no recording was on stays muted: "Sinks that
\* were already muted are deliberately left untouched" (media.rs:3-5), "Only
\* streams that were unmuted by this module are restored" (mic.rs:5-6).
ChoiceKept == chosen \ meddled \subseteq muted

\* While the daemon records, everything that was there when it listed is mute
\* unless its owner or a failed command interfered; its own stream never is
\* (main.rs:247-251).
RecordingIsPrivate == phase = "recording" => hush \subseteq muted /\ Own \notin muted

-----------------------------------------------------------------------------
(* The inductive invariant of the proofs in AudioProofs.                    *)

\* Devices the daemon has muted, and those it has an intention about.
Held == snapshot["outputs"] \cup snapshot["mics"]
          \cup (IF phase \in {"stale", "restore"} THEN todo ELSE {})
Claimed == Held \cup todo

\* Snapshots are consumed by the way back to rest.
RestInv ==
    /\ phase = "idle" => Claimed = {}
    /\ phase = "restore" => snapshot["outputs"] = {} /\ (doing = "mics" => snapshot["mics"] = {})

\* What is muted against its owner's choice is accounted for.
HeldInv == muted \subseteq chosen \cup stuck \cup Held

\* The daemon only touches devices whose owner has not muted them at rest.
ClaimInv == Claimed \cap chosen \subseteq meddled /\ fresh \cap (present \cup Claimed) = {}

\* Nothing to be mute escapes, and the own stream comes after the lists.
HushInv ==
    /\ phase \in {"stale", "marker", "start", "recording"} => hush \subseteq muted
    /\ phase = "mute" => hush \subseteq muted \cup todo
    /\ phase = "marker" => hush \cap OfKind("mics") = {}
    /\ phase = "stale" => hush \cap OfKind(doing) = {}
    /\ phase \in {"stale", "mute"} /\ doing = "outputs" => hush \cap OfKind("mics") = {}
    /\ Own \notin muted \cup Claimed \cup fresh
    /\ Own \in present => phase = "recording"

MuteInv == TypeOK /\ RestInv /\ HeldInv /\ ClaimInv /\ ChoiceKept /\ HushInv
=============================================================================
