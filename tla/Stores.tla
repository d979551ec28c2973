------------------------------- MODULE Stores -------------------------------
(***************************************************************************)
(* The two files that outlive the processes: the keyterms                   *)
(* (src/src/keyterms.rs) and the operating mode (src/src/mode.rs).  Command *)
(* processes change them -- `keyterms add`, `keyterms remove`, the          *)
(* interactive editor, `realtime on|off` -- and the daemon reads them.  A   *)
(* file is replaced by a synced temporary that is renamed over it.          *)
(*                                                                          *)
(* Processes fail in any step, are killed, and get the pid of an earlier    *)
(* one; the power may fail; the user may edit a file by hand.  A term is a   *)
(* model value: what makes one valid is not told apart, an invalid line     *)
(* makes the whole file Invalid.                                            *)
(*                                                                          *)
(* A definition marked faulty stands beside the one it is a variant of; it   *)
(* is used by no specification, only to see a property fail.                *)
(***************************************************************************)
EXTENDS Integers, Sequences, FiniteSets, SequencesExt

CONSTANTS
    Pids,          \* process ids of commands
    Terms,
    MaxTerms,      \* MAX_TERMS (1000 in the code)
    Attempts,      \* names tried for a temporary keyterms file (100)
    Batch, Realtime,
    None, Missing, Invalid,
    MaxCommands,   \* bound: commands run
    MaxMishaps     \* bound: processes killed, power failures, files edited by hand

Files == {"keyterms", "mode"}
Modes == {Batch, Realtime}
FileOf(job) == IF job = "mode" THEN "mode" ELSE "keyterms"
TempNames == [file : Files, pid : Pids, n : 0 .. Attempts - 1]

ASSUME StoresAssumption ==
    /\ MaxTerms \in Nat \ {0} /\ Attempts \in Nat \ {0}
    /\ MaxCommands \in Nat /\ MaxMishaps \in Nat
    /\ None # Missing /\ None # Invalid /\ Missing # Invalid
    /\ \A x \in {None, Missing, Invalid} :
         x \notin Seq(Terms) /\ x \notin Modes /\ x \notin TempNames

VARIABLES
    contents,     \* of each file, as processes read it
    durable,      \* of each file, as a power failure leaves it
    temps,        \* names of the temporary files
    proc,         \* command processes
    daemon,       \* "off", "starting" or "running"
    mode,         \* operating_mode of the running daemon
    \* history
    due,          \* what the keyterms commands that succeeded amount to
    overlap,      \* a command replaced a file it had not read in that state
    stray,        \* temporary files of processes that were killed
    unapplied,    \* a mode was stored and the command could not restart
    broken,       \* the user edited a file by hand
    commands, mishaps

files == <<contents, durable, temps>>
history == <<due, overlap, stray, unapplied, broken, mishaps>>
vars == <<files, proc, daemon, mode, commands, history>>

NoProc == [job |-> "none", at |-> "none", arg |-> None, base |-> None,
           terms |-> <<>>, selected |-> 0, temp |-> None]

-----------------------------------------------------------------------------
(* Reading.                                                                 *)

\* The loop of parse: terms[n] is its list after n lines.
Dedup(lines) ==
    LET terms[n \in 0 .. Len(lines)] ==
            IF n = 0 THEN <<>>
            ELSE IF lines[n] \in Range(terms[n - 1]) THEN terms[n - 1]
            ELSE Append(terms[n - 1], lines[n])
    IN terms[Len(lines)]

parse_Lenient(c) == IF c \in {Missing, Invalid} THEN <<>> ELSE Dedup(c)    \* faulty

\* The terms of a keyterms file, or None if it cannot be loaded: one invalid line
\* or one term too many is enough.
parse(c) ==
    IF c = Missing THEN <<>>
    ELSE IF c = Invalid \/ Len(Dedup(c)) > MaxTerms THEN None
    ELSE Dedup(c)

load_mode(c) == IF c = Missing THEN Batch ELSE IF c = Invalid THEN None ELSE c

\* What the user means by a file: its lines, each once.  For the history alone.
First(c) == {i \in DOMAIN c : \A j \in 1 .. i - 1 : c[j] # c[i]}
Rank(c, i) == Cardinality({j \in First(c) : j <= i})

Meant(c) ==
    IF c = Missing THEN <<>>
    ELSE IF c = Invalid THEN None
    ELSE [k \in 1 .. Cardinality(First(c)) |-> c[CHOOSE i \in First(c) : Rank(c, i) = k]]

Init ==
    /\ contents = [f \in Files |-> Missing] /\ durable = contents
    /\ temps = {} /\ proc = [p \in Pids |-> NoProc]
    /\ daemon = "starting" /\ mode = None
    /\ due = <<>> /\ overlap = FALSE /\ stray = {} /\ unapplied = FALSE
    /\ broken = FALSE /\ commands = 0 /\ mishaps = 0

Stays(p, changed) == proc' = [proc EXCEPT ![p] = changed]
Exits(p) == Stays(p, NoProc)

-----------------------------------------------------------------------------
(* Commands.                                                                *)

start(p, job, arg) ==
    /\ proc[p].job = "none" /\ commands < MaxCommands
    /\ commands' = commands + 1
    /\ Stays(p, [NoProc EXCEPT !.job = job, !.arg = arg,
                               !.at = IF job = "mode" THEN "create" ELSE "load"])
    /\ UNCHANGED <<files, daemon, mode, history>>

Start(p) ==
    \/ \E t \in Terms : start(p, "add", t) \/ start(p, "remove", t)
    \/ start(p, "edit", None)
    \/ \E m \in Modes : start(p, "mode", m)

\* terms.remove(position of t).
Without(terms, t) ==
    RemoveAt(terms, CHOOSE k \in DOMAIN terms :
                        terms[k] = t /\ \A j \in 1 .. k - 1 : terms[j] # t)

CanAdd(terms, t) == t \notin Range(terms) /\ Len(terms) < MaxTerms

\* The command goes on with what it loaded.
Accepts(c, terms) ==
    /\ terms # None
    /\ c.job = "add" => CanAdd(terms, c.arg)
    /\ c.job = "remove" => c.arg \in Range(terms)

\* The list after a command's change.
Effect(c, terms) ==
    IF terms = None THEN None
    ELSE IF c.job = "add" THEN Append(terms, c.arg) ELSE Without(terms, c.arg)

\* add_to_path and remove_from_path up to the write, and the editor's load.
load(p) ==
    LET c == proc[p]
        terms == parse(contents["keyterms"])
        loaded == [c EXCEPT !.base = Meant(contents["keyterms"])]
    IN /\ c.at = "load"
       /\ IF ~Accepts(c, terms) THEN Exits(p)
          ELSE IF c.job = "edit" THEN Stays(p, [loaded EXCEPT !.at = "editing", !.terms = terms])
          ELSE Stays(p, [loaded EXCEPT !.at = "create", !.terms = Effect(c, terms)])
       /\ UNCHANGED <<files, daemon, mode, history, commands>>

\* The editor works on the list it loaded at its start.
move_selection(selected, len, direction) ==
    IF len = 0 THEN 0 ELSE (selected + len + direction) % len

edit(p) ==
    LET c == proc[p]
        len == Len(c.terms)
    IN /\ c.at = "editing"
       /\ \/ \E d \in {-1, 1} :
               Stays(p, [c EXCEPT !.selected = move_selection(@, len, d)])
          \/ /\ len > 0
             /\ Stays(p, [c EXCEPT !.at = "create", !.arg = c.terms[c.selected + 1],
                                   !.terms = RemoveAt(@, c.selected + 1)])
          \/ Exits(p)
       /\ UNCHANGED <<files, daemon, mode, history, commands>>

-----------------------------------------------------------------------------
(* Replacing a file: write_to_path and store_at.                            *)

Names(p, f) == {n \in TempNames : n.file = f /\ n.pid = p /\ n \notin temps}

\* A keyterms file takes the first free name; a mode file has one, and the error
\* path removes what it finds there.
create(p) ==
    LET c == proc[p]
        f == FileOf(c.job)
        free == {n \in Names(p, f) : f = "mode" => n.n = 0}
    IN /\ c.at = "create"
       /\ \/ \E n \in free :
               /\ \A other \in free : n.n <= other.n
               /\ temps' = temps \cup {n}
               /\ Stays(p, [c EXCEPT !.at = "write", !.temp = n])
          \/ /\ f = "mode"
             /\ temps' = temps \ {[file |-> f, pid |-> p, n |-> 0]}
             /\ Exits(p)
          \/ /\ f = "keyterms"
             /\ Exits(p) /\ UNCHANGED temps
       /\ stray' = stray \cap temps'
       /\ UNCHANGED <<contents, durable, daemon, mode, due, overlap, unapplied, broken, mishaps, commands>>

fail_Leaving(p) ==                                                       \* faulty
    /\ proc[p].at = "write"
    /\ Exits(p)
    /\ UNCHANGED <<files, daemon, mode, history, commands>>

\* Writing, syncing or renaming fails: the temporary file is removed.
fail(p) ==
    /\ proc[p].at = "write"
    /\ temps' = temps \ {proc[p].temp}
    /\ Exits(p)
    /\ UNCHANGED <<contents, durable, daemon, mode, history, commands>>

\* The editor's list is one shorter now.
Selection(c) == Min({c.selected, IF c.terms = <<>> THEN 0 ELSE Len(c.terms) - 1})

\* What a rename leaves on the disk for now: the old file, or, if the new one was
\* not synced, maybe a part of the new one.
Durable_Unsynced(f) == [durable EXCEPT ![f] = Invalid]                   \* faulty
Durable(f) == durable

\* Write, sync and rename.  Until the rename nobody sees the temporary file.
replace(p) ==
    LET c == proc[p]
        f == FileOf(c.job)
        new == IF f = "mode" THEN c.arg ELSE c.terms
    IN /\ c.at = "write"
       /\ contents' = [contents EXCEPT ![f] = new]
       /\ durable' = Durable(f)
       /\ temps' = temps \ {c.temp}
       /\ IF f = "mode" THEN UNCHANGED <<due, overlap>>
          ELSE /\ overlap' = (overlap \/ c.base # Meant(contents[f]))
               /\ due' = IF overlap' THEN None ELSE Effect(c, due)
       /\ CASE c.job = "mode" -> Stays(p, [c EXCEPT !.at = "restart", !.temp = None])
            [] c.job = "edit" ->
                 Stays(p, [c EXCEPT !.at = "editing", !.selected = Selection(c), !.base = Meant(new),
                                    !.temp = None, !.arg = None])
            [] OTHER -> Exits(p)
       /\ UNCHANGED <<daemon, mode, stray, unapplied, broken, mishaps, commands>>

\* systemctl --user restart: the old daemon ends, a new one is started.
restart_Start(p) ==                                                      \* faulty
    /\ proc[p].at = "restart"
    /\ Exits(p)
    /\ daemon' = IF daemon = "off" THEN "starting" ELSE daemon
    /\ UNCHANGED <<files, mode, history, commands>>

restart(p) ==
    /\ proc[p].at = "restart"
    /\ Exits(p)
    /\ daemon' = "starting" /\ mode' = None
    /\ UNCHANGED <<files, history, commands>>

restart_fails(p) ==
    /\ proc[p].at = "restart"
    /\ Exits(p)
    /\ \/ UNCHANGED <<daemon, mode>>
       \/ daemon' = "off" /\ mode' = None
    /\ unapplied' = TRUE
    /\ UNCHANGED <<files, due, overlap, stray, broken, mishaps, commands>>

-----------------------------------------------------------------------------
(* The daemon: the mode is read once at its start; a malformed one ends it, *)
(* and systemd starts it again.                                             *)

daemon_starts ==
    /\ daemon = "starting"
    /\ load_mode(contents["mode"]) # None
    /\ daemon' = "running" /\ mode' = load_mode(contents["mode"])
    /\ unapplied' = FALSE
    /\ UNCHANGED <<files, proc, due, overlap, stray, broken, mishaps, commands>>

daemon_fails ==
    /\ daemon = "running" /\ mishaps < MaxMishaps
    /\ mishaps' = mishaps + 1
    /\ daemon' = "starting" /\ mode' = None
    /\ UNCHANGED <<files, proc, due, overlap, stray, unapplied, broken, commands>>

-----------------------------------------------------------------------------
(* What happens to processes and files.                                     *)

Kill(p) ==
    /\ proc[p].job # "none" /\ mishaps < MaxMishaps
    /\ mishaps' = mishaps + 1
    /\ stray' = stray \cup ({proc[p].temp} \ {None})
    /\ unapplied' = (unapplied \/ proc[p].at = "restart")
    /\ Exits(p)
    /\ UNCHANGED <<files, daemon, mode, due, overlap, broken, commands>>

\* The file system writes back what was renamed.
WriteBack(f) ==
    /\ durable[f] # contents[f]
    /\ durable' = [durable EXCEPT ![f] = contents[f]]
    /\ UNCHANGED <<contents, temps, proc, daemon, mode, history, commands>>

PowerFailure ==
    /\ mishaps < MaxMishaps
    /\ mishaps' = mishaps + 1
    /\ contents' = durable
    /\ temps' \in SUBSET temps /\ stray' = temps'
    /\ proc' = [p \in Pids |-> NoProc]
    /\ daemon' = "starting" /\ mode' = None
    /\ due' = Meant(durable["keyterms"]) /\ overlap' = FALSE
    /\ UNCHANGED <<durable, unapplied, broken, commands>>

\* The user writes a file: terms with a line twice, or something invalid.
HandEdit(f, c) ==
    /\ mishaps < MaxMishaps
    /\ mishaps' = mishaps + 1 /\ broken' = TRUE
    /\ contents' = [contents EXCEPT ![f] = c]
    /\ IF f = "mode" THEN UNCHANGED <<due, overlap>>
       ELSE due' = Meant(c) /\ overlap' = FALSE
    /\ unapplied' = (unapplied \/ f = "mode")
    /\ UNCHANGED <<durable, temps, proc, daemon, mode, stray, commands>>

-----------------------------------------------------------------------------
Command(p) ==
    \/ Start(p) \/ load(p) \/ edit(p) \/ create(p) \/ replace(p) \/ fail(p)
    \/ restart(p) \/ restart_fails(p)

Next ==
    \/ \E p \in Pids : Command(p) \/ Kill(p)
    \/ daemon_starts \/ daemon_fails
    \/ \E f \in Files : WriteBack(f)
    \/ PowerFailure
    \/ \E f \in Files : HandEdit(f, Invalid)
    \/ \E t \in Terms : HandEdit("keyterms", <<t, t>>)

Spec == Init /\ [][Next]_vars

-----------------------------------------------------------------------------
(* Properties.                                                              *)

\* Whatever fails and whenever: the files can be loaded, unless the user broke
\* them; one that cannot makes every transcription and every later command fail
\* (keyterms.rs:102-119 and 144-183, mode.rs:99-149).
StaysLoadable ==
    ~broken =>
        /\ parse(contents["keyterms"]) # None
        /\ load_mode(contents["mode"]) # None

\* The keyterms are what the commands that succeeded amount to, term by term,
\* unless one of them replaced a list it had not read: an editor left open, or two
\* commands at once.  A file that cannot be read is left alone (keyterms.rs:36-92).
UpdatesKept == overlap \/ Meant(contents["keyterms"]) = due

\* The daemon runs in the stored mode, unless a command is still between storing
\* and restarting, or could not restart (mode.rs:55-75, main.rs:126-127).
RunningMode ==
    daemon = "running" /\ load_mode(contents["mode"]) # mode =>
        unapplied \/ \E p \in Pids : proc[p].at = "restart"

\* Temporary files belong to a process that is about to rename them, except those
\* of processes that were killed (keyterms.rs:179-181, mode.rs:145-147).
NoTempLeft ==
    temps \subseteq stray \cup {proc[p].temp : p \in Pids}
=============================================================================
