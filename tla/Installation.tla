----------------------------- MODULE Installation -----------------------------
(***************************************************************************)
(* The binary of LiteFS on one machine: manage.py litefs_download puts a   *)
(* file into the user's cache directory, manage.py litefs_check looks for  *)
(* it and runs it, and both go through FilesystemBinaryResolver.  Several  *)
(* processes run these commands while an operator installs, removes and    *)
(* chmods files.  Every call to the file system is a step.  A file is its  *)
(* two halves and its execute bit.                                         *)
(***************************************************************************)
EXTENDS Naturals, Sequences

CONSTANTS
  Procs,      \* processes, each of which runs one command after the other
  Places,     \* where the resolver looks, in order: $LITEFS_BINARY_PATH, the
              \* directories on $PATH, the cache directory
  Versions,   \* the versions that are asked for, each a different archive
  BINARY,     \* what a half of a binary holds that runs
  Touches     \* bound: how often the operator may intervene

ASSUME InstallAssumption ==
  /\ Places \in Seq(STRING) /\ Len(Places) > 0
  /\ \A i, j \in 1 .. Len(Places) : Places[i] = Places[j] => i = j
  /\ BINARY \notin Versions
  /\ {"nothing", "absent"} \cap (Versions \cup {BINARY}) = {}
  /\ Touches \in Nat

VARIABLES
  supported,  \* OsPlatformDetector knows this machine
  file,       \* file[i]: what is at Places[i]
  touched,    \* the operator's interventions so far
  pc,         \* pc[p]: the next step of p
  at,         \* at[p]: the place that p looks at next, or has found; 0 if there is none
  options,    \* options[p]: the command and its options
  result,     \* result[p]: how p's last command ended
  held,       \* history: held[p]: places with a file ever since p began to look
  seen,       \* history: seen[p]: the file that p's check was to judge
  steady,     \* history: steady[p]: it has not changed since
  blamed      \* history: a download was cut short, or two were mixed, since the file
              \* in the cache was last begun

procVars == <<pc, at, options, result>>
history == <<held, seen, steady, blamed>>
vars == <<supported, file, touched, procVars, history>>

Indices == 1 .. Len(Places)
Cache == Len(Places)    \* _get_cache_dir and _get_destination_path agree

Absent == [head |-> "absent", tail |-> "absent", executable |-> FALSE]
Halves == Versions \cup {BINARY, "nothing"}
File == [head : Halves, tail : Halves, executable : BOOLEAN] \cup {Absent}

\* A file that a version check would run: an archive, or a part of anything, would not.
Whole(f) == f.head = f.tail
Works(f) == f.head = BINARY /\ f.tail = BINARY

CheckOptions == [command |-> "check", force |-> FALSE, version |-> "nothing"]
Options == [command : {"download"}, force : BOOLEAN, version : Versions] \cup {CheckOptions}
\* "error": a CommandError, an exception or a signal ended the command.
Results == {"none", "error", "exists", "complete", "missing", "unusable", "corrupt", "ok"}
PCs == {"idle", "resolve", "resolved", "fetch", "open", "head", "tail", "exists", "access", "run"}

Init ==
  /\ supported \in BOOLEAN
  /\ file \in [Indices -> {Absent, [head |-> BINARY, tail |-> BINARY, executable |-> TRUE]}]
  /\ touched = 0
  /\ pc = [p \in Procs |-> "idle"]
  /\ at = [p \in Procs |-> 0]
  /\ options = [p \in Procs |-> CheckOptions]
  /\ result = [p \in Procs |-> "none"]
  /\ held = [p \in Procs |-> {}]
  /\ seen = [p \in Procs |-> Absent]
  /\ steady = [p \in Procs |-> FALSE]
  /\ blamed = FALSE

GoTo(p, from, to) == pc[p] = from /\ pc' = [pc EXCEPT ![p] = to]
End(p, from, kind) == GoTo(p, from, "idle") /\ result' = [result EXCEPT ![p] = kind]

Is(p, command) == options[p].command = command
Writers == {p \in Procs : pc[p] \in {"head", "tail"}}

\* The file at place i becomes f: whoever has it under judgement has an older one.
Put(i, f) ==
  /\ file' = [file EXCEPT ![i] = f]
  /\ held' = [p \in Procs |-> IF f = Absent /\ pc[p] = "resolve" THEN held[p] \ {i} ELSE held[p]]
  /\ steady' = [p \in Procs |-> steady[p] /\ (pc[p] = "idle" \/ at[p] # i \/ f = file[i])]

-------------------------------------------------------------------------------
\* handle of either command; only the download detects the platform.
Start(p, o) ==
  /\ pc[p] = "idle"
  /\ options' = [options EXCEPT ![p] = o]
  /\ \/ /\ o.command = "download" /\ ~supported
        /\ result' = [result EXCEPT ![p] = "error"]
        /\ UNCHANGED <<pc, at, held>>
     \/ /\ o.command = "check" \/ supported
        /\ result' = [result EXCEPT ![p] = "none"]
        /\ pc' = [pc EXCEPT ![p] = "resolve"]
        /\ at' = [at EXCEPT ![p] = 1]
        /\ held' = [held EXCEPT ![p] = {i \in Indices : file[i] # Absent}]
  /\ seen' = [seen EXCEPT ![p] = Absent]
  /\ steady' = [steady EXCEPT ![p] = FALSE]
  /\ UNCHANGED <<supported, file, touched, blamed>>

\* Mutant: a place is passed over if its file cannot be executed.
BugFound(f) == f.executable

\* path.exists()
Found(f) == f # Absent

\* resolve looks at one place after the other and stops at the first with a file.
Resolve(p) ==
  /\ pc[p] = "resolve"
  /\ LET f == file[at[p]] IN
     \/ /\ Found(f)
        /\ pc' = [pc EXCEPT ![p] = "resolved"]
        /\ seen' = [seen EXCEPT ![p] = f]
        /\ steady' = [steady EXCEPT ![p] = TRUE]
        /\ UNCHANGED at
     \/ /\ ~Found(f) /\ at[p] < Len(Places)
        /\ at' = [at EXCEPT ![p] = @ + 1]
        /\ UNCHANGED <<pc, seen, steady>>
     \/ /\ ~Found(f) /\ at[p] = Len(Places)
        /\ pc' = [pc EXCEPT ![p] = "resolved"]
        /\ at' = [at EXCEPT ![p] = 0]
        /\ UNCHANGED <<seen, steady>>
  /\ UNCHANGED <<supported, file, touched, options, result, held, blamed>>

-------------------------------------------------------------------------------
\* litefs_download: a file that is there is kept, unless --force is given, ...
KeepExisting(p) ==
  /\ Is(p, "download") /\ at[p] # 0 /\ ~options[p].force
  /\ End(p, "resolved", "exists")
  /\ UNCHANGED <<supported, file, touched, at, options, history>>

\* ... BinaryVersion.from_string raises for a version that is malformed, and mkdir may,
\* which nothing catches, ...
PrepareRaises(p) ==
  /\ Is(p, "download") /\ (at[p] = 0 \/ options[p].force)
  /\ End(p, "resolved", "error")
  /\ UNCHANGED <<supported, file, touched, at, options, history>>

\* ... and the archive of the release is asked for.
Prepare(p) ==
  /\ Is(p, "download") /\ (at[p] = 0 \/ options[p].force)
  /\ GoTo(p, "resolved", "fetch")
  /\ UNCHANGED <<supported, file, touched, at, options, result, history>>

\* The answer is read into memory, all of it; any other status raises.
Fetch(p) ==
  /\ GoTo(p, "fetch", "open")
  /\ UNCHANGED <<supported, file, touched, at, options, result, history>>

\* BinaryDownloader turns every exception into a failure.
FetchFails(p) ==
  /\ End(p, "fetch", "error")
  /\ UNCHANGED <<supported, file, touched, at, options, history>>

\* Mutant: the file is neither created nor emptied before it is written.
BugTruncated(f) == f

\* write_bytes empties a file that is there and keeps its mode.
Truncated(f) == [head |-> "nothing", tail |-> "nothing", executable |-> f.executable]

Open(p) ==
  /\ GoTo(p, "open", "head")
  /\ Put(Cache, Truncated(file[Cache]))
  /\ blamed' = /\ Writers # {}
               /\ \/ blamed
                  \/ \E q \in Writers : options[q].version # options[p].version
  /\ UNCHANGED <<supported, touched, at, options, result, seen>>

OpenFails(p) ==
  /\ End(p, "open", "error")
  /\ UNCHANGED <<supported, file, touched, at, options, history>>

\* Mutant: the second half is lost.
BugWriteTail(p) ==
  /\ End(p, "tail", "complete")
  /\ UNCHANGED <<supported, file, touched, at, options, history>>

\* The content is written in place, over whatever others write there.
WriteHead(p) ==
  /\ GoTo(p, "head", "tail")
  /\ Put(Cache, [file[Cache] EXCEPT !.head = options[p].version])
  /\ UNCHANGED <<supported, touched, at, options, result, seen, blamed>>

WriteTail(p) ==
  /\ End(p, "tail", "complete")
  /\ Put(Cache, [file[Cache] EXCEPT !.tail = options[p].version])
  /\ UNCHANGED <<supported, touched, at, options, seen, blamed>>

\* The disk is full.
WriteFails(p) ==
  /\ End(p, "head", "error") \/ End(p, "tail", "error")
  /\ blamed' = TRUE
  /\ UNCHANGED <<supported, file, touched, at, options, held, seen, steady>>

-------------------------------------------------------------------------------
\* litefs_check, the binary: InstallationChecker without a path, ...
NoPath(p) ==
  /\ Is(p, "check") /\ at[p] = 0
  /\ End(p, "resolved", "missing")
  /\ UNCHANGED <<supported, file, touched, at, options, history>>

HasPath(p) ==
  /\ Is(p, "check") /\ at[p] # 0
  /\ GoTo(p, "resolved", "exists")
  /\ UNCHANGED <<supported, file, touched, at, options, result, history>>

\* ... then whether the file exists, still, ...
Exists(p) ==
  /\ \/ GoTo(p, "exists", "access") /\ file[at[p]] # Absent /\ UNCHANGED result
     \/ End(p, "exists", "missing") /\ file[at[p]] = Absent
  /\ UNCHANGED <<supported, file, touched, at, options, history>>

\* Mutant: the execute bit is not looked at.
BugExecutable(f) == TRUE

\* os.access(path, X_OK), which is False if there is no file any more
Executable(f) == f.executable

\* ... whether it may be executed, ...
Access(p) ==
  /\ \/ GoTo(p, "access", "run") /\ Executable(file[at[p]]) /\ UNCHANGED result
     \/ End(p, "access", "unusable") /\ ~Executable(file[at[p]])
  /\ UNCHANGED <<supported, file, touched, at, options, history>>

\* ... and whether it runs: an OSError and a timeout count as a failure to run.
RunVersionCheck(p) ==
  /\ \/ End(p, "run", "ok") /\ Works(file[at[p]]) /\ file[at[p]].executable
     \/ End(p, "run", "corrupt")
  /\ UNCHANGED <<supported, file, touched, at, options, history>>

-------------------------------------------------------------------------------
\* A process is killed: what it has written stays.
Crash(p) ==
  /\ pc[p] # "idle"
  /\ End(p, pc[p], "error")
  /\ blamed' = (blamed \/ p \in Writers)
  /\ UNCHANGED <<supported, file, touched, at, options, held, seen, steady>>

\* What the operator does to a file by hand: install a binary, remove the file, or make
\* it executable, as the advice for UNUSABLE says.  Nobody takes away or replaces a file
\* that a download is writing.
Touch(i, f) ==
  /\ touched < Touches /\ f # file[i]
  /\ touched' = touched + 1
  /\ Put(i, f)
  /\ UNCHANGED <<supported, procVars, seen>>

Install(i) ==
  /\ i # Cache \/ Writers = {}
  /\ Touch(i, [head |-> BINARY, tail |-> BINARY, executable |-> TRUE])
  /\ blamed' = (blamed /\ i # Cache)

Remove(i) ==
  /\ i # Cache \/ Writers = {}
  /\ Touch(i, Absent)
  /\ blamed' = (blamed /\ i # Cache)

Chmod(i) ==
  /\ file[i] # Absent
  /\ Touch(i, [file[i] EXCEPT !.executable = TRUE])
  /\ UNCHANGED blamed

-------------------------------------------------------------------------------
Download(p) ==
  \/ KeepExisting(p) \/ PrepareRaises(p) \/ Prepare(p) \/ Fetch(p) \/ FetchFails(p)
  \/ Open(p) \/ OpenFails(p) \/ WriteHead(p) \/ WriteTail(p) \/ WriteFails(p)

Check(p) == NoPath(p) \/ HasPath(p) \/ Exists(p) \/ Access(p) \/ RunVersionCheck(p)

Next ==
  \/ \E p \in Procs : \/ \E o \in Options : Start(p, o)
                      \/ Resolve(p) \/ Download(p) \/ Check(p) \/ Crash(p)
  \/ \E i \in Indices : Install(i) \/ Remove(i) \/ Chmod(i)

Spec == Init /\ [][Next]_vars

-------------------------------------------------------------------------------
\* Every variable keeps its type.
TypeOK ==
  /\ supported \in BOOLEAN
  /\ file \in [Indices -> File]
  /\ touched \in 0 .. Touches
  /\ pc \in [Procs -> PCs]
  /\ at \in [Procs -> 0 .. Len(Places)]
  /\ options \in [Procs -> Options]
  /\ result \in [Procs -> Results]
  /\ held \in [Procs -> SUBSET Indices]
  /\ seen \in [Procs -> File]
  /\ steady \in [Procs -> BOOLEAN]
  /\ blamed \in BOOLEAN

\* A file that is there all the time is found: what the resolver comes back with is not
\* behind it, so that no download without --force begins, and no check says that
\* nothing is installed, next to a file that was there throughout.
ResolvedIsFirst ==
  \A p \in Procs : pc[p] # "idle" /\ pc[p] # "resolve" =>
    \A i \in held[p] : at[p] # 0 /\ at[p] <= i

\* What a check says is so, of a file that nobody changed meanwhile; only that it does
\* not run may be said of a binary that was too slow.
VerdictIsTrue ==
  \A p \in Procs : steady[p] =>
    /\ result[p] = "ok" => Works(seen[p]) /\ seen[p].executable
    /\ result[p] = "corrupt" => seen[p] # Absent /\ seen[p].executable
    /\ result[p] = "unusable" => seen[p] # Absent /\ ~seen[p].executable
    /\ result[p] # "missing"

\* A file in the cache with halves of different origin has a cause: it is being written,
\* or since it was last begun a download was cut short or met one of another version.
\* Downloads of one version do not disturb each other, and one more repairs the file.
TornHasCause == Whole(file[Cache]) \/ Writers # {} \/ blamed
===============================================================================
