----------------------------- MODULE PrimaryMarker -----------------------------
(***************************************************************************)
(* The .primary file of one node: who writes it, who removes it.  Every    *)
(* process that imports the Django app (a server worker, a management      *)
(* command) runs LiteFSConfig.ready of apps.py when it starts, and the     *)
(* clean-up it registered when it exits; a step is what it does up to its  *)
(* next access to the file system.  With Raft the file belongs to LiteFS.  *)
(* Names of files and the contents of log lines are left out.              *)
(***************************************************************************)
EXTENDS Naturals

CONSTANTS
  Workers,  \* processes of the node that run the Django app
  Configs   \* the configurations the node may have

\* What LITEFS and LITEFS_NODE_ID make of a node: no settings, which is dev mode,
\* settings that do not validate, a static election without a node id, on a replica
\* or on the designated primary, or Raft.
AllConfigs == {"unset", "invalid", "no_node_id", "replica", "primary", "raft"}

ASSUME MarkerAssumption == Configs \subseteq AllConfigs

VARIABLES
  config,      \* the node's configuration, which never changes
  mounted,     \* the mount path exists
  marker,      \* the content of .primary, or Absent
  pc,          \* pc[w]: the next step of process w
  registered,  \* processes whose clean-up is registered with atexit
  linked,      \* processes whose open file is the one that .primary names
  leftover,    \* history: a crash or a failed call left the marker that is there
  removed      \* history: the marker was removed since it was last written

markerVars == <<config, mounted, marker, pc, registered, linked, leftover, removed>>

Absent == "absent"
Static == {"no_node_id", "replica", "primary"}
StartPCs == {"down", "validate", "exists", "read", "open", "write", "register", "up", "unlink"}

MarkerInit ==
  /\ config \in Configs
  /\ mounted \in BOOLEAN
  /\ marker = Absent
  /\ pc = [w \in Workers |-> "down"]
  /\ registered = {}
  /\ linked = {}
  /\ leftover = FALSE
  /\ removed = FALSE

GoTo(w, from, to) == pc[w] = from /\ pc' = [pc EXCEPT ![w] = to]

\* What exists() of the marker answers.
Visible == mounted /\ marker # Absent

-------------------------------------------------------------------------------
\* ready: without settings, or with settings that do not validate, it does nothing and
\* Django starts all the same.
Start(w) ==
  /\ GoTo(w, "down", IF config \in {"unset", "invalid"} THEN "up" ELSE "validate")
  /\ UNCHANGED <<config, mounted, marker, registered, linked, leftover, removed>>

\* Mutant: a replica writes a marker too.
BugPrimaryInitializer == config \in {"primary", "replica"}

\* PrimaryInitializer.is_primary: the node id is the configured primary's name.
PrimaryInitializer == config = "primary"

\* MountValidator; without the mount path, without a node id, on a replica and
\* with Raft nothing is written.
ValidateMount(w) ==
  /\ GoTo(w, "validate", IF mounted /\ PrimaryInitializer THEN "exists" ELSE "up")
  /\ UNCHANGED <<config, mounted, marker, registered, linked, leftover, removed>>

\* read_marker: exists() ...
MarkerExists(w) ==
  /\ GoTo(w, "exists", IF Visible THEN "read" ELSE "open")
  /\ UNCHANGED <<config, mounted, marker, registered, linked, leftover, removed>>

\* ... and read_text(), which raises if the file has gone meanwhile: the error is
\* logged, and the marker is neither written nor its removal registered.
ReadMarker(w) ==
  /\ GoTo(w, "read", IF Visible THEN "open" ELSE "up")
  /\ UNCHANGED <<config, mounted, marker, registered, linked, leftover, removed>>

\* Mutant: the file is created and what should be written is forgotten.
BugOpenMarker(w) ==
  /\ GoTo(w, "open", IF mounted THEN "register" ELSE "up")
  /\ marker' = IF mounted THEN "empty" ELSE marker
  /\ leftover' = (leftover /\ ~mounted)
  /\ removed' = (removed /\ ~mounted)
  /\ UNCHANGED <<config, mounted, registered, linked>>

\* write_marker: write_text() opens the file and empties it ...
OpenMarker(w) ==
  /\ GoTo(w, "open", IF mounted THEN "write" ELSE "up")
  /\ marker' = IF mounted THEN "empty" ELSE marker
  /\ linked' = IF mounted THEN linked \cup {w} ELSE linked
  /\ leftover' = (leftover /\ ~mounted)
  /\ removed' = (removed /\ ~mounted)
  /\ UNCHANGED <<config, mounted, registered>>

\* ... and writes it, wherever the open file is by now.
WriteMarker(w) ==
  /\ GoTo(w, "write", "register")
  /\ marker' = IF w \in linked THEN "node_id" ELSE marker
  /\ linked' = linked \ {w}
  /\ UNCHANGED <<config, mounted, registered, leftover, removed>>

\* A write that fails (a full disk, a mount that has gone) is logged.
WriteFails(w) ==
  /\ GoTo(w, "write", "up")
  /\ leftover' = (leftover \/ w \in linked)
  /\ linked' = linked \ {w}
  /\ UNCHANGED <<config, mounted, marker, registered, removed>>

Register(w) ==
  /\ GoTo(w, "register", "up")
  /\ registered' = registered \cup {w}
  /\ UNCHANGED <<config, mounted, marker, linked, leftover, removed>>

-------------------------------------------------------------------------------
\* A clean exit runs what is registered with atexit: _cleanup_primary_marker.
Exit(w) ==
  /\ GoTo(w, "up", IF w \in registered THEN "unlink" ELSE "down")
  /\ UNCHANGED <<config, mounted, marker, registered, linked, leftover, removed>>

\* Mutant: the exit leaves the file where it is.
BugRemoveMarker(w) ==
  /\ GoTo(w, "unlink", "down")
  /\ registered' = registered \ {w}
  /\ UNCHANGED <<config, mounted, marker, linked, leftover, removed>>

\* remove_marker: unlink() takes the file away, whoever wrote it and whoever has
\* it open; a file that is not there is no error.
RemoveMarker(w) ==
  /\ GoTo(w, "unlink", "down")
  /\ registered' = registered \ {w}
  /\ marker' = IF mounted THEN Absent ELSE marker
  /\ linked' = IF mounted THEN {} ELSE linked
  /\ leftover' = (~mounted /\ (leftover \/ marker # Absent))
  /\ removed' = (removed \/ mounted)
  /\ UNCHANGED <<config, mounted>>

\* Killed, at any moment, or ended by a signal that Python does not handle: no
\* clean-up runs.
Crash(w) ==
  /\ pc[w] # "down"
  /\ pc' = [pc EXCEPT ![w] = "down"]
  /\ leftover' = (marker # Absent /\ (leftover \/ w \in registered \cup linked \/ pc[w] = "register"))
  /\ registered' = registered \ {w}
  /\ linked' = linked \ {w}
  /\ UNCHANGED <<config, mounted, marker, removed>>

-------------------------------------------------------------------------------
\* LiteFS is started and stopped, and its mount path comes and goes.
MountChanges ==
  /\ mounted' = ~mounted
  /\ UNCHANGED <<config, marker, pc, registered, linked, leftover, removed>>

\* With Raft, the file tells which node is the primary: this one, another or none
\* (primary_url_detector.py).
LiteFSWrites ==
  /\ config = "raft"
  /\ marker' \in {Absent, "empty", "url"} \ {marker}
  /\ UNCHANGED <<config, mounted, pc, registered, linked, leftover, removed>>

-------------------------------------------------------------------------------
Ready(w) ==
  \/ ValidateMount(w) \/ MarkerExists(w) \/ ReadMarker(w)
  \/ OpenMarker(w) \/ WriteMarker(w) \/ Register(w)

MarkerStep ==
  \/ \E w \in Workers :
       Start(w) \/ Ready(w) \/ WriteFails(w) \/ Exit(w) \/ RemoveMarker(w) \/ Crash(w)
  \/ MountChanges
  \/ LiteFSWrites

-------------------------------------------------------------------------------
\* The file has an owner: on a node with a static election a marker that is there
\* will be removed by the exit of a process that is running, or a crash or a
\* failed call is to blame; and only the designated primary ever has one.  So
\* once all processes have exited cleanly no node takes itself for the primary.
MarkerHasOwner ==
  config # "raft" /\ marker # Absent =>
    /\ config = "primary"
    /\ leftover \/ registered # {} \/ \E w \in Workers : pc[w] \in {"write", "register"}

\* While a process that wrote the marker runs, the marker is whole, unless one is
\* about to write it again, a call failed, or a process that exited took it away.
MarkerKeptUntilExit ==
  registered # {} =>
    marker = "node_id" \/ linked # {} \/ leftover \/ removed
===============================================================================
