---------------------------------- MODULE Node ----------------------------------
(***************************************************************************)
(* One node as its clients and its orchestrator see it: the processes of   *)
(* PrimaryMarker, some of which serve requests.  A write goes through      *)
(* the decision of WriteForwardingMiddleware.__call__; the probes are the  *)
(* views of litefs_django/views.py and the routes of litefs_fastapi.  Each *)
(* looks at the mount path and at the marker in steps of its own, while    *)
(* the processes of the node write and remove it.                          *)
(***************************************************************************)
EXTENDS PrimaryMarker

CONSTANTS
  Servers,    \* the processes that serve requests
  Frameworks  \* "django", "fastapi"

ASSUME NodeAssumption == Servers \subseteq Workers /\ Frameworks \subseteq {"django", "fastapi"}

VARIABLES
  framework,  \* which of the two serves the node
  forwarding, \* "off", "static" (with a PRIMARY_URL) or "detector" (without)
  health,     \* what the flags given to HealthChecker make of it
  req,        \* req[s]: the request of s: its kind and its next step
  found,      \* found[s]: what is_primary answered it
  answer,     \* answer[s]: its answer, or Unanswered
  facts       \* history: facts[s]: what has been so at some moment since it began

requestVars == <<req, found, answer>>
settingVars == <<framework, forwarding, health>>
vars == <<markerVars, requestVars, settingVars, facts>>

Kinds == {"write", "health", "live", "ready"}
Steps == {"none", "construct", "mount", "file", "recheck", "resolve", "state"}
None == [kind |-> "write", step |-> "none"]

\* primary: what the health view says of is_primary, or the readiness probe of
\* can_accept_writes; state: the state of the coordinator that was looked at.
Answers == [kind : Kinds, is : {"none", "local", "forwarded", "200", "503", "raised"},
            primary : BOOLEAN, state : BOOLEAN]
Unanswered == [kind |-> "write", is |-> "none", primary |-> FALSE, state |-> FALSE]

Facts == (IF mounted THEN {"mount"} ELSE {"no_mount"})
           \cup (IF Visible THEN {"marker"} ELSE {"no_marker"})

Init ==
  /\ MarkerInit
  /\ framework \in Frameworks
  /\ forwarding \in IF framework = "django" THEN {"off", "static", "detector"} ELSE {"off"}
  /\ health \in IF framework = "django" THEN {"healthy"} ELSE {"healthy", "degraded", "unhealthy"}
  /\ req = [s \in Servers |-> None]
  /\ found = [s \in Servers |-> FALSE]
  /\ answer = [s \in Servers |-> Unanswered]
  /\ facts = [s \in Servers |-> {}]

-------------------------------------------------------------------------------
\* What the FailoverCoordinator may tell, TRUE for PRIMARY.  The views make a new
\* one for every request, over a new election: a static election answers from its
\* settings, a Raft node that has just been made is not the leader.  The routes
\* are given one that lasts.
CoordinatorStates ==
  IF config = "raft" /\ framework = "fastapi" THEN BOOLEAN ELSE {config = "primary"}

\* get_primary_detector and get_failover_coordinator raise without settings, with
\* settings that do not validate, and (the coordinator) without a node id.
DetectorFails == config \in {"unset", "invalid"}
CoordinatorFails == DetectorFails \/ config = "no_node_id"

\* Without forwarding the middleware lets every request through.
Forwards == forwarding # "off" /\ config \notin {"unset", "invalid"}

At(s, kinds, step) == pc[s] = "up" /\ req[s].step = step /\ req[s].kind \in kinds
Continue(s, step) ==
  /\ req' = [req EXCEPT ![s] = [kind |-> req[s].kind, step |-> step]]
  /\ UNCHANGED answer
Reply(s, is, primary, state) ==
  /\ req' = [req EXCEPT ![s] = None]
  /\ answer' = [answer EXCEPT ![s] =
       [kind |-> req[s].kind, is |-> is, primary |-> primary, state |-> state]]

-------------------------------------------------------------------------------
Begin(s, kind) ==
  /\ pc[s] = "up" /\ req[s] = None
  /\ kind = "write" => framework = "django"
  /\ req' = [req EXCEPT ![s] = [kind |-> kind, step |-> IF kind = "write" THEN "mount" ELSE "construct"]]
  /\ answer' = [answer EXCEPT ![s] = Unanswered]
  /\ found' = [found EXCEPT ![s] = FALSE]

\* Mutant: the health view answers as Django does.
BugRaised(s) == Reply(s, "500", FALSE, FALSE)

\* The health view catches whatever is raised; the two others do not.
Raised(s) == Reply(s, IF req[s].kind = "health" /\ framework = "django" THEN "503" ELSE "raised", FALSE, FALSE)

ConstructFails(s) ==
  framework = "django" /\ (DetectorFails \/ (CoordinatorFails /\ req[s].kind # "live"))

\* The views build their checkers anew; the routes of FastAPI are given theirs.
Construct(s) ==
  /\ At(s, Kinds, "construct")
  /\ IF ConstructFails(s) THEN Raised(s) ELSE Continue(s, "mount")
  /\ UNCHANGED found

\* With Raft the coordinator needs py_leader and a cluster that it accepts.
ConstructRaftFails(s) ==
  /\ At(s, {"health", "ready"}, "construct")
  /\ framework = "django" /\ config = "raft"
  /\ Raised(s)
  /\ UNCHANGED found

\* LivenessChecker: a node whose mount path is there is alive.
LivenessView(s) == Reply(s, IF mounted THEN "200" ELSE "503", FALSE, FALSE)

\* Mutant: the marker alone is looked at, and a node without LiteFS is a replica.
BugStatMount(s) ==
  /\ At(s, Kinds, "mount")
  /\ ~(req[s].kind = "write" /\ ~Forwards)
  /\ IF req[s].kind = "live" THEN LivenessView(s) ELSE Continue(s, "file")
  /\ UNCHANGED found

\* PrimaryDetector.is_primary looks for the mount path ...
StatMount(s) ==
  /\ At(s, Kinds, "mount")
  /\ ~(req[s].kind = "write" /\ ~Forwards)
  /\ \/ mounted /\ req[s].kind # "live" /\ Continue(s, "file")
     \/ req[s].kind = "live" /\ LivenessView(s)
     \/ ~mounted /\ req[s].kind = "write" /\ Continue(s, "resolve")
     \/ ~mounted /\ req[s].kind \in {"health", "ready"} /\ Raised(s)
  /\ UNCHANGED found

\* ... and for the marker, whatever it holds.
StatFile(s) ==
  /\ At(s, Kinds, "file")
  /\ found' = [found EXCEPT ![s] = Visible]
  /\ \/ req[s].kind = "write" /\ Visible /\ Reply(s, "local", TRUE, FALSE)
     \/ req[s].kind = "write" /\ ~Visible /\ Continue(s, "resolve")
     \/ /\ req[s].kind # "write"
        /\ Continue(s, IF req[s].kind = "health" /\ framework = "django" THEN "recheck" ELSE "state")

\* The Django view asks once more, through HealthChecker.check_health, which does
\* not use the answer.
Recheck(s) ==
  /\ At(s, {"health"}, "recheck")
  /\ IF mounted THEN Continue(s, "state") ELSE Raised(s)
  /\ UNCHANGED found

PassThrough(s) ==
  /\ At(s, {"write"}, "mount") /\ ~Forwards
  /\ Reply(s, "local", FALSE, FALSE)
  /\ UNCHANGED found

\* PrimaryURLResolver.resolve: the URL of the settings, or get_primary_url of the
\* detector it was given, which is a PrimaryDetector and has no such method.
Resolve(s) ==
  /\ At(s, {"write"}, "resolve")
  /\ Reply(s, IF forwarding = "static" THEN "forwarded" ELSE "raised", FALSE, FALSE)
  /\ UNCHANGED found

\* Only the view of Django tells whether the node is primary, and its state.
HealthView(s) ==
  /\ At(s, {"health"}, "state")
  /\ IF framework = "django"
     THEN \E state \in CoordinatorStates : Reply(s, "200", found[s], state)
     ELSE Reply(s, "200", FALSE, FALSE)
  /\ UNCHANGED found

\* check_readiness: a primary must be healthy, a replica must not be unhealthy.
IsReady(primary, split) == ~split /\ (health = "healthy" \/ (health = "degraded" /\ ~primary))

\* Only the routes of FastAPI are given a split-brain detector.
ReadinessView(s) ==
  /\ At(s, {"ready"}, "state")
  /\ \E primary \in CoordinatorStates, split \in IF framework = "django" THEN {FALSE} ELSE BOOLEAN :
       Reply(s, IF IsReady(primary, split) THEN "200" ELSE "503",
             primary /\ IsReady(primary, split), primary)
  /\ UNCHANGED found

\* Nothing in the routes catches what the detection lets through.
DetectionRaises(s) ==
  /\ At(s, {"health", "ready"}, "state") /\ framework = "fastapi"
  /\ Raised(s)
  /\ UNCHANGED found

-------------------------------------------------------------------------------
RequestStep(s) ==
  \/ Construct(s) \/ ConstructRaftFails(s) \/ StatMount(s) \/ StatFile(s) \/ Recheck(s)
  \/ PassThrough(s) \/ Resolve(s) \/ HealthView(s) \/ ReadinessView(s)
  \/ DetectionRaises(s)

\* A process that ends takes its request with it.
ProcessStep ==
  /\ MarkerStep
  /\ req' = [s \in Servers |-> IF pc'[s] = "up" THEN req[s] ELSE None]
  /\ answer' = [s \in Servers |-> IF pc'[s] = "up" THEN answer[s] ELSE Unanswered]
  /\ UNCHANGED found

\* Every step is seen by the requests that are under way.
Observe ==
  facts' = [s \in Servers |->
    IF req'[s] = None THEN IF req[s] = None THEN facts[s] ELSE facts[s] \cup Facts'
    ELSE IF req[s] = None THEN Facts' ELSE facts[s] \cup Facts']

Next ==
  /\ \/ ProcessStep /\ UNCHANGED settingVars
     \/ \E s \in Servers :
          /\ RequestStep(s) \/ (\E kind \in Kinds : Begin(s, kind))
          /\ UNCHANGED <<markerVars, settingVars>>
  /\ Observe

Spec == Init /\ [][Next]_vars

-------------------------------------------------------------------------------
\* Every variable keeps its type.
TypeOK ==
  /\ config \in Configs
  /\ mounted \in BOOLEAN
  /\ marker \in {Absent, "empty", "node_id", "url"}
  /\ pc \in [Workers -> StartPCs]
  /\ registered \subseteq Workers
  /\ linked \subseteq Workers
  /\ leftover \in BOOLEAN
  /\ removed \in BOOLEAN
  /\ framework \in Frameworks
  /\ forwarding \in {"off", "static", "detector"}
  /\ health \in {"healthy", "degraded", "unhealthy"}
  /\ req \in [Servers -> [kind : Kinds, step : Steps]]
  /\ found \in [Servers -> BOOLEAN]
  /\ answer \in [Servers -> Answers]
  /\ facts \in [Servers -> SUBSET {"mount", "no_mount", "marker", "no_marker"}]

\* What an answer says was so at some moment of its request, however the mount and
\* the marker change under it: a write that is taken here found the marker, one
\* that is sent away or ends in an exception found none; a probe that succeeds
\* found the mount path, and what it says of the marker was so; one that fails had
\* no mount path, settings that do not let it look, or a detection that failed.
AnswerIsTrue(a, f) ==
  /\ a.kind = "write" =>
       /\ a.is = "local" /\ Forwards => {"mount", "marker"} \subseteq f
       /\ a.is \in {"forwarded", "raised"} => Forwards /\ "no_marker" \in f
  /\ a.kind # "write" =>
       /\ a.is = "200" => "mount" \in f
       /\ a.is = "503" /\ a.kind = "live" => "no_mount" \in f
       /\ a.is = "raised" \/ (a.is = "503" /\ a.kind = "health") =>
            CoordinatorFails \/ config = "raft" \/ "no_mount" \in f
              \/ (framework = "fastapi" /\ a.kind # "live")
       /\ a.is = "200" /\ a.kind = "health" /\ framework = "django" =>
            IF a.primary THEN "marker" \in f ELSE "no_marker" \in f

AnswersAreTrue == \A s \in Servers : AnswerIsTrue(answer[s], facts[s])

\* With a static election the marker and the settings never contradict each other
\* towards a primary: a node whose health view says is_primary, or whose middleware
\* took a write for the primary's, is the designated one and its state is PRIMARY;
\* and a node that says it accepts writes is the designated one and healthy.
StaticRolesAgree ==
  config # "raft" =>
    \A s \in Servers : answer[s].primary =>
      /\ config = "primary"
      /\ answer[s].kind # "write" => answer[s].state
      /\ answer[s].kind = "ready" => health = "healthy"
===============================================================================
