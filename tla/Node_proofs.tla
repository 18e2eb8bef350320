------------------------------ MODULE Node_proofs ------------------------------
(***************************************************************************)
(* Proofs about Node.tla: the marker protocol first, for any number of     *)
(* processes, then what the answers of the servers say of it.              *)
(***************************************************************************)
EXTENDS Node, TLAPS

USE DEF GoTo, Visible, Absent

\* Where a process is says what it has to do with the file; and every marker that
\* is there is answered for, by an open file or by a clean-up to come.
MarkerInv ==
  /\ config # "primary" =>
       /\ \A w \in Workers : pc[w] \in {"down", "validate", "up"}
       /\ registered = {} /\ linked = {} /\ ~leftover
  /\ config \notin {"primary", "raft"} => marker = Absent
  /\ \A w \in registered : pc[w] \in {"up", "unlink"}
  /\ \A w \in linked : pc[w] = "write"
  /\ linked # {} \/ leftover => marker # Absent
  /\ config # "raft" /\ marker # Absent =>
       leftover \/ registered # {} \/ linked # {} \/ \E w \in Workers : pc[w] = "register"
  /\ registered # {} \/ (\E w \in Workers : pc[w] \in {"write", "register"}) =>
       marker = "node_id" \/ linked # {} \/ leftover \/ removed

\* Where a request is says what it has seen, and the facts hold what is so now.
RequestInv(s) ==
  /\ req[s].step # "none" => pc[s] = "up" /\ Facts \subseteq facts[s]
  /\ req[s].step \in {"file", "recheck", "state"} => "mount" \in facts[s]
  /\ req[s].step \in {"recheck", "state"} =>
       IF found[s] THEN "marker" \in facts[s] ELSE "no_marker" \in facts[s]
  /\ req[s].step = "resolve" => Forwards /\ "no_marker" \in facts[s]
  /\ req[s].kind = "write" => req[s].step \in {"none", "mount", "file", "resolve"}
  /\ req[s].kind = "write" /\ req[s].step = "file" => Forwards
  /\ found[s] /\ config # "raft" => config = "primary"

-------------------------------------------------------------------------------
LEMMA TypeInvariance == Spec => []TypeOK
  <1>1. Init => TypeOK
    <2> SUFFICES ASSUME Init PROVE TypeOK
      OBVIOUS
    <2>1. /\ forwarding \in {"off", "static", "detector"}
          /\ health \in {"healthy", "degraded", "unhealthy"}
      BY DEF Init
    <2>2. pc \in [Workers -> StartPCs]
      BY DEF Init, MarkerInit, StartPCs
    <2>3. None \in [kind : Kinds, step : Steps] /\ Unanswered \in Answers
      BY DEF None, Kinds, Steps, Unanswered, Answers
    <2>4. QED
      BY <2>1, <2>2, <2>3 DEF Init, MarkerInit, TypeOK
  <1>2. TypeOK /\ [Next]_vars => TypeOK'
    <2> SUFFICES ASSUME TypeOK, Next PROVE TypeOK'
      BY DEF TypeOK, vars, markerVars, requestVars, settingVars
    <2> USE DEF TypeOK
    <2>1. facts' \in [Servers -> SUBSET {"mount", "no_mount", "marker", "no_marker"}]
      <3>1. Facts' \subseteq {"mount", "no_mount", "marker", "no_marker"}
        BY DEF Facts
      <3>2. QED
        BY <3>1 DEF Next, Observe
    <2>2. ASSUME ProcessStep, UNCHANGED settingVars PROVE TypeOK'
      <3> DEFINE MarkerOK ==
            /\ config \in Configs /\ mounted \in BOOLEAN
            /\ marker \in {Absent, "empty", "node_id", "url"}
            /\ pc \in [Workers -> StartPCs]
            /\ registered \subseteq Workers /\ linked \subseteq Workers
            /\ leftover \in BOOLEAN /\ removed \in BOOLEAN
      <3>1. MarkerOK'
        <4>1. CASE MountChanges \/ LiteFSWrites
          BY <4>1 DEF MountChanges, LiteFSWrites
        <4>2. ASSUME NEW w \in Workers, Start(w) \/ ValidateMount(w) \/ MarkerExists(w) \/ ReadMarker(w) \/ Exit(w)
              PROVE  MarkerOK'
          <5>1. pc' \in [Workers -> StartPCs]
            BY <4>2 DEF Start, ValidateMount, MarkerExists, ReadMarker, Exit, StartPCs
          <5>2. QED
            BY <4>2, <5>1 DEF Start, ValidateMount, MarkerExists, ReadMarker, Exit
        <4>3. ASSUME NEW w \in Workers, OpenMarker(w) \/ WriteMarker(w) \/ WriteFails(w) \/ Register(w)
              PROVE  MarkerOK'
          <5>1. pc' \in [Workers -> StartPCs]
            BY <4>3 DEF OpenMarker, WriteMarker, WriteFails, Register, StartPCs
          <5>2. QED
            BY <4>3, <5>1 DEF OpenMarker, WriteMarker, WriteFails, Register
        <4>4. ASSUME NEW w \in Workers, RemoveMarker(w) \/ Crash(w) PROVE MarkerOK'
          <5>1. pc' \in [Workers -> StartPCs]
            BY <4>4 DEF RemoveMarker, Crash, StartPCs
          <5>2. QED
            BY <4>4, <5>1 DEF RemoveMarker, Crash
        <4>5. QED
          BY <2>2, <4>1, <4>2, <4>3, <4>4 DEF ProcessStep, MarkerStep, Ready
      <3>2. req' \in [Servers -> [kind : Kinds, step : Steps]] /\ answer' \in [Servers -> Answers]
        <4>1. None \in [kind : Kinds, step : Steps] /\ Unanswered \in Answers
          BY DEF None, Kinds, Steps, Unanswered, Answers
        <4>2. QED
          BY <2>2, <4>1 DEF ProcessStep
      <3>3. QED
        BY <2>1, <2>2, <3>1, <3>2 DEF ProcessStep, settingVars
    <2>3. ASSUME NEW s \in Servers, RequestStep(s) \/ \E kind \in Kinds : Begin(s, kind),
                 UNCHANGED <<markerVars, settingVars>>
          PROVE  TypeOK'
      <3>1. \A k \in Steps : Continue(s, k) =>
              req' \in [Servers -> [kind : Kinds, step : Steps]] /\ answer' \in [Servers -> Answers]
        BY DEF Continue
      <3>2. \A i \in {"none", "local", "forwarded", "200", "503", "raised"}, p \in BOOLEAN, b \in BOOLEAN : Reply(s, i, p, b) =>
              req' \in [Servers -> [kind : Kinds, step : Steps]] /\ answer' \in [Servers -> Answers]
        BY DEF Reply, None, Kinds, Steps, Answers
      <3> DEFINE RequestsOK == /\ req \in [Servers -> [kind : Kinds, step : Steps]]
                               /\ answer \in [Servers -> Answers]
                               /\ found \in [Servers -> BOOLEAN]
      <3>3. RequestsOK'
        <4>1. ASSUME NEW kind \in Kinds, Begin(s, kind) PROVE RequestsOK'
          BY <4>1 DEF Begin, Unanswered, Answers, Kinds, Steps
        <4>2. Raised(s) => req' \in [Servers -> [kind : Kinds, step : Steps]] /\ answer' \in [Servers -> Answers]
          BY <3>2 DEF Raised
        <4>3. CASE Construct(s) \/ ConstructRaftFails(s) \/ Recheck(s) \/ DetectionRaises(s)
          BY <3>1, <4>2, <4>3 DEF Construct, ConstructRaftFails, Recheck, DetectionRaises, Steps
        <4>4. CASE StatMount(s)
          BY <3>1, <3>2, <4>2, <4>4 DEF StatMount, LivenessView, Steps, Kinds
        <4>5. CASE StatFile(s)
          BY <3>1, <3>2, <4>5 DEF StatFile, Steps
        <4>6. CASE PassThrough(s) \/ Resolve(s)
          BY <3>2, <4>6 DEF PassThrough, Resolve
        <4>7. CASE HealthView(s)
          <5>1. CoordinatorStates \subseteq BOOLEAN
            BY DEF CoordinatorStates
          <5>2. QED
            BY <3>2, <4>7, <5>1 DEF HealthView
        <4>8. CASE ReadinessView(s)
          <5>1. CoordinatorStates \subseteq BOOLEAN
            BY DEF CoordinatorStates
          <5>2. \A primary \in BOOLEAN, split \in BOOLEAN : IsReady(primary, split) \in BOOLEAN
            BY DEF IsReady
          <5>3. QED
            BY <3>2, <4>8, <5>1, <5>2 DEF ReadinessView
        <4>9. QED
          BY <2>3, <4>1, <4>3, <4>4, <4>5, <4>6, <4>7, <4>8 DEF RequestStep
      <3>4. QED
        BY <2>1, <2>3, <3>3 DEF markerVars, settingVars
    <2>4. QED
      BY <2>2, <2>3 DEF Next
  <1>3. QED
    BY <1>1, <1>2, PTL DEF Spec

\* Type correctness of the node: its processes, its marker and its requests.
THEOREM TypeCorrect == Spec => []TypeOK
  BY TypeInvariance

-------------------------------------------------------------------------------
\* Requests do not touch the marker, and the marker protocol keeps its invariant.
LEMMA MarkerInvariance == Spec => []MarkerInv
  <1>1. Init => MarkerInv
    BY DEF Init, MarkerInit, MarkerInv
  <1>2. TypeOK /\ MarkerInv /\ [Next]_vars => MarkerInv'
    <2> SUFFICES ASSUME TypeOK, MarkerInv, MarkerStep \/ UNCHANGED markerVars PROVE MarkerInv'
      BY DEF Next, ProcessStep, vars
    <2> USE DEF TypeOK, MarkerInv, StartPCs
    <2>1. ASSUME NEW w \in Workers, Start(w) \/ MarkerExists(w) \/ ReadMarker(w) \/ Exit(w)
          PROVE  MarkerInv'
      BY <2>1 DEF Start, MarkerExists, ReadMarker, Exit
    <2>2. ASSUME NEW w \in Workers, ValidateMount(w) PROVE MarkerInv'
      BY <2>2 DEF ValidateMount, PrimaryInitializer
    <2>3. ASSUME NEW w \in Workers, OpenMarker(w) PROVE MarkerInv'
      BY <2>3 DEF OpenMarker
    <2>4. ASSUME NEW w \in Workers, WriteMarker(w) PROVE MarkerInv'
      BY <2>4 DEF WriteMarker
    <2>5. ASSUME NEW w \in Workers, WriteFails(w) PROVE MarkerInv'
      BY <2>5 DEF WriteFails
    <2>6. ASSUME NEW w \in Workers, Register(w) PROVE MarkerInv'
      BY <2>6 DEF Register
    <2>7. ASSUME NEW w \in Workers, RemoveMarker(w) PROVE MarkerInv'
      BY <2>7 DEF RemoveMarker
    <2>8. ASSUME NEW w \in Workers, Crash(w) PROVE MarkerInv'
      BY <2>8 DEF Crash
    <2>9. CASE MountChanges \/ LiteFSWrites
      BY <2>9 DEF MountChanges, LiteFSWrites
    <2>10. CASE UNCHANGED markerVars
      BY <2>10 DEF markerVars
    <2>11. QED
      BY <2>1, <2>2, <2>3, <2>4, <2>5, <2>6, <2>7, <2>8, <2>9, <2>10 DEF MarkerStep, Ready
  <1>3. QED
    BY <1>1, <1>2, TypeInvariance, PTL DEF Spec

\* For any number of processes: a marker that nobody will remove was left by a crash
\* or by a call that failed, and only the designated primary ever has one.
THEOREM MarkerOwned == Spec => []MarkerHasOwner
  <1>1. TypeOK /\ MarkerInv => MarkerHasOwner
    BY DEF TypeOK, MarkerInv, MarkerHasOwner
  <1>2. QED
    BY <1>1, TypeInvariance, MarkerInvariance, PTL

\* For any number of processes: the marker is whole while one that wrote it runs,
\* unless it is being rewritten, a call failed, or an exit took it away.
THEOREM MarkerKept == Spec => []MarkerKeptUntilExit
  <1>1. MarkerInv => MarkerKeptUntilExit
    BY DEF MarkerInv, MarkerKeptUntilExit
  <1>2. QED
    BY <1>1, MarkerInvariance, PTL

-------------------------------------------------------------------------------
\* What servers know and answer.
AnswerInv(s) ==
  /\ AnswerIsTrue(answer[s], facts[s])
  /\ config # "raft" /\ answer[s].primary =>
       /\ config = "primary"
       /\ answer[s].kind # "write" => answer[s].state
       /\ answer[s].kind = "ready" => health = "healthy"

ServerInv == \A s \in Servers : RequestInv(s) /\ AnswerInv(s)

LEMMA ServerInvariance == Spec => []ServerInv
  <1>1. Init => ServerInv
    BY DEF Init, MarkerInit, ServerInv, RequestInv, AnswerInv, AnswerIsTrue, None, Unanswered
  <1>2. TypeOK /\ TypeOK' /\ MarkerInv /\ ServerInv /\ [Next]_vars => ServerInv'
    <2> SUFFICES ASSUME TypeOK, TypeOK', MarkerInv, ServerInv, [Next]_vars,
                        NEW s \in Servers
                 PROVE  RequestInv(s)' /\ AnswerInv(s)'
      BY DEF ServerInv
    <2>1. RequestInv(s) /\ AnswerInv(s)
      BY DEF ServerInv
    <2>2. CASE UNCHANGED vars
      BY <2>1, <2>2 DEF vars, markerVars, requestVars, settingVars, RequestInv, AnswerInv, AnswerIsTrue,
         Facts, Forwards, CoordinatorFails, DetectorFails
    <2>3. CASE Next
      <3>1. facts'[s] = IF req'[s] = None /\ req[s] = None THEN facts[s]
                        ELSE IF req[s] = None THEN Facts' ELSE facts[s] \cup Facts'
        BY <2>3 DEF Next, Observe
      <3>2. CASE ProcessStep /\ UNCHANGED settingVars
        <4>1. config' = config
          BY <3>2 DEF ProcessStep, MarkerStep, Ready, Start, ValidateMount, MarkerExists, ReadMarker, OpenMarker,
             WriteMarker, Register, WriteFails, Exit, RemoveMarker, Crash, MountChanges, LiteFSWrites
        <4>2. CASE pc'[s] = "up"
          <5>1. req'[s] = req[s] /\ answer'[s] = answer[s] /\ found'[s] = found[s]
            BY <3>2, <4>2 DEF ProcessStep
          <5>2. facts[s] \subseteq facts'[s] /\ (req[s].step # "none" => Facts' \subseteq facts'[s])
            BY <3>1, <5>1 DEF None
          <5>3. QED
            BY <2>1, <3>2, <4>1, <4>2, <5>1, <5>2 DEF RequestInv, AnswerInv, AnswerIsTrue, Forwards, settingVars,
               CoordinatorFails, DetectorFails
        <4>3. CASE pc'[s] # "up"
          <5>1. req'[s] = None /\ answer'[s] = Unanswered /\ found'[s] = found[s]
            BY <3>2, <4>3 DEF ProcessStep
          <5>2. QED
            BY <2>1, <4>1, <5>1 DEF RequestInv, AnswerInv, AnswerIsTrue, None, Unanswered
        <4>4. QED
          BY <4>2, <4>3
      <3>3. ASSUME NEW o \in Servers, RequestStep(o) \/ \E kind \in Kinds : Begin(o, kind),
                   UNCHANGED <<markerVars, settingVars>>
            PROVE  RequestInv(s)' /\ AnswerInv(s)'
        <4>1. /\ pc' = pc /\ config' = config /\ Facts' = Facts /\ Forwards' = Forwards
              /\ framework' = framework /\ health' = health /\ CoordinatorFails' = CoordinatorFails
          BY <3>3 DEF markerVars, settingVars, Facts, Forwards, CoordinatorFails, DetectorFails
        <4>0. RequestStep(o) => req[o].step # "none" /\ pc[o] = "up"
          BY DEF RequestStep, At, Construct, ConstructRaftFails, StatMount, LivenessView, StatFile, Recheck,
             PassThrough, Resolve, HealthView, ReadinessView, DetectionRaises
        <4> USE <2>1, <4>1 DEF RequestInv, AnswerInv, AnswerIsTrue
        <4>2. CASE o # s
          <5>1. req'[s] = req[s] /\ answer'[s] = answer[s] /\ found'[s] = found[s]
            BY <3>3, <4>2 DEF RequestStep, Begin, Construct, ConstructRaftFails, StatMount, LivenessView, StatFile, Recheck,
               PassThrough, Resolve, HealthView, ReadinessView, DetectionRaises, Raised, Continue, Reply, TypeOK
          <5>2. facts[s] \subseteq facts'[s] /\ (req[s].step # "none" => Facts' \subseteq facts'[s])
            BY <3>1, <5>1 DEF None
          <5>3. QED
            BY <5>1, <5>2
        <4>3. ASSUME o = s, NEW kind \in Kinds, Begin(s, kind) PROVE RequestInv(s)' /\ AnswerInv(s)'
          <5>1. /\ req'[s] = [kind |-> kind, step |-> IF kind = "write" THEN "mount" ELSE "construct"]
                /\ answer'[s] = Unanswered /\ found'[s] = FALSE /\ req[s] = None /\ pc[s] = "up"
            BY <4>3 DEF Begin, TypeOK
          <5>2. req'[s] # None /\ Facts' \subseteq facts'[s]
            BY <3>1, <5>1 DEF None
          <5>3. QED
            BY <5>1, <5>2 DEF Unanswered
        <4>4. ASSUME o = s, RequestStep(s) PROVE RequestInv(s)' /\ AnswerInv(s)'
          <5>1. req[s].step # "none" /\ pc[s] = "up" /\ Facts \subseteq facts[s] /\ req[s] # None
            BY <4>4, <4>0 DEF None
          <5>2. facts'[s] = facts[s]
            BY <3>1, <5>1
          <5> DOMAIN req = Servers /\ DOMAIN answer = Servers /\ DOMAIN found = Servers
            BY DEF TypeOK
          <5> USE <5>1, <5>2 DEF None, At, Continue, Reply
          <5>13. req[s].kind \in {"health", "live", "ready"} \/ req[s].step \in {"mount", "file", "resolve"}
            BY DEF TypeOK, Kinds
          <5>3. Raised(s) /\ req[s].kind \in {"health", "live", "ready"} /\ found' = found
                  /\ (CoordinatorFails \/ config = "raft" \/ "no_mount" \in facts[s]
                      \/ (framework = "fastapi" /\ req[s].kind # "live"))
                => RequestInv(s)' /\ AnswerInv(s)'
            BY DEF Raised
          <5>4. CASE Construct(s)
            <6>1. ConstructFails(s) => CoordinatorFails
              BY DEF ConstructFails, CoordinatorFails
            <6>2. CASE ConstructFails(s)
              BY <5>3, <5>4, <5>13, <6>1, <6>2 DEF Construct
            <6>3. CASE ~ConstructFails(s)
              BY <5>4, <6>3 DEF Construct
            <6>4. QED
              BY <6>2, <6>3
          <5>5. CASE ConstructRaftFails(s)
            BY <5>3, <5>5 DEF ConstructRaftFails
          <5>6. CASE StatMount(s)
            <6>1. mounted => "mount" \in facts[s]
              BY DEF Facts
            <6>2. ~mounted => {"no_mount", "no_marker"} \subseteq facts[s]
              BY DEF Facts
            <6>3. QED
              BY <5>3, <5>6, <6>1, <6>2 DEF StatMount, LivenessView, TypeOK, Kinds
          <5>7. CASE StatFile(s)
            <6>1. IF Visible THEN "marker" \in facts[s] ELSE "no_marker" \in facts[s]
              BY DEF Facts
            <6>2. found'[s] = Visible /\ (Visible /\ config # "raft" => config = "primary")
              BY <5>7 DEF StatFile, TypeOK, MarkerInv
            <6>3. CASE req[s].kind = "write" /\ Visible
              <7>1. Reply(s, "local", TRUE, FALSE)
                BY <5>7, <6>3 DEF StatFile
              <7>2. "mount" \in facts[s]
                BY <5>7 DEF StatFile
              <7>3. QED
                BY <6>1, <6>2, <6>3, <7>1, <7>2
            <6>4. CASE req[s].kind = "write" /\ ~Visible
              <7>1. Continue(s, "resolve") /\ Forwards
                BY <5>7, <6>4 DEF StatFile
              <7>2. QED
                BY <6>1, <6>2, <6>4, <7>1
            <6>5. CASE req[s].kind # "write"
              <7>1. PICK step \in {"recheck", "state"} : Continue(s, step)
                BY <5>7, <6>5 DEF StatFile
              <7>2. "mount" \in facts[s]
                BY <5>7 DEF StatFile
              <7>3. QED
                BY <6>1, <6>2, <6>5, <7>1, <7>2
            <6>6. QED
              BY <6>3, <6>4, <6>5
          <5>8. CASE Recheck(s)
            <6>1. ~mounted => "no_mount" \in facts[s]
              BY DEF Facts
            <6>2. QED
              BY <5>3, <5>8, <6>1 DEF Recheck
          <5>9. CASE PassThrough(s) \/ Resolve(s)
            BY <5>9 DEF PassThrough, Resolve
          <5>10. CASE HealthView(s)
            <6>1. req[s].kind = "health" /\ req[s].step = "state" /\ found' = found
              BY <5>10 DEF HealthView
            <6>2. CASE framework # "django"
              BY <5>10, <6>1, <6>2 DEF HealthView
            <6>3. CASE framework = "django"
              <7>1. PICK state \in CoordinatorStates : Reply(s, "200", found[s], state)
                BY <5>10, <6>3 DEF HealthView
              <7>2. state = (config = "primary")
                BY <6>3, <7>1 DEF CoordinatorStates
              <7>3. QED
                BY <6>1, <7>1, <7>2
            <6>4. QED
              BY <6>2, <6>3
          <5>11. CASE ReadinessView(s)
            <6>1. req[s].kind = "ready" /\ req[s].step = "state" /\ found' = found
              BY <5>11 DEF ReadinessView
            <6>2. PICK primary \in CoordinatorStates, split \in BOOLEAN :
                    Reply(s, IF IsReady(primary, split) THEN "200" ELSE "503",
                          primary /\ IsReady(primary, split), primary)
              BY <5>11 DEF ReadinessView
            <6>3. config # "raft" => primary = (config = "primary")
              BY <6>2 DEF CoordinatorStates
            <6>4. primary /\ IsReady(primary, split) => health = "healthy"
              BY DEF IsReady
            <6>5. QED
              BY <6>1, <6>2, <6>3, <6>4
          <5>14. CASE DetectionRaises(s)
            BY <5>3, <5>14 DEF DetectionRaises
          <5>12. QED
            BY <4>4, <5>14, <5>4, <5>5, <5>6, <5>7, <5>8, <5>9, <5>10, <5>11 DEF RequestStep
        <4>5. QED
          BY <3>3, <4>2, <4>3, <4>4
      <3>4. QED
        BY <2>3, <3>2, <3>3 DEF Next
    <2>4. QED
      BY <2>2, <2>3
  <1>3. QED
    BY <1>1, <1>2, TypeInvariance, MarkerInvariance, PTL DEF Spec

\* Whatever the processes do to the marker while a request looks at it, the answer
\* tells of something that was so during the request.
THEOREM AnswersTrue == Spec => []AnswersAreTrue
  <1>1. ServerInv => AnswersAreTrue
    BY DEF ServerInv, AnswerInv, AnswersAreTrue
  <1>2. QED
    BY <1>1, ServerInvariance, PTL

\* With a static election, whatever answers for a primary is the designated one.
THEOREM RolesAgree == Spec => []StaticRolesAgree
  <1>1. ServerInv => StaticRolesAgree
    BY DEF ServerInv, AnswerInv, StaticRolesAgree
  <1>2. QED
    BY <1>1, ServerInvariance, PTL
===============================================================================
