-------------------------- MODULE Installation_proofs --------------------------
(***************************************************************************)
(* Proofs about Installation.tla, for any number of processes, places,     *)
(* versions and interventions of the operator.  Three inductive            *)
(* invariants, one for each property, over one of types that also says     *)
(* that a download never writes into a file that is not there.             *)
(***************************************************************************)
EXTENDS Installation, TLAPS

\* Whoever writes has opened a file, and whoever judges one has a place.
Placed ==
  /\ Writers # {} => file[Cache] # Absent
  /\ \A p \in Procs : pc[p] \in {"resolve", "exists", "access", "run"} => at[p] \in Indices

TypeInv == TypeOK /\ Placed

LEMMA CacheIsPlace == Cache \in Indices /\ Len(Places) \in Nat /\ 1 \in Indices
BY InstallAssumption DEF Cache, Indices

\* The kinds of file that the steps put somewhere.
LEMMA Files ==
  /\ Absent \in File
  /\ \A h \in Halves, t \in Halves, x \in BOOLEAN :
       /\ [head |-> h, tail |-> t, executable |-> x] \in File
       /\ [head |-> h, tail |-> t, executable |-> x] # Absent
  /\ \A f \in File : /\ f.executable \in BOOLEAN
                     /\ f # Absent => /\ f.head \in Halves /\ f.tail \in Halves
                                      /\ f = [head |-> f.head, tail |-> f.tail, executable |-> f.executable]
  /\ Absent.executable = FALSE
<1> DEFINE R == [head : Halves, tail : Halves, executable : BOOLEAN]
<1>1. "absent" \notin Halves
  BY InstallAssumption DEF Halves
<1>2. Absent.head = "absent" /\ Absent.executable = FALSE
  BY DEF Absent
<1>3. \A f \in R : f # Absent
  BY <1>1, <1>2
<1>4. \A h \in Halves, t \in Halves, x \in BOOLEAN : [head |-> h, tail |-> t, executable |-> x] \in R
  OBVIOUS
<1>5. \A f \in R : /\ f.executable \in BOOLEAN /\ f.head \in Halves /\ f.tail \in Halves
                  /\ f = [head |-> f.head, tail |-> f.tail, executable |-> f.executable]
  OBVIOUS
<1>6. File = R \cup {Absent}
  BY DEF File
<1> HIDE DEF R
<1> QED
  BY <1>2, <1>3, <1>4, <1>5, <1>6

\* The options of a download name a version.
LEMMA OptionsHaveVersion ==
  ASSUME NEW o \in Options
  PROVE  o.version \in Versions \cup {"nothing"}
<1>1. CASE o = CheckOptions
  BY <1>1 DEF CheckOptions
<1>2. CASE o \in [command : {"download"}, force : BOOLEAN, version : Versions]
  BY <1>2
<1> QED
  BY <1>1, <1>2 DEF Options

LEMMA PutTypes ==
  ASSUME TypeOK, NEW i \in Indices, NEW f \in File, Put(i, f)
  PROVE  /\ file' \in [Indices -> File] /\ held' \in [Procs -> SUBSET Indices]
         /\ steady' \in [Procs -> BOOLEAN]
         /\ file' = [file EXCEPT ![i] = f]
BY DEF TypeOK, Put

LEMMA TypeInit == Init => TypeInv
<1> SUFFICES ASSUME Init PROVE TypeInv
  OBVIOUS
<1>1. file \in [Indices -> File]
  <2>1. [head |-> BINARY, tail |-> BINARY, executable |-> TRUE] \in File
    BY Files DEF Halves
  <2>2. {Absent, [head |-> BINARY, tail |-> BINARY, executable |-> TRUE]} \subseteq File
    BY <2>1, Files
  <2> HIDE DEF File
  <2> QED
    BY <2>2 DEF Init
<1>2. CheckOptions \in Options
  BY DEF Options
<1>3. Writers = {}
  BY DEF Init, Writers
<1>4. TypeOK
  <2>1. at \in [Procs -> 0 .. Len(Places)] /\ touched \in 0 .. Touches
    BY CacheIsPlace, InstallAssumption DEF Init
  <2>2. pc \in [Procs -> PCs] /\ result \in [Procs -> Results] /\ options \in [Procs -> Options]
    BY <1>2 DEF Init, PCs, Results
  <2>3. seen \in [Procs -> File] /\ held \in [Procs -> SUBSET Indices] /\ steady \in [Procs -> BOOLEAN]
    BY Files DEF Init
  <2> QED
    BY <1>1, <2>1, <2>2, <2>3 DEF Init, TypeOK
<1>5. Placed
  BY <1>3 DEF Init, Placed
<1> QED
  BY <1>4, <1>5 DEF TypeInv

\* Steps that touch no file.
LEMMA AsideTypes ==
  ASSUME TypeInv, UNCHANGED <<supported, file, touched, options, held, seen, steady>>,
         pc' \in [Procs -> PCs], at' = at, result' \in [Procs -> Results], blamed' \in BOOLEAN,
         Writers' \subseteq Writers,
         \A p \in Procs : pc'[p] \in {"resolve", "exists", "access", "run"} => at[p] \in Indices
  PROVE  TypeInv'
BY DEF TypeInv, TypeOK, Placed

LEMMA StepTypes ==
  ASSUME TypeInv, NEW p \in Procs,
         Resolve(p) \/ Download(p) \/ Check(p) \/ Crash(p) \/ (\E o \in Options : Start(p, o))
  PROVE  TypeInv'
<1> USE CacheIsPlace DEF PCs, Results
<1>1. ASSUME NEW o \in Options, Start(p, o) PROVE TypeInv'
  <2>1. Writers' \subseteq Writers
    BY <1>1 DEF Start, Writers, TypeInv, TypeOK
  <2>2. TypeOK'
    <3>1. CASE o.command = "download" /\ ~supported /\ UNCHANGED <<pc, at, held>>
               /\ result' = [result EXCEPT ![p] = "error"]
      BY <1>1, <3>1, Files DEF Start, TypeInv, TypeOK
    <3>2. CASE /\ result' = [result EXCEPT ![p] = "none"] /\ pc' = [pc EXCEPT ![p] = "resolve"]
               /\ at' = [at EXCEPT ![p] = 1]
               /\ held' = [held EXCEPT ![p] = {i \in Indices : file[i] # Absent}]
      BY <1>1, <3>2, Files DEF Start, TypeInv, TypeOK, Indices
    <3> QED
      BY <1>1, <3>1, <3>2 DEF Start
  <2>3. Placed'
    BY <1>1, <2>1 DEF Start, TypeInv, TypeOK, Placed
  <2> QED
    BY <2>2, <2>3 DEF TypeInv
<1>2. CASE Resolve(p)
  <2>1. Writers' \subseteq Writers
    BY <1>2 DEF Resolve, Writers, TypeInv, TypeOK
  <2>2. at[p] \in Indices /\ file[at[p]] \in File
    BY <1>2 DEF Resolve, TypeInv, TypeOK, Placed
  <2>3. at[p] < Len(Places) => at[p] + 1 \in Indices
    BY <2>2 DEF Indices
  <2>4. TypeOK'
    <3>1. /\ pc' \in [Procs -> PCs] /\ at' \in [Procs -> 0 .. Len(Places)]
          /\ seen' \in [Procs -> File] /\ steady' \in [Procs -> BOOLEAN]
      <4>1. CASE pc' = [pc EXCEPT ![p] = "resolved"] /\ seen' = [seen EXCEPT ![p] = file[at[p]]]
                 /\ steady' = [steady EXCEPT ![p] = TRUE] /\ UNCHANGED at
        BY <2>2, <4>1 DEF TypeInv, TypeOK
      <4>2. CASE at[p] < Len(Places) /\ at' = [at EXCEPT ![p] = @ + 1] /\ UNCHANGED <<pc, seen, steady>>
        BY <2>3, <4>2 DEF TypeInv, TypeOK, Indices
      <4>3. CASE pc' = [pc EXCEPT ![p] = "resolved"] /\ at' = [at EXCEPT ![p] = 0] /\ UNCHANGED <<seen, steady>>
        BY <4>3 DEF TypeInv, TypeOK
      <4> QED
        BY <1>2, <4>1, <4>2, <4>3 DEF Resolve
    <3> QED
      BY <1>2, <3>1 DEF Resolve, TypeInv, TypeOK
  <2>5. Placed'
    BY <1>2, <2>1, <2>3 DEF Resolve, TypeInv, TypeOK, Placed
  <2> QED
    BY <2>4, <2>5 DEF TypeInv
<1>3. CASE \/ KeepExisting(p) \/ PrepareRaises(p) \/ Prepare(p) \/ Fetch(p) \/ FetchFails(p)
           \/ OpenFails(p) \/ WriteFails(p) \/ Check(p) \/ Crash(p)
  <2>1. /\ pc' \in [Procs -> PCs] /\ result' \in [Procs -> Results] /\ blamed' \in BOOLEAN
        /\ UNCHANGED <<supported, file, touched, options, held, seen, steady, at>>
    BY <1>3 DEF KeepExisting, PrepareRaises, Prepare, Fetch, FetchFails, OpenFails, WriteFails, Check,
       NoPath, HasPath, Exists, Access, RunVersionCheck, Crash, End, GoTo, history, TypeInv, TypeOK
  <2>2. \A q \in Procs : \/ pc'[q] = pc[q]
                         \/ pc'[q] \in {"idle", "fetch", "open"}
                         \/ pc'[q] \in {"exists", "access", "run"} /\ at[q] \in Indices
    BY <1>3 DEF KeepExisting, PrepareRaises, Prepare, Fetch, FetchFails, OpenFails, WriteFails, Check,
       NoPath, HasPath, Exists, Access, RunVersionCheck, Crash, End, GoTo, TypeInv, TypeOK, Placed, Indices
  <2>3. Writers' \subseteq Writers
    BY <2>2 DEF Writers
  <2> QED
    BY <2>1, <2>2, <2>3, AsideTypes DEF TypeInv, Placed
<1>4. CASE Open(p)
  <2>1. Truncated(file[Cache]) \in File /\ Truncated(file[Cache]) # Absent
    BY Files DEF Truncated, Halves, TypeInv, TypeOK
  <2> QED
    BY <1>4, <2>1, PutTypes DEF Open, GoTo, TypeInv, TypeOK, Placed, history
<1>5. CASE WriteHead(p) \/ WriteTail(p)
  <2>1. file[Cache] \in File /\ file[Cache] # Absent
    BY <1>5 DEF WriteHead, WriteTail, End, GoTo, Writers, TypeInv, TypeOK, Placed
  <2>2. options[p].version \in Halves
    BY OptionsHaveVersion DEF TypeInv, TypeOK, Halves
  <2> DEFINE h == [file[Cache] EXCEPT !.head = options[p].version]
             t == [file[Cache] EXCEPT !.tail = options[p].version]
  <2>3. h \in File /\ h # Absent /\ t \in File /\ t # Absent
    <3>1. h = [head |-> options[p].version, tail |-> file[Cache].tail, executable |-> file[Cache].executable]
      BY <2>1, Files
    <3>2. t = [head |-> file[Cache].head, tail |-> options[p].version, executable |-> file[Cache].executable]
      BY <2>1, Files
    <3> QED
      BY <2>1, <2>2, <3>1, <3>2, Files
  <2> HIDE DEF h, t
  <2>4. Put(Cache, h) \/ Put(Cache, t)
    BY <1>5 DEF WriteHead, WriteTail, h, t
  <2>5. /\ file' \in [Indices -> File] /\ held' \in [Procs -> SUBSET Indices]
        /\ steady' \in [Procs -> BOOLEAN] /\ file'[Cache] # Absent
    BY <2>3, <2>4, PutTypes DEF TypeInv, TypeOK
  <2> QED
    BY <1>5, <2>5 DEF WriteHead, WriteTail, End, GoTo, TypeInv, TypeOK, Placed, history
<1> QED
  BY <1>1, <1>2, <1>3, <1>4, <1>5 DEF Download

LEMMA TouchTypes ==
  ASSUME TypeInv, NEW i \in Indices, Install(i) \/ Remove(i) \/ Chmod(i)
  PROVE  TypeInv'
<1> USE CacheIsPlace
<1>1. ASSUME NEW f \in File, Touch(i, f), i # Cache \/ Writers = {} \/ f # Absent, blamed' \in BOOLEAN
      PROVE  TypeInv'
  <2>1. touched' \in 0 .. Touches
    BY <1>1, InstallAssumption DEF Touch, TypeInv, TypeOK
  <2>2. Writers' = Writers
    BY <1>1 DEF Touch, Writers, procVars
  <2> QED
    BY <1>1, <2>1, <2>2, PutTypes DEF Touch, TypeInv, TypeOK, Placed, procVars
<1>2. CASE Install(i)
  <2>1. [head |-> BINARY, tail |-> BINARY, executable |-> TRUE] \in File
    BY Files DEF Halves
  <2> QED
    BY <1>1, <1>2, <2>1 DEF Install, TypeInv, TypeOK
<1>3. CASE Remove(i)
  BY <1>1, <1>3, Files DEF Remove, TypeInv, TypeOK
<1>4. CASE Chmod(i)
  <2>1. file[i] \in File /\ file[i] # Absent
    BY <1>4 DEF Chmod, TypeInv, TypeOK
  <2>2. file[i] \in [head : Halves, tail : Halves, executable : BOOLEAN]
    BY <2>1 DEF File
  <2>3. /\ [file[i] EXCEPT !.executable = TRUE] \in File
        /\ [file[i] EXCEPT !.executable = TRUE] # Absent
    <3>1. [file[i] EXCEPT !.executable = TRUE] \in [head : Halves, tail : Halves, executable : BOOLEAN]
      BY <2>2
    <3>2. "absent" \notin Halves
      BY InstallAssumption DEF Halves
    <3> QED
      BY <3>1, <3>2 DEF File, Absent
  <2> QED
    BY <1>1, <1>4, <2>3 DEF Chmod, TypeInv, TypeOK
<1> QED
  BY <1>2, <1>3, <1>4

LEMMA TypeStep == TypeInv /\ [Next]_vars => TypeInv'
<1> SUFFICES ASSUME TypeInv, [Next]_vars PROVE TypeInv'
  OBVIOUS
<1>1. CASE UNCHANGED vars
  BY <1>1 DEF vars, procVars, history, TypeInv, TypeOK, Placed, Writers
<1>2. ASSUME NEW p \in Procs,
             Resolve(p) \/ Download(p) \/ Check(p) \/ Crash(p) \/ (\E o \in Options : Start(p, o))
      PROVE  TypeInv'
  BY <1>2, StepTypes
<1>3. ASSUME NEW i \in Indices, Install(i) \/ Remove(i) \/ Chmod(i) PROVE TypeInv'
  BY <1>3, TouchTypes
<1> QED
  BY <1>1, <1>2, <1>3 DEF Next

LEMMA TypeInvariance == Spec => []TypeInv
<1> QED
  BY TypeInit, TypeStep, PTL DEF Spec

\* Every variable keeps its type, and no download writes into a file that is not there.
THEOREM TypeCorrect == Spec => []TypeOK
<1>1. TypeInv => TypeOK
  BY DEF TypeInv
<1> QED
  BY <1>1, TypeInvariance, PTL

-------------------------------------------------------------------------------
\* The steps of a process that go on, or end, without touching a file or looking for one.
Aside(p) ==
  \/ KeepExisting(p) \/ PrepareRaises(p) \/ Prepare(p) \/ Fetch(p) \/ FetchFails(p)
  \/ OpenFails(p) \/ WriteFails(p) \/ Check(p) \/ Crash(p)

LEMMA AsideKeeps ==
  ASSUME TypeInv, NEW p \in Procs, Aside(p)
  PROVE  /\ UNCHANGED <<file, at, options, held, seen, steady>>
         /\ \A q \in Procs : q # p => pc'[q] = pc[q] /\ result'[q] = result[q]
         /\ pc[p] # "idle"
         /\ \/ pc'[p] = "idle"
            \/ pc[p] # "resolve" /\ pc'[p] \notin {"resolve", "head", "tail", "idle"} /\ result'[p] = result[p]
BY DEF Aside, KeepExisting, PrepareRaises, Prepare, Fetch, FetchFails, OpenFails, WriteFails, Check,
   NoPath, HasPath, Exists, Access, RunVersionCheck, Crash, End, GoTo, history, TypeInv, TypeOK

\* The steps that put a file somewhere, and what they put.
LEMMA Puts ==
  ASSUME TypeInv
  PROVE  /\ \A p \in Procs : Open(p) => Put(Cache, Truncated(file[Cache])) /\ Truncated(file[Cache]) # Absent
         /\ \A p \in Procs : WriteHead(p) => /\ Put(Cache, [file[Cache] EXCEPT !.head = options[p].version])
                                             /\ file[Cache] # Absent
         /\ \A p \in Procs : WriteTail(p) => /\ Put(Cache, [file[Cache] EXCEPT !.tail = options[p].version])
                                             /\ file[Cache] # Absent
         /\ \A i \in Indices : Install(i) \/ Remove(i) \/ Chmod(i) =>
              /\ \E f : Put(i, f)
              /\ UNCHANGED <<pc, at, options, result, seen>>
<1>1. Truncated(file[Cache]) # Absent
  BY InstallAssumption DEF Truncated, Absent
<1> QED
  BY <1>1 DEF Open, WriteHead, WriteTail, End, GoTo, Writers, TypeInv, Placed,
     Install, Remove, Chmod, Touch, procVars

\* A process that puts a file into the cache.
Writes(p) == Open(p) \/ WriteHead(p) \/ WriteTail(p)

LEMMA WritesKeep ==
  ASSUME TypeInv, NEW p \in Procs, Writes(p)
  PROVE  /\ UNCHANGED <<at, options, seen>>
         /\ \A q \in Procs : q # p => pc'[q] = pc[q] /\ result'[q] = result[q]
         /\ pc[p] \in {"open", "head", "tail"} /\ pc'[p] \in {"head", "tail", "idle"}
         /\ pc'[p] # "idle" => result'[p] = result[p]
         /\ pc'[p] = "idle" => result'[p] = "complete"
         /\ \E f : Put(Cache, f)
BY DEF Writes, Open, WriteHead, WriteTail, End, GoTo, TypeInv, TypeOK

LEMMA StepKinds ==
  ASSUME Next
  PROVE  \/ \E p \in Procs, o \in Options : Start(p, o)
         \/ \E p \in Procs : Resolve(p) \/ Aside(p) \/ Writes(p)
         \/ \E i \in Indices : Install(i) \/ Remove(i) \/ Chmod(i)
BY DEF Next, Download, Aside, Writes

-------------------------------------------------------------------------------
\* Where p has looked, none of the files was that have been there throughout, and the
\* others still are there.
ResolveInv ==
  \A p \in Procs :
    /\ pc[p] = "resolve" => \A i \in held[p] : at[p] <= i /\ file[i] # Absent
    /\ pc[p] # "resolve" /\ pc[p] # "idle" => \A i \in held[p] : at[p] # 0 /\ at[p] <= i

\* A file is put somewhere by someone who has found, or looks for, nothing.
LEMMA PutResolve ==
  ASSUME TypeInv, ResolveInv, NEW i \in Indices, NEW f, Put(i, f), at' = at,
         \A q \in Procs : \/ pc'[q] = pc[q]
                          \/ pc[q] \notin {"resolve", "idle"} /\ pc'[q] # "resolve"
  PROVE  ResolveInv'
<1> SUFFICES ASSUME NEW q \in Procs
             PROVE  /\ pc'[q] = "resolve" => \A j \in held'[q] : at[q] <= j /\ file'[j] # Absent
                    /\ pc'[q] # "resolve" /\ pc'[q] # "idle" => \A j \in held'[q] : at[q] # 0 /\ at[q] <= j
  BY DEF ResolveInv
<1>1. held'[q] \subseteq held[q] /\ (f = Absent /\ pc[q] = "resolve" => held'[q] = held[q] \ {i})
  BY DEF Put, TypeInv, TypeOK
<1>2. held[q] \subseteq Indices /\ \A j \in Indices : file'[j] = IF j = i THEN f ELSE file[j]
  BY DEF Put, TypeInv, TypeOK
<1>3. CASE pc'[q] = "resolve"
  BY <1>1, <1>2, <1>3 DEF ResolveInv
<1>4. CASE pc'[q] # "resolve" /\ pc'[q] # "idle"
  BY <1>1, <1>4 DEF ResolveInv
<1> QED
  BY <1>3, <1>4

LEMMA ResolveStep == TypeInv /\ ResolveInv /\ [Next]_vars => ResolveInv'
<1> SUFFICES ASSUME TypeInv, ResolveInv, [Next]_vars PROVE ResolveInv'
  OBVIOUS
<1> USE CacheIsPlace
<1>1. ASSUME NEW p \in Procs, NEW o \in Options, Start(p, o) PROVE ResolveInv'
  <2>1. \A q \in Procs : q # p => pc'[q] = pc[q] /\ at'[q] = at[q] /\ held'[q] = held[q]
    BY <1>1 DEF Start, TypeInv, TypeOK
  <2>2. pc'[p] = "idle" \/ (pc'[p] = "resolve" /\ at'[p] = 1 /\ held'[p] = {i \in Indices : file[i] # Absent})
    BY <1>1 DEF Start, TypeInv, TypeOK
  <2>3. \A i \in Indices : 1 <= i
    BY DEF Indices
  <2> QED
    BY <1>1, <2>1, <2>2, <2>3 DEF Start, ResolveInv
<1>2. ASSUME NEW p \in Procs, Resolve(p) PROVE ResolveInv'
  <2>1. \A q \in Procs : q # p => pc'[q] = pc[q] /\ at'[q] = at[q]
    BY <1>2 DEF Resolve, TypeInv, TypeOK
  <2>2. UNCHANGED <<file, held>> /\ pc[p] = "resolve" /\ at[p] \in Indices /\ held[p] \subseteq Indices
    BY <1>2 DEF Resolve, TypeInv, TypeOK, Placed
  <2>3. \A i \in held[p] : at[p] <= i /\ file[i] # Absent
    BY <2>2 DEF ResolveInv
  <2>4. \/ pc'[p] = "resolved" /\ at'[p] = at[p]
        \/ file[at[p]] = Absent /\ at'[p] = at[p] + 1 /\ pc'[p] = "resolve"
        \/ file[at[p]] = Absent /\ at[p] = Len(Places) /\ pc'[p] = "resolved"
    BY <1>2 DEF Resolve, Found, TypeInv, TypeOK
  <2>5. file[at[p]] = Absent => \A i \in held[p] : at[p] + 1 <= i
    BY <2>2, <2>3 DEF Indices
  <2>6. file[at[p]] = Absent /\ at[p] = Len(Places) => held[p] = {}
    BY <2>2, <2>5 DEF Indices
  <2>7. at[p] # 0
    BY <2>2 DEF Indices
  <2>8. ASSUME NEW q \in Procs
        PROVE  /\ pc'[q] = "resolve" => \A i \in held[q] : at'[q] <= i /\ file[i] # Absent
               /\ pc'[q] # "resolve" /\ pc'[q] # "idle" => \A i \in held[q] : at'[q] # 0 /\ at'[q] <= i
    <3>1. CASE q = p
      BY <2>3, <2>4, <2>5, <2>6, <2>7, <3>1
    <3>2. CASE q # p
      BY <2>1, <3>2 DEF ResolveInv
    <3> QED
      BY <3>1, <3>2
  <2> QED
    BY <2>2, <2>8 DEF ResolveInv
<1>3. ASSUME NEW p \in Procs, Aside(p) PROVE ResolveInv'
  BY <1>3, AsideKeeps DEF ResolveInv
<1>4. ASSUME NEW p \in Procs, Writes(p) PROVE ResolveInv'
  BY <1>4, WritesKeep, PutResolve
<1>5. ASSUME NEW i \in Indices, Install(i) \/ Remove(i) \/ Chmod(i) PROVE ResolveInv'
  BY <1>5, Puts, PutResolve
<1>6. CASE UNCHANGED vars
  BY <1>6 DEF vars, procVars, history, ResolveInv
<1> QED
  BY <1>1, <1>2, <1>3, <1>4, <1>5, <1>6, StepKinds

\* A file that is there all the time is found, whoever installs, removes and downloads
\* others meanwhile.
THEOREM ResolvedFirst == Spec => []ResolvedIsFirst
<1>1. Init => ResolveInv
  BY DEF Init, ResolveInv
<1>2. ResolveInv => ResolvedIsFirst
  BY DEF ResolveInv, ResolvedIsFirst
<1> QED
  BY <1>1, <1>2, TypeInvariance, ResolveStep, PTL DEF Spec

-------------------------------------------------------------------------------
\* What a check has found out so far about a file that has not changed.
VerdictInv ==
  /\ VerdictIsTrue
  /\ \A p \in Procs :
       /\ pc[p] # "idle" => result[p] = "none"
       /\ pc[p] = "resolve" => ~steady[p]
       /\ steady[p] /\ pc[p] # "idle" =>
            /\ at[p] \in Indices /\ seen[p] = file[at[p]] /\ seen[p] # Absent
            /\ pc[p] = "run" => seen[p].executable

LEMMA PutVerdict ==
  ASSUME TypeInv, VerdictInv, NEW i \in Indices, NEW f, Put(i, f), UNCHANGED <<at, seen>>,
         \A q \in Procs : \/ pc'[q] = pc[q] /\ result'[q] = result[q]
                          \/ pc[q] # "idle" /\ pc'[q] \in {"head", "tail"} /\ result'[q] = result[q]
                          \/ pc[q] # "idle" /\ pc'[q] = "idle" /\ result'[q] = "complete"
  PROVE  VerdictInv'
<1>1. ASSUME NEW q \in Procs
      PROVE  /\ steady'[q] => steady[q] /\ (pc[q] # "idle" /\ at[q] \in Indices => file'[at[q]] = file[at[q]])
  BY DEF Put, TypeInv, TypeOK
<1>2. VerdictIsTrue'
  BY <1>1 DEF VerdictInv, VerdictIsTrue
<1>3. ASSUME NEW q \in Procs
      PROVE  /\ pc'[q] # "idle" => result'[q] = "none"
             /\ pc'[q] = "resolve" => ~steady'[q]
             /\ steady'[q] /\ pc'[q] # "idle" =>
                  /\ at[q] \in Indices /\ seen[q] = file'[at[q]] /\ seen[q] # Absent
                  /\ pc'[q] = "run" => seen[q].executable
  BY <1>1 DEF VerdictInv
<1> QED
  BY <1>2, <1>3 DEF VerdictInv

LEMMA VerdictStep == TypeInv /\ VerdictInv /\ [Next]_vars => VerdictInv'
<1> SUFFICES ASSUME TypeInv, VerdictInv, [Next]_vars PROVE VerdictInv'
  OBVIOUS
<1> USE CacheIsPlace
<1>1. ASSUME NEW p \in Procs, NEW o \in Options, Start(p, o) PROVE VerdictInv'
  <2>1. /\ \A q \in Procs : q # p => /\ pc'[q] = pc[q] /\ at'[q] = at[q] /\ result'[q] = result[q]
                                     /\ seen'[q] = seen[q] /\ steady'[q] = steady[q]
        /\ ~steady'[p] /\ file' = file /\ (pc'[p] # "idle" => result'[p] = "none")
    BY <1>1 DEF Start, TypeInv, TypeOK
  <2>2. VerdictIsTrue'
    BY <2>1 DEF VerdictInv, VerdictIsTrue
  <2> QED
    BY <2>1, <2>2 DEF VerdictInv
<1>2. ASSUME NEW p \in Procs, Resolve(p) PROVE VerdictInv'
  <2>1. /\ \A q \in Procs : q # p => /\ pc'[q] = pc[q] /\ at'[q] = at[q]
                                     /\ seen'[q] = seen[q] /\ steady'[q] = steady[q]
        /\ UNCHANGED <<file, result>> /\ pc[p] = "resolve" /\ at[p] \in Indices /\ result[p] = "none"
        /\ ~steady[p]
    BY <1>2 DEF Resolve, TypeInv, TypeOK, Placed, VerdictInv
  <2>2. \/ pc'[p] = "resolved" /\ at'[p] = at[p] /\ seen'[p] = file[at[p]] /\ file[at[p]] # Absent
        \/ pc'[p] \in {"resolve", "resolved"} /\ ~steady'[p]
    BY <1>2, <2>1 DEF Resolve, Found, TypeInv, TypeOK
  <2>3. VerdictIsTrue'
    BY <2>1 DEF VerdictInv, VerdictIsTrue
  <2>4. ASSUME NEW q \in Procs
        PROVE  /\ pc'[q] # "idle" => result[q] = "none"
               /\ pc'[q] = "resolve" => ~steady'[q]
               /\ steady'[q] /\ pc'[q] # "idle" =>
                    /\ at'[q] \in Indices /\ seen'[q] = file[at'[q]] /\ seen'[q] # Absent
                    /\ pc'[q] = "run" => seen'[q].executable
    <3>1. CASE q = p
      BY <2>1, <2>2, <3>1
    <3>2. CASE q # p
      BY <2>1, <3>2 DEF VerdictInv
    <3> QED
      BY <3>1, <3>2
  <2> QED
    BY <2>1, <2>3, <2>4 DEF VerdictInv
<1>3. ASSUME NEW p \in Procs, Aside(p) PROVE VerdictInv'
  <2>1. /\ UNCHANGED <<file, at, seen, steady>>
        /\ \A q \in Procs : q # p => pc'[q] = pc[q] /\ result'[q] = result[q]
        /\ pc[p] # "idle" /\ result[p] = "none"
    BY <1>3, AsideKeeps DEF VerdictInv
  <2>2. steady[p] => at[p] \in Indices /\ seen[p] = file[at[p]] /\ seen[p] # Absent
                     /\ (pc[p] = "run" => seen[p].executable)
    BY <2>1 DEF VerdictInv
  <2>3. steady[p] =>
          /\ result'[p] = "ok" => Works(seen[p]) /\ seen[p].executable
          /\ result'[p] = "corrupt" => seen[p] # Absent /\ seen[p].executable
          /\ result'[p] = "unusable" => seen[p] # Absent /\ ~seen[p].executable
          /\ result'[p] # "missing"
          /\ pc'[p] = "run" => seen[p].executable
    <3>1. CASE Check(p)
      <4>1. result \in [Procs -> Results] /\ pc \in [Procs -> PCs] /\ 0 \notin Indices
        BY DEF TypeInv, TypeOK, Indices
      <4>2. CASE NoPath(p) \/ HasPath(p) \/ Exists(p)
        BY <2>1, <2>2, <4>1, <4>2 DEF NoPath, HasPath, Exists, End, GoTo
      <4>3. CASE Access(p)
        BY <2>1, <2>2, <4>1, <4>3 DEF Access, Executable, End, GoTo
      <4>4. CASE RunVersionCheck(p)
        BY <2>1, <2>2, <4>1, <4>4 DEF RunVersionCheck, End, GoTo
      <4> QED
        BY <3>1, <4>2, <4>3, <4>4 DEF Check
    <3>2. CASE ~Check(p)
      BY <1>3, <2>1, <3>2 DEF Aside, KeepExisting, PrepareRaises, Prepare, Fetch, FetchFails,
         OpenFails, WriteFails, Crash, End, GoTo, TypeInv, TypeOK
    <3> QED
      BY <3>1, <3>2
  <2>4. VerdictIsTrue'
    BY <2>1, <2>3 DEF VerdictInv, VerdictIsTrue
  <2>5. pc'[p] = "idle" \/ (pc[p] # "resolve" /\ pc'[p] # "resolve" /\ result'[p] = "none")
    BY <1>3, <2>1, AsideKeeps
  <2> QED
    BY <2>1, <2>2, <2>3, <2>4, <2>5 DEF VerdictInv
<1>4. ASSUME NEW p \in Procs, Writes(p) PROVE VerdictInv'
  BY <1>4, WritesKeep, PutVerdict
<1>5. ASSUME NEW i \in Indices, Install(i) \/ Remove(i) \/ Chmod(i) PROVE VerdictInv'
  BY <1>5, Puts, PutVerdict
<1>6. CASE UNCHANGED vars
  BY <1>6 DEF vars, procVars, history, VerdictInv, VerdictIsTrue
<1> QED
  BY <1>1, <1>2, <1>3, <1>4, <1>5, <1>6, StepKinds

\* What a check says of a file that nobody changes meanwhile is so.
THEOREM VerdictTrue == Spec => []VerdictIsTrue
<1>1. Init => VerdictInv
  BY DEF Init, VerdictInv, VerdictIsTrue
<1>2. VerdictInv => VerdictIsTrue
  BY DEF VerdictInv
<1> QED
  BY <1>1, <1>2, TypeInvariance, VerdictStep, PTL DEF Spec

-------------------------------------------------------------------------------
\* Unless something is to blame, all that write the cached file write the same version,
\* and its first half is that version or will still be written.
TornInv ==
  \/ blamed
  \/ /\ Whole(file[Cache]) \/ Writers # {}
     /\ \A q, r \in Writers : options[q].version = options[r].version
     /\ \A q \in Writers : \/ file[Cache].head = options[q].version
                           \/ \E r \in Writers : pc[r] = "head"

\* Whoever starts, looks or judges does not write.
LEMMA SameWriters ==
  ASSUME TypeInv, TornInv, UNCHANGED <<file, blamed>>, Writers' = Writers,
         \A q \in Writers : pc'[q] = pc[q] /\ options'[q] = options[q]
  PROVE  TornInv'
BY DEF TornInv

LEMMA TornStep == TypeInv /\ TornInv /\ [Next]_vars => TornInv'
<1> SUFFICES ASSUME TypeInv, TornInv, [Next]_vars PROVE TornInv'
  OBVIOUS
<1> USE CacheIsPlace
<1>0. Writers \subseteq Procs
  BY DEF Writers
<1>1. ASSUME NEW p \in Procs, NEW o \in Options, Start(p, o) PROVE TornInv'
  <2>1. Writers' = Writers /\ \A q \in Writers : pc'[q] = pc[q] /\ options'[q] = options[q]
    BY <1>1 DEF Start, Writers, TypeInv, TypeOK
  <2> QED
    BY <1>1, <2>1, SameWriters DEF Start
<1>2. ASSUME NEW p \in Procs, Resolve(p) PROVE TornInv'
  <2>1. Writers' = Writers /\ \A q \in Writers : pc'[q] = pc[q] /\ options'[q] = options[q]
    BY <1>2 DEF Resolve, Writers, TypeInv, TypeOK
  <2> QED
    BY <1>2, <2>1, SameWriters DEF Resolve
<1>3. ASSUME NEW p \in Procs, Aside(p) PROVE TornInv'
  <2>1. CASE blamed'
    BY <2>1 DEF TornInv
  <2>2. CASE ~blamed'
    <3>1. blamed' = blamed /\ p \notin Writers
      BY <1>3, <2>2 DEF Aside, KeepExisting, PrepareRaises, Prepare, Fetch, FetchFails, OpenFails,
         WriteFails, Check, NoPath, HasPath, Exists, Access, RunVersionCheck, Crash, End, GoTo,
         history, Writers, TypeInv, TypeOK
    <3>2. Writers' = Writers /\ \A q \in Writers : pc'[q] = pc[q] /\ options'[q] = options[q]
      BY <1>3, <3>1, AsideKeeps DEF Writers
    <3> QED
      BY <1>3, <3>1, <3>2, AsideKeeps, SameWriters
  <2> QED
    BY <2>1, <2>2
<1>4. ASSUME NEW p \in Procs, Open(p) PROVE TornInv'
  <2>1. /\ Writers' = Writers \cup {p} /\ pc'[p] = "head" /\ options' = options
        /\ blamed' = (Writers # {} /\ (blamed \/ \E q \in Writers : options[q].version # options[p].version))
    BY <1>4 DEF Open, GoTo, Writers, TypeInv, TypeOK
  <2>2. CASE Writers = {}
    BY <2>1, <2>2 DEF TornInv
  <2>3. CASE Writers # {} /\ ~blamed'
    BY <2>1, <2>3 DEF TornInv
  <2> QED
    BY <2>2, <2>3 DEF TornInv
<1>5. ASSUME NEW p \in Procs, WriteHead(p) PROVE TornInv'
  <2>1. /\ Writers' = Writers /\ p \in Writers /\ options' = options /\ blamed' = blamed
        /\ file'[Cache].head = options[p].version
    <3>1. file[Cache] \in [head : Halves, tail : Halves, executable : BOOLEAN]
      BY <1>5, Puts DEF File, TypeInv, TypeOK
    <3>2. file'[Cache] = [file[Cache] EXCEPT !.head = options[p].version]
      BY <1>5 DEF WriteHead, Put, TypeInv, TypeOK
    <3> QED
      BY <1>5, <3>1, <3>2 DEF WriteHead, GoTo, Writers, TypeInv, TypeOK
  <2> QED
    BY <2>1 DEF TornInv
<1>6. ASSUME NEW p \in Procs, WriteTail(p) PROVE TornInv'
  <2>1. /\ Writers' = Writers \ {p} /\ p \in Writers /\ options' = options /\ blamed' = blamed
        /\ pc[p] = "tail" /\ \A q \in Procs : q # p => pc'[q] = pc[q]
        /\ file'[Cache].head = file[Cache].head /\ file'[Cache].tail = options[p].version
    <3>1. file[Cache] \in [head : Halves, tail : Halves, executable : BOOLEAN]
      BY <1>6, Puts DEF File, TypeInv, TypeOK
    <3>2. file'[Cache] = [file[Cache] EXCEPT !.tail = options[p].version]
      BY <1>6 DEF WriteTail, Put, TypeInv, TypeOK
    <3> QED
      BY <1>6, <3>1, <3>2 DEF WriteTail, End, GoTo, Writers, TypeInv, TypeOK
  <2>2. CASE blamed
    BY <2>1, <2>2 DEF TornInv
  <2>3. CASE ~blamed
    <3>1. /\ \A q, r \in Writers : options[q].version = options[r].version
          /\ \A q \in Writers : file[Cache].head = options[q].version \/ \E r \in Writers : pc[r] = "head"
      BY <2>3 DEF TornInv
    <3>2. Writers' = {} => Whole(file'[Cache])
      BY <2>1, <3>1 DEF Whole
    <3>3. \A q \in Writers' : file'[Cache].head = options'[q].version \/ \E r \in Writers' : pc'[r] = "head"
      BY <1>0, <2>1, <3>1
    <3> QED
      BY <2>1, <3>1, <3>2, <3>3 DEF TornInv
  <2> QED
    BY <2>2, <2>3
<1>7. ASSUME NEW i \in Indices, Install(i) \/ Remove(i) \/ Chmod(i) PROVE TornInv'
  <2>1. Writers' = Writers /\ UNCHANGED <<pc, options>>
    BY <1>7, Puts DEF Writers
  <2>2. CASE i # Cache
    <3>1. file'[Cache] = file[Cache] /\ blamed' = blamed
      BY <1>7, <2>2 DEF Install, Remove, Chmod, Touch, Put, TypeInv, TypeOK
    <3> QED
      BY <2>1, <3>1 DEF TornInv
  <2>3. CASE i = Cache /\ (Install(i) \/ Remove(i))
    <3>1. Writers = {} /\ Whole(file'[Cache])
      BY <2>3 DEF Install, Remove, Touch, Put, Whole, Absent, TypeInv, TypeOK
    <3> QED
      BY <2>1, <3>1 DEF TornInv
  <2>4. CASE i = Cache /\ Chmod(i)
    <3>1. file[Cache] \in [head : Halves, tail : Halves, executable : BOOLEAN]
      BY <2>4 DEF Chmod, File, TypeInv, TypeOK
    <3>2. file'[Cache] = [file[Cache] EXCEPT !.executable = TRUE] /\ blamed' = blamed
      BY <2>4 DEF Chmod, Touch, Put, TypeInv, TypeOK
    <3>3. file'[Cache].head = file[Cache].head /\ file'[Cache].tail = file[Cache].tail
      BY <3>1, <3>2
    <3> QED
      BY <2>1, <3>2, <3>3 DEF TornInv, Whole
  <2> QED
    BY <1>7, <2>2, <2>3, <2>4
<1>8. CASE UNCHANGED vars
  BY <1>8 DEF vars, procVars, history, TornInv, Writers
<1> QED
  BY <1>1, <1>2, <1>3, <1>4, <1>5, <1>6, <1>7, <1>8, StepKinds DEF Writes

\* The cached file has halves of different origin only while it is written, or after a
\* download that was cut short or met one of another version.
THEOREM TornCause == Spec => []TornHasCause
<1>1. Init => TornInv
  <2> SUFFICES ASSUME Init PROVE TornInv
    OBVIOUS
  <2>1. Writers = {}
    BY DEF Init, Writers
  <2>2. Whole(file[Cache])
    BY CacheIsPlace DEF Init, Whole, Absent
  <2> QED
    BY <2>1, <2>2 DEF TornInv
<1>2. TornInv => TornHasCause
  BY DEF TornInv, TornHasCause
<1> QED
  BY <1>1, <1>2, TypeInvariance, TornStep, PTL DEF Spec
=============================================================================
