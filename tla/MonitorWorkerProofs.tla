------------------------- MODULE MonitorWorkerProofs -------------------------
(***************************************************************************)
(* Proofs about MonitorWorker: its type invariant; that the saved Wi-Fi    *)
(* state tells the truth about the box; and that the configuration cache   *)
(* is never behind the revision it has recorded.                           *)
(***************************************************************************)
EXTENDS MonitorWorker, TLAPS

Alone == \A p, q \in Proc : {pc[p], pc[q]} \subseteq Reconciling => p = q

\* A process that is about to save has made the box as it wants it, and nobody
\* else has touched it since.
SaveInv ==
    /\ alone => Alone
    /\ \A p \in Proc :
         alone /\ pc[p] = "save" /\ Settings[Used(p)].control => box = Want(p)

\* The cache lives as long as the stream it was made for, and its revision is
\* one the database has had.
CacheInv ==
    /\ pc[Worker] \in {"down", "required", "recheck", "open"} => cache = NoCache
    /\ pc[Worker] \in Reconciling \cup {"load"} => cache # NoCache
    /\ cache # NoCache => cache.rev <= rev
    /\ CacheNotBehind

WorkerInv == TypeOK /\ SaveInv /\ SavedMeansApplied /\ CacheInv

-----------------------------------------------------------------------------
(* Types *)

LEMMA NoObservationType == NoObservation \in Observation
  BY DEF NoObservation, Observation

LEMMA NamedType ==
    ASSUME NEW ssid \in Name \cup {unknown}, NEW bssid \in Name \cup {unknown}
    PROVE  Named(ssid, bssid) \in Observation
  BY DEF Named, Observation

LEMMA LinkType ==
    ASSUME NEW n \in Place
    PROVE  Link(n) \in Observation
  BY WorkerAssumption, NoObservationType, NamedType DEF Link, Place

\* A tool that tells nothing tells what it may.
LEMMA ToldType ==
    ASSUME NEW S, NEW nothing \in S, NEW x \in S
    PROVE  Told(x, nothing) \subseteq S
  BY DEF Told

LEMMA AddressType ==
    ASSUME TypeOK
    PROVE  Address \in Network \cup {NoIp}
  BY DEF TypeOK, Address, Place

LEMMA WantType ==
    ASSUME NEW s \in WifiSettings, NEW o \in Observation
    PROVE  ShouldEnable(s, o) \in BOOLEAN
  BY DEF ShouldEnable, Matched, WifiSettings, Observation

LEMMA UsedType ==
    ASSUME TypeOK, CacheInv, NEW p \in Proc, pc[p] \in Reconciling
    PROVE  /\ Used(p) \in Version
           /\ Settings[Used(p)] \in WifiSettings
           /\ Want(p) \in BOOLEAN
  <1>1. Used(p) \in Version
    BY DEF TypeOK, CacheInv, Used, Proc
  <1>2. Settings[Used(p)] \in WifiSettings
    BY <1>1, WorkerAssumption
  <1>3. obs[p] \in Observation
    BY DEF TypeOK
  <1> QED
    BY <1>1, <1>2, <1>3, WantType DEF Want

LEMMA RecordUpdate ==
    ASSUME NEW o \in Observation, NEW i, NEW c
    PROVE  [[o EXCEPT !.ip = i] EXCEPT !.connected = c] =
             [connected |-> c, ssid |-> o.ssid, bssid |-> o.bssid, ip |-> i]
  <1>1. o = [connected |-> o.connected, ssid |-> o.ssid, bssid |-> o.bssid, ip |-> o.ip]
    BY DEF Observation
  <1> DEFINE x == o.connected  y == o.ssid  z == o.bssid  w == o.ip
  <1>2. o = [connected |-> x, ssid |-> y, bssid |-> z, ip |-> w]
    BY <1>1
  <1> HIDE DEF x, y, z, w
  <1>3. [o EXCEPT !.ip = i] = [connected |-> x, ssid |-> y, bssid |-> z, ip |-> i]
    BY <1>2
  <1>4. [[connected |-> x, ssid |-> y, bssid |-> z, ip |-> i] EXCEPT !.connected = c]
          = [connected |-> c, ssid |-> y, bssid |-> z, ip |-> i]
    OBVIOUS
  <1>5. [[o EXCEPT !.ip = i] EXCEPT !.connected = c]
          = [connected |-> c, ssid |-> y, bssid |-> z, ip |-> i]
    BY <1>3, <1>4, Zenon
  <1> QED BY <1>5 DEF y, z

\* What a step of a reconciliation does to the places.
LEMMA GotoType ==
    ASSUME TypeOK, NEW p \in Proc, NEW at \in Places, Goto(p, at)
    PROVE  /\ pc' \in [Proc -> Places]
           /\ pc'[p] = at
           /\ \A q \in Proc \ {p} : pc'[q] = pc[q]
  BY DEF TypeOK, Goto

LEMMA FinishType ==
    ASSUME TypeOK, NEW p \in Proc, Finish(p)
    PROVE  /\ pc' \in [Proc -> Places]
           /\ pc'[p] \in {"recv", "down"}
           /\ \A q \in Proc \ {p} : pc'[q] = pc[q]
           /\ obs' \in [Proc -> Observation]
           /\ \A q \in Proc \ {p} : obs'[q] = obs[q]
           /\ UNCHANGED eventVars
  <1>1. {"recv", "down"} \subseteq Places
    BY DEF Places
  <1>2. pc' \in [Proc -> Places] /\ pc'[p] \in {"recv", "down"}
        /\ \A q \in Proc \ {p} : pc'[q] = pc[q]
    BY <1>1 DEF Finish, Goto, TypeOK
  <1>3. obs' \in [Proc -> Observation] /\ \A q \in Proc \ {p} : obs'[q] = obs[q]
    BY NoObservationType DEF Finish, TypeOK
  <1> QED
    BY <1>2, <1>3 DEF Finish

\* What no step of a reconciliation changes, and what it does to the process.
LEMMA ReconcileType ==
    ASSUME TypeOK, CacheInv, NEW p \in Proc, Reconcile(p)
    PROVE  /\ pc[p] \in Reconciling
           /\ pc' \in [Proc -> Places]
           /\ pc'[p] \in (Reconciling \cup {"recv", "down"}) \ {"status"}
           /\ \A q \in Proc \ {p} : pc'[q] = pc[q]
           /\ obs' \in [Proc -> Observation]
           /\ \A q \in Proc \ {p} : obs'[q] = obs[q]
           /\ box' \in BOOLEAN
           /\ UNCHANGED <<unchangedWorld, eventVars>>
  <1> DEFINE Frame == /\ pc[p] \in Reconciling
                      /\ pc' \in [Proc -> Places]
                      /\ pc'[p] \in (Reconciling \cup {"recv", "down"}) \ {"status"}
                      /\ \A q \in Proc \ {p} : pc'[q] = pc[q]
             Seen == /\ obs' \in [Proc -> Observation]
                     /\ \A q \in Proc \ {p} : obs'[q] = obs[q]
  <1>a. Reconciling \subseteq Places
    BY DEF Places
  <1>b. ASSUME NEW at \in Reconciling \ {"status"}, pc[p] \in Reconciling, Goto(p, at)
        PROVE  Frame
    BY <1>a, <1>b, GotoType
  <1>c. ASSUME pc[p] \in Reconciling, Finish(p)
        PROVE  Frame /\ Seen /\ UNCHANGED eventVars
    BY <1>c, FinishType
  <1>d. ASSUME UNCHANGED obs PROVE Seen
    BY <1>d DEF TypeOK
  <1>e. box \in BOOLEAN
    BY DEF TypeOK
  <1>1. CASE ReadStatus(p)
    <2>1. Frame
      <3>1. PICK at \in {"compare", "address", "guess"} : Goto(p, at)
        BY <1>1 DEF ReadStatus
      <3>2. at \in Reconciling \ {"status"}
        BY <3>1 DEF Reconciling
      <3>3. pc[p] \in Reconciling
        BY <1>1 DEF ReadStatus, Reconciling
      <3> QED BY <3>1, <3>2, <3>3, <1>b
    <2>2. Link(place) \in Observation
      BY LinkType DEF TypeOK
    <2>3. PICK ssid \in Told(Link(place).ssid, unknown),
               bssid \in Told(Link(place).bssid, unknown) :
            obs' = [obs EXCEPT ![p] = Named(ssid, bssid)]
      BY <1>1 DEF ReadStatus
    <2>4. ssid \in Name \cup {unknown} /\ bssid \in Name \cup {unknown}
      <3>1. /\ Link(place).ssid \in Name \cup {unknown}
            /\ Link(place).bssid \in Name \cup {unknown}
        BY <2>2 DEF Observation
      <3> QED BY <2>3, <3>1, ToldType
    <2>5. Seen
      BY <2>3, <2>4, NamedType DEF TypeOK
    <2> QED
      BY <1>1, <1>e, <2>1, <2>5 DEF ReadStatus, boxVars
  <1>2. CASE ReadAddress(p)
    <2>1. Frame
      <3>1. pc[p] \in Reconciling /\ "compare" \in Reconciling \ {"status"}
        BY <1>2 DEF ReadAddress, Reconciling
      <3> QED BY <1>2, <3>1, <1>b DEF ReadAddress
    <2>2. PICK o \in Observation : obs' = [obs EXCEPT ![p] = o]
      <3>0. PICK a \in Told(Address, NoIp) :
              obs' = [obs EXCEPT ![p].ip = a,
                        ![p].connected = IF pc[p] = "guess" THEN a # NoIp ELSE @]
        BY <1>2 DEF ReadAddress
      <3> DEFINE t == IF pc[p] = "guess" THEN a # NoIp ELSE obs[p].connected
                 o == [connected |-> t, ssid |-> obs[p].ssid,
                       bssid |-> obs[p].bssid, ip |-> a]
      <3>1. obs[p] \in Observation /\ obs \in [Proc -> Observation]
        BY DEF TypeOK
      <3>2. a \in Network \cup {NoIp}
        BY AddressType, ToldType
      <3>3. t \in BOOLEAN
        BY <3>1 DEF Observation
      <3>4. o \in Observation
        BY <3>1, <3>2, <3>3 DEF Observation
      <3>5. obs' = [obs EXCEPT ![p] = o]
        <4>1. obs' = [[obs EXCEPT ![p] = [obs[p] EXCEPT !.ip = a]]
                        EXCEPT ![p] = [[obs[p] EXCEPT !.ip = a] EXCEPT !.connected = t]]
          BY <3>0, <3>1 DEF Observation
        <4>2. [[obs[p] EXCEPT !.ip = a] EXCEPT !.connected = t] = o
          BY <3>1, RecordUpdate
        <4> HIDE DEF t, o
        <4> QED BY <3>1, <4>1, <4>2
      <3> QED BY <3>4, <3>5
    <2>3. Seen
      BY <2>2 DEF TypeOK
    <2> QED
      BY <1>2, <1>e, <2>1, <2>3 DEF ReadAddress, boxVars
  <1>3. CASE Compare(p)
    <2>1. pc[p] \in Reconciling
      BY <1>3 DEF Compare, Reconciling
    <2>2. CASE Finish(p)
      BY <1>3, <1>e, <2>1, <2>2, <1>c DEF Compare, boxVars
    <2>3. CASE /\ Goto(p, Decision(Settings[Used(p)], obs[p]))
               /\ UNCHANGED <<eventVars, obs>>
      <3>1. Decision(Settings[Used(p)], obs[p]) \in {"save", "wait1", "look"}
        BY DEF Decision
      <3>2. {"save", "wait1", "look"} \subseteq Reconciling \ {"status"}
        BY DEF Reconciling
      <3>3. Frame
        BY <2>1, <2>3, <3>1, <3>2, <1>b
      <3> QED
        BY <1>3, <1>d, <1>e, <2>3, <3>3 DEF Compare, boxVars
    <2> QED
      BY <1>3, <2>2, <2>3 DEF Compare
  <1>4. CASE WaitAddress(p)
    <2>1. pc[p] \in Reconciling
      BY <1>4 DEF WaitAddress, Reconciling
    <2>2. ASSUME NEW ip \in Told(Address, NoIp), obs' = [obs EXCEPT ![p].ip = ip],
                 Goto(p, "look"), UNCHANGED eventVars
          PROVE  Frame /\ Seen
      <3>1. Frame
        BY <2>1, <2>2, <1>b DEF Reconciling
      <3>2. ip \in Network \cup {NoIp}
        BY AddressType, ToldType
      <3>3. Seen
        BY <2>2, <3>2 DEF TypeOK, Observation
      <3> QED BY <3>1, <3>3
    <2>3. ASSUME Goto(p, "wait2"), UNCHANGED obs
          PROVE  Frame /\ Seen
      BY <2>1, <2>3, <1>b, <1>d DEF Reconciling
    <2>4. Frame /\ Seen /\ UNCHANGED eventVars
      <3> HIDE DEF Frame, Seen
      <3> QED BY <1>4, <2>1, <2>2, <2>3, <1>c DEF WaitAddress
    <2> QED
      BY <1>4, <1>e, <2>4 DEF WaitAddress, boxVars
  <1>5. CASE Look(p)
    <2>1. PICK at \in {"save", "act"} : Goto(p, at)
      BY <1>5 DEF Look
    <2>2. pc[p] \in Reconciling /\ at \in Reconciling \ {"status"}
      BY <1>5, <2>1 DEF Look, Reconciling
    <2>3. Frame
      BY <2>1, <2>2, <1>b
    <2> QED
      BY <1>5, <1>d, <1>e, <2>3 DEF Look, boxVars
  <1>6. CASE Act(p)
    <2>1. pc[p] \in Reconciling
      BY <1>6 DEF Act, Reconciling
    <2>2. CASE box' = Want(p) /\ Goto(p, "save") /\ UNCHANGED <<eventVars, obs>>
      <3>1. Frame
        BY <2>1, <2>2, <1>b DEF Reconciling
      <3>2. box' \in BOOLEAN
        BY <2>1, <2>2, UsedType
      <3> QED
        BY <1>6, <1>d, <2>2, <3>1, <3>2 DEF Act
    <2>3. CASE box' \in {box, FALSE} /\ Finish(p)
      BY <1>6, <1>e, <2>1, <2>3, <1>c DEF Act
    <2> QED
      BY <1>6, <2>2, <2>3 DEF Act
  <1>7. CASE Save(p)
    <2>1. pc[p] \in Reconciling
      BY <1>7 DEF Save, Reconciling
    <2> QED
      BY <1>7, <1>e, <2>1, <1>c DEF Save
  <1> QED
    BY <1>1, <1>2, <1>3, <1>4, <1>5, <1>6, <1>7 DEF Reconcile

LEMMA SaveType ==
    ASSUME TypeOK, CacheInv, NEW p \in Proc, Reconcile(p)
    PROVE  /\ saved' \in Observation \cup {NoState}
           /\ savedBy' \in Version /\ unsaved' \in BOOLEAN
  <1>1. CASE Save(p)
    <2>1. pc[p] \in Reconciling
      BY <1>1 DEF Save, Reconciling
    <2> QED
      BY <1>1, <2>1, UsedType DEF Save, TypeOK
  <1>2. CASE Act(p)
    BY <1>2 DEF Act, TypeOK
  <1>3. CASE UNCHANGED boxVars
    BY <1>3 DEF boxVars, TypeOK
  <1> QED
    BY <1>1, <1>2, <1>3 DEF Reconcile, ReadStatus, ReadAddress, Compare,
       WaitAddress, Look

-----------------------------------------------------------------------------
(* The steps that are not part of a reconciliation *)

LoopStep ==
    \/ CheckRequired \/ OpenSocket \/ OpenFails \/ ReadRevision \/ LoadConfig
    \/ Receive \/ Quiet \/ SpawnWorker \/ TimePasses

WorldStep == Move \/ ChangeAddress \/ Chatter \/ StreamBreaks \/ EditConfig

Alternatives ==
    \/ LoopStep \/ WorldStep
    \/ \E c \in Command : RunCommand(c)
    \/ \E p \in Proc : Reconcile(p) \/ Kill(p)

LEMMA NextCases ==
    ASSUME Next
    PROVE  /\ Alternatives
           /\ alone' => alone
           /\ alone' => Alone'
  <1>1. Alternatives
    BY DEF Next, WorkerStep, Alternatives, LoopStep, WorldStep, Proc
  <1>2. (alone' => alone) /\ (alone' => Alone')
    BY DEF Next, Alone
  <1> QED BY <1>1, <1>2

\* The worker's own steps touch neither the box nor a command.
LEMMA LoopType ==
    ASSUME TypeOK, CacheInv, LoopStep
    PROVE  /\ UNCHANGED unchangedReconcile
           /\ pc[Worker] \notin Reconciling
           /\ pc' \in [Proc -> Places]
           /\ pc'[Worker] \in Places \ (Reconciling \ {"status"})
           /\ \A q \in Command : pc'[q] = pc[q]
  <1> DEFINE Frame == /\ pc' \in [Proc -> Places]
                      /\ pc'[Worker] \in Places \ (Reconciling \ {"status"})
                      /\ \A q \in Command : pc'[q] = pc[q]
             Target == {"open", "down", "recheck", "revision", "status", "load",
                        "quiet", "required"}
  <1>a. Target \subseteq Places \ (Reconciling \ {"status"})
    BY DEF Places, Reconciling
  <1>b. Worker \in Proc /\ Worker \notin Command /\ Command \subseteq Proc
    BY WorkerAssumption DEF Proc
  <1>c. ASSUME NEW at \in Target, Goto(Worker, at)
        PROVE  Frame
    BY <1>a, <1>b, <1>c DEF Goto, TypeOK
  <1>d. ASSUME pc[Worker] \in Places \ Reconciling, UNCHANGED pc
        PROVE  Frame
    BY <1>b, <1>d DEF TypeOK
  <1> HIDE DEF Frame, Target
  <1>1. CASE CheckRequired
    <2>1. PICK at \in {"open", "down"} : Goto(Worker, at)
      BY <1>1 DEF CheckRequired
    <2> QED
      BY <1>1, <2>1, <1>c DEF CheckRequired, Reconciling, Frame, Target
  <1>2. CASE OpenSocket
    BY <1>2, <1>c DEF OpenSocket, Reconciling, Frame, Target
  <1>3. CASE OpenFails
    BY <1>3, <1>c DEF OpenFails, Reconciling, Frame, Target
  <1>4. CASE ReadRevision
    <2>1. PICK at \in {"status", "load"} : Goto(Worker, at)
      BY <1>4 DEF ReadRevision
    <2> QED
      BY <1>4, <2>1, <1>c DEF ReadRevision, Reconciling, Frame, Target
  <1>5. CASE LoadConfig
    BY <1>5, <1>c DEF LoadConfig, Reconciling, Frame, Target
  <1>6. CASE Receive
    <2>1. PICK at \in {"quiet", "recheck"} : Goto(Worker, at)
      BY <1>6 DEF Receive, StreamEnds
    <2> QED
      BY <1>6, <2>1, <1>c DEF Receive, Reconciling, Frame, Target
  <1>7. CASE Quiet
    <2>1. pc[Worker] \in Places \ Reconciling
      BY <1>7, <1>b DEF Quiet, Places, Reconciling
    <2>2. UNCHANGED pc \/ \E at \in {"revision", "recheck"} : Goto(Worker, at)
      BY <1>7 DEF Quiet, StreamEnds
    <2>3. Frame
      BY <2>1, <2>2, <1>c, <1>d DEF Target
    <2> QED
      BY <1>7, <2>1, <2>3 DEF Quiet, Frame
  <1>8. CASE SpawnWorker
    BY <1>8, <1>c DEF SpawnWorker, Reconciling, Frame, Target
  <1>9. CASE TimePasses
    <2>1. pc[Worker] \in Places \ Reconciling
      BY <1>9, <1>b DEF TimePasses, Places, Reconciling
    <2> QED
      BY <1>9, <2>1, <1>d DEF TimePasses, Frame
  <1> QED
    BY <1>1, <1>2, <1>3, <1>4, <1>5, <1>6, <1>7, <1>8, <1>9 DEF LoopStep


LEMMA LoopEvents ==
    ASSUME TypeOK, CacheInv, LoopStep
    PROVE  /\ stream' \in {"closed", "open", "broken"} /\ chan' \in 0 .. MaxQueue
           /\ late' \in BOOLEAN /\ rev' = rev /\ base' \in Version
           /\ cache' \in [ver : Version, rev : Version] \cup {NoCache}
  <1>1. /\ stream' \in {"closed", "open", "broken"}
        /\ late' \in BOOLEAN /\ rev' = rev
    BY DEF LoopStep, TypeOK, CheckRequired, OpenSocket, OpenFails, ReadRevision,
       LoadConfig, Receive, Quiet, StreamEnds, SpawnWorker, TimePasses,
       eventVars, configVars
  <1>2. chan' \in 0 .. MaxQueue
    BY WorkerAssumption DEF LoopStep, TypeOK, CheckRequired, OpenSocket,
       OpenFails, ReadRevision, LoadConfig, Receive, Quiet, StreamEnds,
       SpawnWorker, TimePasses, eventVars, configVars
  <1>3. base' \in Version
    BY DEF LoopStep, TypeOK, CheckRequired, OpenSocket, OpenFails, ReadRevision,
       LoadConfig, Receive, Quiet, StreamEnds, SpawnWorker, TimePasses,
       eventVars, configVars
  <1>4. cache' \in [ver : Version, rev : Version] \cup {NoCache}
    <2>1. CASE UNCHANGED cache \/ cache' = NoCache
      BY <2>1 DEF TypeOK
    <2>2. CASE ReadRevision
      BY <2>2 DEF ReadRevision, TypeOK
    <2>3. CASE LoadConfig
      <3>1. PICK v \in Version : cache' = [cache EXCEPT !.ver = v]
        BY <2>3 DEF LoadConfig, TypeOK
      <3>2. cache # NoCache
        BY <2>3 DEF LoadConfig, CacheInv
      <3> QED BY <3>1, <3>2 DEF TypeOK
    <2> QED
      BY <2>1, <2>2, <2>3 DEF LoopStep, CheckRequired, OpenSocket, OpenFails,
         Receive, Quiet, StreamEnds, SpawnWorker, TimePasses, configVars
  <1> QED BY <1>1, <1>2, <1>3, <1>4

LEMMA KillType ==
    ASSUME TypeOK, NEW p \in Proc, Kill(p)
    PROVE  /\ pc' = [pc EXCEPT ![p] = "down"]
           /\ pc' \in [Proc -> Places]
           /\ obs' \in [Proc -> Observation]
           /\ \A q \in Proc \ {p} : obs'[q] = obs[q]
  BY NoObservationType DEF Kill, Goto, TypeOK, Places

LEMMA TypeStep ==
    ASSUME TypeOK, CacheInv, Next
    PROVE  TypeOK'
  <1>0. alone' \in BOOLEAN
    BY DEF Next
  <1>1. CASE LoopStep
    BY <1>0, <1>1, LoopType, LoopEvents DEF TypeOK, unchangedReconcile, worldVars,
       boxVars
  <1>2. ASSUME NEW p \in Proc, Reconcile(p) PROVE TypeOK'
    BY <1>0, <1>2, ReconcileType, SaveType DEF TypeOK, unchangedWorld, worldVars,
       eventVars, configVars
  <1>3. CASE WorldStep
    <2>1. Notify => chan' \in 0 .. MaxQueue
      BY WorkerAssumption DEF Notify, TypeOK
    <2>2. EditConfig => rev' \in Version
      BY DEF EditConfig
    <2>3. chan' \in 0 .. MaxQueue /\ rev' \in Version
          /\ stream' \in {"closed", "open", "broken"}
      BY <1>3, <2>1, <2>2 DEF WorldStep, Move, ChangeAddress, Chatter, StreamBreaks,
         EditConfig, Notify, TypeOK, eventVars, configVars
    <2>4. place' \in Place /\ addr' \in BOOLEAN
      BY <1>3 DEF WorldStep, Move, ChangeAddress, Chatter, StreamBreaks, EditConfig,
         TypeOK, worldVars
    <2>5. UNCHANGED <<status, base, cache, boxVars, pc, obs, loaded, commands, late>>
      BY <1>3 DEF WorldStep, Move, ChangeAddress, Chatter, StreamBreaks, EditConfig,
         Notify, worldVars, eventVars, configVars
    <2> QED
      BY <1>0, <2>3, <2>4, <2>5 DEF TypeOK, boxVars
  <1>4. ASSUME NEW c \in Command, RunCommand(c) PROVE TypeOK'
    <2>1. c \in Proc /\ "status" \in Places
      BY DEF Proc, Places, Reconciling
    <2>2. pc' \in [Proc -> Places]
      BY <1>4, <2>1 DEF RunCommand, Goto, TypeOK
    <2>3. loaded' \in [Command -> Version]
      BY <1>4 DEF RunCommand, TypeOK
    <2>4. commands' \in 0 .. MaxCommands
      <3>1. commands < MaxCommands /\ commands' = commands + 1
        BY <1>4 DEF RunCommand
      <3>2. commands \in 0 .. MaxCommands /\ MaxCommands \in Nat
        BY WorkerAssumption DEF TypeOK
      <3> QED BY <3>1, <3>2
    <2> QED
      BY <1>0, <1>4, <2>2, <2>3, <2>4 DEF RunCommand, TypeOK, worldVars, eventVars,
         configVars, boxVars
  <1>5. ASSUME NEW p \in Proc, Kill(p) PROVE TypeOK'
    <2>1. /\ stream' \in {"closed", "open", "broken"} /\ chan' \in 0 .. MaxQueue
          /\ late' \in BOOLEAN
          /\ cache' \in [ver : Version, rev : Version] \cup {NoCache}
      <3>1. CASE /\ stream' = "closed" /\ chan' = 0
                 /\ late' = FALSE /\ cache' = NoCache
        <4>1. 0 \in 0 .. MaxQueue
          BY WorkerAssumption
        <4> QED BY <3>1, <4>1
      <3>2. CASE UNCHANGED <<eventVars, cache>>
        BY <3>2 DEF TypeOK, eventVars
      <3> QED BY <1>5, <3>1, <3>2 DEF Kill
    <2> QED
      BY <1>0, <1>5, <2>1, KillType DEF Kill, TypeOK, worldVars, boxVars
  <1> QED
    BY <1>1, <1>2, <1>3, <1>4, <1>5, NextCases DEF Alternatives

-----------------------------------------------------------------------------
(* The saved state *)

\* A process that is about to save and takes no step decides as it did.
LEMMA Undisturbed ==
    ASSUME NEW p \in Proc, obs'[p] = obs[p], Used(p)' = Used(p)
    PROVE  /\ Want(p)' = Want(p)
           /\ Settings[Used(p)]' = Settings[Used(p)]
  BY DEF Want

\* If a process is about to save now, it was before, and nothing it decided
\* with has changed.
SaveKept(p) ==
    pc'[p] = "save" => /\ pc[p] = "save"
                       /\ obs'[p] = obs[p]
                       /\ Used(p)' = Used(p)

LEMMA SaveKeptStep ==
    ASSUME SaveInv, (alone' => alone) /\ (alone' => Alone'),
           UNCHANGED box, \A p \in Proc : SaveKept(p)
    PROVE  SaveInv'
  <1> SUFFICES ASSUME NEW p \in Proc, alone', pc'[p] = "save",
                      Settings[Used(p)'].control
               PROVE  box' = Want(p)'
    BY DEF SaveInv
  <1>1. pc[p] = "save" /\ obs'[p] = obs[p] /\ Used(p)' = Used(p)
    BY DEF SaveKept
  <1>2. Want(p)' = Want(p)
    BY <1>1, Undisturbed
  <1>3. box = Want(p)
    BY <1>1 DEF SaveInv
  <1> QED BY <1>2, <1>3


LEMMA SaveStep ==
    ASSUME WorkerInv, Next
    PROVE  SaveInv'
  <1>t. TypeOK /\ CacheInv /\ SaveInv
    BY DEF WorkerInv
  <1>n. (alone' => alone) /\ (alone' => Alone')
    BY NextCases
  <1>w. Worker \in Proc /\ Worker \notin Command /\ Command \subseteq Proc
    BY WorkerAssumption DEF Proc
  <1>1. CASE LoopStep
    <2>1. UNCHANGED box /\ \A p \in Proc : SaveKept(p)
      BY <1>1, <1>t, <1>w, LoopType DEF SaveKept, Used, unchangedReconcile,
         boxVars, Reconciling, Proc
    <2> QED BY <1>t, <1>n, <2>1, SaveKeptStep
  <1>2. ASSUME NEW p \in Proc, Reconcile(p) PROVE SaveInv'
    <2> SUFFICES ASSUME NEW q \in Proc, alone', pc'[q] = "save",
                        Settings[Used(q)'].control
                 PROVE  box' = Want(q)'
      BY <1>n DEF SaveInv
    <2>1. /\ pc[p] \in Reconciling /\ \A r \in Proc \ {p} : pc'[r] = pc[r]
          /\ UNCHANGED <<cache, loaded>>
      BY <1>2, <1>t, ReconcileType DEF unchangedWorld, configVars
    <2>2. q = p
      <3>1. alone /\ Alone
        BY <1>n, <1>t DEF SaveInv
      <3>2. SUFFICES ASSUME q # p PROVE FALSE
        OBVIOUS
      <3>3. pc[q] = "save"
        BY <2>1, <3>2
      <3>4. {pc[p], pc[q]} \subseteq Reconciling
        BY <2>1, <3>3 DEF Reconciling
      <3> QED BY <3>1, <3>2, <3>4 DEF Alone
    <2>3. Used(q)' = Used(q)
      BY <2>1 DEF Used
    <2>4. pc'[p] = "save"
      BY <2>2
    <2>5. ASSUME NEW at, Goto(p, at) PROVE at = "save"
      BY <2>4, <2>5, <1>t DEF Goto, TypeOK
    <2>6. ~ Finish(p)
      BY <2>4, <1>t, FinishType
    <2>7. CASE Look(p)
      <3>1. obs'[q] = obs[q] /\ UNCHANGED box
        BY <2>7 DEF Look, boxVars
      <3>2. box = Want(q)
        BY <2>7, <2>5, <2>2 DEF Look
      <3> QED BY <2>3, <3>1, <3>2, Undisturbed
    <2>8. CASE Act(p)
      <3>1. box' = Want(q) /\ obs'[q] = obs[q]
        BY <2>8, <2>6, <2>2 DEF Act
      <3> QED BY <2>3, <3>1, Undisturbed
    <2>9. CASE Compare(p)
      <3>1. Goto(p, Decision(Settings[Used(p)], obs[p]))
        BY <2>9, <2>6 DEF Compare
      <3>2. Decision(Settings[Used(p)], obs[p]) = "save"
        BY <2>5, <3>1
      <3>3. ~ Settings[Used(p)].control
        BY <3>2 DEF Decision
      <3> QED BY <2>2, <2>3, <3>3
    <2>10. CASE ReadStatus(p)
      BY <2>5, <2>10 DEF ReadStatus
    <2>11. CASE ReadAddress(p)
      BY <2>5, <2>11 DEF ReadAddress
    <2>12. CASE WaitAddress(p)
      BY <2>5, <2>6, <2>12 DEF WaitAddress
    <2>13. CASE Save(p)
      BY <2>6, <2>13 DEF Save
    <2> QED
      BY <1>2, <2>7, <2>8, <2>9, <2>10, <2>11, <2>12, <2>13 DEF Reconcile
  <1>3. CASE WorldStep
    <2>1. UNCHANGED <<pc, obs, cache, loaded, box>>
      BY <1>3 DEF WorldStep, Move, ChangeAddress, Chatter, StreamBreaks, EditConfig,
         boxVars, configVars
    <2>2. UNCHANGED box /\ \A p \in Proc : SaveKept(p)
      BY <2>1 DEF SaveKept, Used
    <2> QED BY <1>t, <1>n, <2>2, SaveKeptStep
  <1>4. ASSUME NEW c \in Command, RunCommand(c) PROVE SaveInv'
    <2>1. /\ pc' = [pc EXCEPT ![c] = "status"]
          /\ loaded' = [loaded EXCEPT ![c] = rev] /\ UNCHANGED <<obs, cache, box>>
      BY <1>4 DEF RunCommand, Goto, boxVars, configVars
    <2>2. ASSUME NEW p \in Proc PROVE SaveKept(p)
      BY <2>1, <1>w, <1>t DEF SaveKept, Used, TypeOK, Proc
    <2> QED BY <1>t, <1>n, <2>1, <2>2, SaveKeptStep
  <1>5. ASSUME NEW q \in Proc, Kill(q) PROVE SaveInv'
    <2>1. /\ pc' = [pc EXCEPT ![q] = "down"] /\ UNCHANGED <<loaded, box>>
          /\ \A r \in Proc \ {q} : obs'[r] = obs[r]
          /\ q # Worker => UNCHANGED cache
      BY <1>5, <1>t, KillType DEF Kill, boxVars
    <2>2. ASSUME NEW p \in Proc PROVE SaveKept(p)
      BY <2>1, <1>w, <1>t DEF SaveKept, Used, TypeOK
    <2> QED BY <1>t, <1>n, <2>1, <2>2, SaveKeptStep
  <1> QED
    BY <1>1, <1>2, <1>3, <1>4, <1>5, NextCases DEF Alternatives

LEMMA SavedStep ==
    ASSUME WorkerInv, Next
    PROVE  SavedMeansApplied'
  <1>t. TypeOK /\ CacheInv /\ SaveInv /\ SavedMeansApplied
    BY DEF WorkerInv
  <1>n. alone' => alone
    BY NextCases
  <1>1. CASE UNCHANGED boxVars
    BY <1>t, <1>n, <1>1 DEF SavedMeansApplied, boxVars
  <1>2. ASSUME NEW p \in Proc, Act(p) PROVE SavedMeansApplied'
    BY <1>2 DEF Act, SavedMeansApplied
  <1>3. ASSUME NEW p \in Proc, Save(p) PROVE SavedMeansApplied'
    <2>1. UNCHANGED box
      BY <1>3 DEF Save
    <2>2. CASE UNCHANGED <<saved, savedBy, unsaved>>
      BY <1>1, <2>1, <2>2 DEF boxVars
    <2>3. CASE saved' = obs[p] /\ savedBy' = Used(p)
      <3> SUFFICES ASSUME alone', Settings[savedBy'].control
                   PROVE  box' = ShouldEnable(Settings[savedBy'], saved')
        BY DEF SavedMeansApplied
      <3>1. pc[p] = "save"
        BY <1>3 DEF Save
      <3>2. box = Want(p)
        BY <1>n, <1>t, <2>3, <3>1 DEF SaveInv
      <3> QED BY <2>1, <2>3, <3>2 DEF Want
    <2> QED BY <1>3, <2>2, <2>3 DEF Save
  <1>4. UNCHANGED boxVars \/ (\E p \in Proc : Act(p) \/ Save(p))
    <2>1. LoopStep => UNCHANGED boxVars
      BY <1>t, LoopType DEF unchangedReconcile
    <2>2. WorldStep => UNCHANGED boxVars
      BY DEF WorldStep, Move, ChangeAddress, Chatter, StreamBreaks, EditConfig
    <2>3. (\E c \in Command : RunCommand(c)) => UNCHANGED boxVars
      BY DEF RunCommand
    <2>4. \A p \in Proc : Kill(p) => UNCHANGED boxVars
      BY DEF Kill
    <2>5. \A p \in Proc : Reconcile(p) => Act(p) \/ Save(p) \/ UNCHANGED boxVars
      BY DEF Reconcile, ReadStatus, ReadAddress, Compare, WaitAddress, Look
    <2> QED
      BY <2>1, <2>2, <2>3, <2>4, <2>5, NextCases DEF Alternatives
  <1> QED BY <1>1, <1>2, <1>3, <1>4


-----------------------------------------------------------------------------
(* The cache *)

LEMMA CacheLoopStep ==
    ASSUME TypeOK, CacheInv, LoopStep
    PROVE  CacheInv'
  <1>w. Worker \in DOMAIN pc
    BY DEF TypeOK, Proc
  <1>g. ASSUME NEW at, Goto(Worker, at) PROVE pc'[Worker] = at
    BY <1>w, <1>g DEF Goto
  <1>t. rev \in Nat /\ base \in Nat
    BY WorkerAssumption DEF TypeOK, Version
  <1>c. cache # NoCache => cache.rev \in Nat /\ cache.ver \in Nat
    BY WorkerAssumption DEF TypeOK, Version
  <1>e. rev' = rev
    BY LoopEvents
  <1>0. ASSUME cache' = NoCache, pc'[Worker] \notin Reconciling \cup {"load"}
        PROVE  CacheInv'
    BY <1>0 DEF CacheInv, CacheNotBehind
  <1>1. CASE CheckRequired
    <2>1. pc[Worker] \in {"required", "recheck"} /\ cache' = cache
      BY <1>1 DEF CheckRequired, configVars
    <2>2. pc'[Worker] \in {"open", "down"}
      BY <1>1, <1>g DEF CheckRequired
    <2> QED BY <2>1, <2>2, <1>0 DEF CacheInv, Reconciling
  <1>2. CASE OpenSocket
    <2>1. cache' = NoCache /\ pc'[Worker] = "revision"
      BY <1>2, <1>g DEF OpenSocket
    <2> QED BY <2>1, <1>0 DEF Reconciling
  <1>3. CASE OpenFails
    <2>1. pc[Worker] = "open" /\ cache' = cache /\ pc'[Worker] = "recheck"
      BY <1>3, <1>g DEF OpenFails, configVars
    <2> QED BY <2>1, <1>0 DEF CacheInv, Reconciling
  <1>4. CASE ReadRevision
    <2>0. pc[Worker] = "revision" /\ base' = base
      BY <1>4 DEF ReadRevision
    <2>1. CASE cache' = [ver |-> base, rev |-> rev] /\ Goto(Worker, "status")
      <3>1. /\ cache' # NoCache /\ cache'.ver = base /\ cache'.rev = rev
            /\ pc'[Worker] = "status"
        BY <2>1, <1>g, WorkerAssumption DEF TypeOK
      <3> QED BY <3>1, <2>0, <1>e, <1>t DEF CacheInv, CacheNotBehind
    <2>2. CASE cache # NoCache /\ Goto(Worker, "status") /\ UNCHANGED cache
      <3>1. pc'[Worker] = "status"
        BY <2>2, <1>g
      <3> QED BY <3>1, <2>0, <2>2, <1>e DEF CacheInv, CacheNotBehind
    <2>3. CASE /\ cache # NoCache /\ cache' = [cache EXCEPT !.rev = rev]
               /\ Goto(Worker, "load")
      <3>1. pc'[Worker] = "load"
        BY <2>3, <1>g
      <3>2. cache' # NoCache /\ cache'.rev = rev
        BY <2>3, WorkerAssumption DEF TypeOK
      <3> QED BY <3>1, <3>2, <1>e, <1>t DEF CacheInv, CacheNotBehind
    <2> QED BY <1>4, <2>1, <2>2, <2>3 DEF ReadRevision
  <1>5. CASE LoadConfig
    <2>1. pc[Worker] = "load" /\ base' = base /\ pc'[Worker] = "status"
      BY <1>5, <1>g DEF LoadConfig
    <2>2. cache # NoCache
      BY <2>1 DEF CacheInv
    <2>3. PICK v \in {rev, base} : cache' = [cache EXCEPT !.ver = v]
      BY <1>5 DEF LoadConfig
    <2>4. /\ cache' # NoCache /\ cache'.rev = cache.rev /\ cache'.ver \in {rev, base}
      BY <2>2, <2>3, WorkerAssumption DEF TypeOK
    <2>5. cache.rev <= rev
      BY <2>2 DEF CacheInv
    <2> QED BY <2>1, <2>2, <2>4, <2>5, <1>c, <1>e, <1>t DEF CacheInv, CacheNotBehind
  <1>6. CASE Receive \/ Quiet
    <2>1. pc[Worker] \in {"recv", "quiet"} /\ base' = base
      BY <1>6 DEF Receive, Quiet
    <2>2. CASE StreamEnds
      <3>1. cache' = NoCache /\ pc'[Worker] = "recheck"
        BY <2>2, <1>g DEF StreamEnds
      <3> QED BY <3>1, <1>0 DEF Reconciling
    <2>3. CASE /\ UNCHANGED cache
               /\ Goto(Worker, "quiet") \/ Goto(Worker, "revision") \/ UNCHANGED pc
      <3>1. pc'[Worker] \in {"recv", "quiet", "revision"}
        BY <2>1, <2>3, <1>g
      <3> QED BY <2>1, <2>3, <3>1, <1>e DEF CacheInv, CacheNotBehind, Reconciling
    <2> QED BY <1>6, <2>2, <2>3 DEF Receive, Quiet
  <1>7. CASE SpawnWorker
    <2>1. pc[Worker] = "down" /\ cache' = cache /\ pc'[Worker] = "required"
      BY <1>7, <1>g DEF SpawnWorker
    <2> QED BY <2>1, <1>0 DEF CacheInv, Reconciling
  <1>8. CASE TimePasses
    BY <1>8 DEF TimePasses, CacheInv, CacheNotBehind, configVars
  <1> QED
    BY <1>1, <1>2, <1>3, <1>4, <1>5, <1>6, <1>7, <1>8 DEF LoopStep

LEMMA CacheStep ==
    ASSUME TypeOK, CacheInv, Next
    PROVE  CacheInv'
  <1>w. Worker \in Proc /\ Worker \notin Command /\ Command \subseteq Proc
    BY WorkerAssumption DEF Proc
  <1>k. ASSUME UNCHANGED <<pc[Worker], cache, rev, base>> PROVE CacheInv'
    BY <1>k DEF CacheInv, CacheNotBehind
  <1>1. CASE LoopStep
    BY <1>1, CacheLoopStep
  <1>2. ASSUME NEW p \in Proc, Reconcile(p) PROVE CacheInv'
    <2>1. UNCHANGED <<cache, rev, base>> /\ pc[p] \in Reconciling
      BY <1>2, ReconcileType DEF unchangedWorld, configVars
    <2>2. CASE p # Worker
      <3>1. pc'[Worker] = pc[Worker]
        BY <1>2, <1>w, <2>2, ReconcileType
      <3> QED BY <1>k, <2>1, <3>1
    <2>3. CASE p = Worker
      <3>1. pc'[p] \in Reconciling \cup {"recv"}
        <4>1. pc'[p] \in Reconciling \cup {"recv", "down"}
          BY <1>2, ReconcileType
        <4>2. \E at \in (Reconciling \ {"down"}) \cup {"recv"} : Goto(p, at)
          BY <1>2, <2>3 DEF Reconcile, ReadStatus, ReadAddress, Compare, WaitAddress,
             Look, Act, Save, Finish, Decision, Reconciling
        <4> QED BY <4>1, <4>2 DEF Goto, TypeOK, Reconciling
      <3>2. cache # NoCache
        BY <2>1, <2>3 DEF CacheInv
      <3>3. pc[Worker] # "load"
        BY <2>1, <2>3 DEF Reconciling
      <3> QED BY <2>1, <2>3, <3>1, <3>2, <3>3 DEF CacheInv, CacheNotBehind, Reconciling
    <2> QED BY <2>2, <2>3
  <1>3. CASE WorldStep
    <2>1. UNCHANGED <<pc, cache, base>>
      BY <1>3 DEF WorldStep, Move, ChangeAddress, Chatter, StreamBreaks, EditConfig,
         configVars
    <2>2. rev' = rev \/ rev' = rev + 1
      BY <1>3 DEF WorldStep, Move, ChangeAddress, Chatter, StreamBreaks, EditConfig,
         configVars
    <2>3. cache # NoCache => cache.rev \in Nat /\ rev \in Nat
      BY WorkerAssumption DEF TypeOK, Version
    <2>4. cache' # NoCache => cache'.rev <= rev'
      BY <2>1, <2>2, <2>3 DEF CacheInv
    <2> QED BY <2>1, <2>4 DEF CacheInv, CacheNotBehind
  <1>4. ASSUME NEW c \in Command, RunCommand(c) PROVE CacheInv'
    <2>1. UNCHANGED <<cache, rev, base>>
      BY <1>4 DEF RunCommand, configVars
    <2>2. pc'[Worker] = pc[Worker]
      BY <1>4, <1>w DEF RunCommand, Goto, TypeOK
    <2> QED BY <2>1, <2>2, <1>k
  <1>5. ASSUME NEW p \in Proc, Kill(p) PROVE CacheInv'
    <2>1. UNCHANGED <<rev, base>>
      BY <1>5 DEF Kill
    <2>2. CASE p # Worker
      <3>1. pc'[Worker] = pc[Worker] /\ UNCHANGED cache
        BY <1>5, <1>w, <2>2 DEF Kill, Goto, TypeOK
      <3> QED BY <2>1, <3>1, <1>k
    <2>3. CASE p = Worker
      <3>1. pc'[Worker] = "down" /\ cache' = NoCache
        BY <1>5, <2>3 DEF Kill, Goto, TypeOK
      <3> QED BY <3>1 DEF CacheInv, CacheNotBehind, Reconciling
    <2> QED BY <2>2, <2>3
  <1> QED
    BY <1>1, <1>2, <1>3, <1>4, <1>5, NextCases DEF Alternatives

-----------------------------------------------------------------------------
(* The invariant *)

LEMMA InitInv ==
    ASSUME Init
    PROVE  WorkerInv
  <1>1. TypeOK
    <2>1. 0 \in Version /\ 0 \in 0 .. MaxQueue /\ 0 \in 0 .. MaxCommands
      BY WorkerAssumption DEF Version
    <2>2. pc \in [Proc -> Places]
      BY DEF Init, Places
    <2>3. obs \in [Proc -> Observation] /\ loaded \in [Command -> Version]
      BY <2>1, NoObservationType DEF Init
    <2>4. status \in BOOLEAN
      BY WorkerAssumption DEF Init
    <2> QED BY <2>1, <2>2, <2>3, <2>4 DEF Init, TypeOK
  <1>2. \A p \in Proc : pc[p] = "down"
    BY DEF Init
  <1>3. SaveInv
    BY <1>2 DEF SaveInv, Alone, Reconciling
  <1>4. SavedMeansApplied
    BY DEF Init, SavedMeansApplied
  <1>5. CacheInv
    BY <1>2 DEF Init, CacheInv, CacheNotBehind, Reconciling, Proc
  <1> QED BY <1>1, <1>3, <1>4, <1>5 DEF WorkerInv

LEMMA StutterInv ==
    ASSUME WorkerInv, UNCHANGED vars
    PROVE  WorkerInv'
  <1>1. UNCHANGED <<place, addr, status, stream, chan, late, rev, base, cache, box,
                    saved, savedBy, unsaved, pc, obs, loaded, commands, alone>>
    BY DEF vars, worldVars, eventVars, configVars, boxVars
  <1>2. TypeOK'
    BY <1>1 DEF WorkerInv, TypeOK
  <1>3. SaveInv'
    BY <1>1 DEF WorkerInv, SaveInv, Alone, Want, Used
  <1>4. SavedMeansApplied' /\ CacheInv'
    BY <1>1 DEF WorkerInv, SavedMeansApplied, CacheInv, CacheNotBehind
  <1> QED BY <1>2, <1>3, <1>4 DEF WorkerInv

LEMMA InvStep ==
    ASSUME WorkerInv, [Next]_vars
    PROVE  WorkerInv'
  <1>1. CASE Next
    <2>1. TypeOK' /\ CacheInv'
      BY <1>1, TypeStep, CacheStep DEF WorkerInv
    <2>2. SaveInv' /\ SavedMeansApplied'
      BY <1>1, SaveStep, SavedStep
    <2> QED BY <2>1, <2>2 DEF WorkerInv
  <1> QED BY <1>1, StutterInv

LEMMA AlwaysInv == Spec => []WorkerInv
  <1>1. Init => WorkerInv
    BY InitInv
  <1>2. WorkerInv /\ [Next]_vars => WorkerInv'
    BY InvStep
  <1> QED BY <1>1, <1>2, PTL DEF Spec

\* The state of the worker, the commands and the files keeps its types
\* (run_ip_monitor_once, apply_network_control_policy and what they call).
THEOREM WorkerTypeCorrect == Spec => []TypeOK
  <1>1. WorkerInv => TypeOK
    BY DEF WorkerInv
  <1> QED BY <1>1, AlwaysInv, PTL

\* Whatever the networks, the settings and the failures: the state that the
\* policy saved last tells the truth about the box, so that the worker may
\* leave a network alone that it has saved (wifi_state_matches).
THEOREM SavedCorrect == Spec => []SavedMeansApplied
  <1>1. WorkerInv => SavedMeansApplied
    BY DEF WorkerInv
  <1> QED BY <1>1, AlwaysInv, PTL

\* However edits of the configuration fall between the worker's looks at its
\* revision and its loads: what LiveConfigCache holds, if it is not what the
\* worker was started with, is not behind the revision recorded for it.
THEOREM CacheCorrect == Spec => []CacheNotBehind
  <1>1. WorkerInv => CacheNotBehind
    BY DEF WorkerInv, CacheInv
  <1> QED BY <1>1, AlwaysInv, PTL

=============================================================================
