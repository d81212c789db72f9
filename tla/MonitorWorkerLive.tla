-------------------------- MODULE MonitorWorkerLive --------------------------
(***************************************************************************)
(* What the network monitor's worker brings about: events are acted on, and *)
(* the box ends as the policy wants it.  A worker that looked wrong, or     *)
(* whose command failed, tries again only when the next event comes; a      *)
(* history variable tells whether its last look went well.                  *)
(***************************************************************************)
EXTENDS MonitorWorker

VARIABLE missed     \* history: the address, or a step, missed in the last look

liveVars == <<vars, missed>>

\* The names were told, or wifi status was silent on a device where it answers.
MissedLink ==
    ~ (obs'[Worker] = Link(place) /\ (pc'[Worker] = "guess" <=> ~ status))

MissedAddress == obs'[Worker].ip # Address

\* The box was left alone or the state unsaved, with an error.
MissedStep ==
    \/ pc[Worker] = "act" /\ pc'[Worker] # "save"
    \/ pc[Worker] = "save" /\ saved' # obs[Worker]

Remember ==
    missed' =
      CASE pc'[Worker] = pc[Worker] -> missed
        [] pc'[Worker] # pc[Worker] /\ pc[Worker] = "status" ->
             IF MissedLink THEN {"step"} ELSE {}
        [] /\ pc'[Worker] # pc[Worker]
           /\ pc[Worker] \in {"address", "guess", "wait1", "wait2"} ->
             IF MissedAddress THEN missed \cup {"address"} ELSE missed \ {"address"}
        [] OTHER -> IF MissedStep THEN missed \cup {"step"} ELSE missed

LiveInit == Init /\ missed = {}

LiveNext == Next /\ Remember

\* Processes that run keep running and time passes.  That a socket can be opened
\* at last is the kernel's; a worker that dies is started again by nobody.
Fairness ==
    /\ WF_vars(Next /\ WorkerStep) /\ WF_vars(Next /\ TimePasses)
    /\ SF_vars(Next /\ OpenSocket)
    /\ \A c \in Command : WF_vars(Next /\ Reconcile(c))

LiveSpec == LiveInit /\ [][LiveNext]_liveVars /\ Fairness

-----------------------------------------------------------------------------
(* Properties *)

\* The device stays in a network, with the settings it has, and a worker runs
\* whose last look told the truth and was followed by no failure.
Stays(n) ==
    /\ place = n /\ (n # Off => addr) /\ rev = 0 /\ alone
    /\ pc[Worker] # "down" /\ missed = {}

\* What the worker observes in a network where it stays.
Final(n) ==
    IF n = Off THEN NoObservation
    ELSE LET connected == status => Link(n).connected IN
         [Link(n) EXCEPT !.connected = connected,
                         !.ip = IF connected THEN n ELSE NoIp]

\* After the last change the box is as the policy wants it: no change is lost
\* between looks, in the debounce, or while the stream is opened again, and a
\* tool, a command or a save that failed is made good by the look of the next
\* event.  (Not where a command has touched the box since this very observation
\* was saved: the worker takes the network for handled.)
Converges ==
    \A n \in Place :
        <>[]Stays(n) => <>[](\/ box = ShouldEnable(Settings[0], Final(n))
                             \/ unsaved /\ saved = Final(n)
                             \/ ~ Settings[0].control)

\* However many events come, they are acted on: the debounce has an end.
EventsHandled ==
    pc[Worker] = "recv" /\ chan > 0 ~> pc[Worker] \in {"revision", "down"}

=============================================================================
