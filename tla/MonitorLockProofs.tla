-------------------------- MODULE MonitorLockProofs --------------------------
(***************************************************************************)
(* Proofs about MonitorLock: its type invariant; that only workers who own *)
(* a lock are signalled; that an Ok from a stop is true; and that, while   *)
(* commands are spaced, a running worker can be found.  For any number of  *)
(* commands, workers, inodes and polls.                                    *)
(***************************************************************************)
EXTENDS MonitorLock, TLAPS

Points == {"idle", "read", "match", "wait", "reap", "probe", "drop", "remove",
           "spawn", "ok", "err"}

Command == [call : {"none", "run", "stop"}, at : Points,
            id : Worker \cup {NoWorker}, polls : 0 .. MaxPolls]

\* Worker w holds a lock and its identity is in the file.
Wrote(w) ==
    /\ wk[w] \in {"check", "running", "leaving"}
    /\ fd[w] \in Inode /\ owner[fd[w]] = w /\ text[fd[w]] = w

\* Once a worker can be read from a file it keeps lock and text until it ends.
Known(w) == wk[w] = "gone" \/ Wrote(w)

\* What a worker holds at each point of its life.
Holds(w) ==
    /\ wk[w] \in {"unborn", "spawned", "wanted", "gone"} => fd[w] = NoInode
    /\ wk[w] \in {"opened", "locked", "blank"} => fd[w] \in Inode
    /\ wk[w] \in {"locked", "blank"} => owner[fd[w]] = w
    /\ wk[w] \in {"check", "running"} => Wrote(w)

LockInv == \A w \in Worker : Holds(w)

KnownInv ==
    /\ \A i \in Inode : text[i] # NoWorker => Known(text[i])
    /\ \A c \in Invoker : inv[c].id # NoWorker => Known(inv[c].id)
    /\ \A w \in Worker \cap signalled : Known(w)
    /\ \A c \in Invoker :
         inv[c].call = "stop" /\ inv[c].at \in {"probe", "drop", "remove", "spawn", "ok"}
           => inv[c].id = NoWorker \/ wk[inv[c].id] = "gone"

\* A command that has looked at the lock and found it free.
Found(c) == inv[c].at \in {"probe", "drop", "remove", "spawn"}

\* While commands are spaced one is under way at a time, and one worker lives;
\* it has the file of the path open, or the path names none before it opens it.
\* A command meets no worker on its way up, and reads of the one that lives.
SpacedInv ==
    spaced =>
        /\ \A c, d \in Invoker : inv[c].at # "idle" /\ inv[d].at # "idle" => c = d
        /\ \A v, w \in Worker : Live(v) /\ Live(w) => v = w
        /\ \A w \in Worker : Live(w) => path = fd[w]
        /\ \A c \in Invoker, w \in Worker : Live(w) =>
             /\ inv[c].at \in {"read", "match", "wait", "reap"} => Wrote(w)
             /\ inv[c].at \in {"match", "wait", "reap"} => w = inv[c].id
             /\ ~ Found(c)
             /\ ~ (inv[c].at = "ok" /\ inv[c].call = "stop")
        /\ \A c \in Invoker : inv[c].at = "spawn" =>
             path = NoInode /\ inv[c].call = "run"

LockedInv == TypeOK /\ LockInv /\ KnownInv /\ SpacedInv

-----------------------------------------------------------------------------

LEMMA InvType == TypeOK => inv \in [Invoker -> Command]
  BY DEF TypeOK, Command, Points

LEMMA AtFacts ==
    ASSUME TypeOK, NEW c \in Invoker, NEW point \in Points, At(c, point)
    PROVE  /\ inv' \in [Invoker -> Command]
           /\ inv'[c].at = point /\ inv'[c].call = inv[c].call
           /\ inv'[c].id = inv[c].id /\ inv'[c].polls = inv[c].polls
           /\ \A d \in Invoker : d # c => inv'[d] = inv[d]
  <1>1. inv \in [Invoker -> Command]
    BY InvType
  <1>2. inv' = [inv EXCEPT ![c] = [inv[c] EXCEPT !.at = point]]
    BY DEF At
  <1>3. [inv[c] EXCEPT !.at = point] \in Command
    BY <1>1 DEF Command
  <1>4. inv'[c] = [inv[c] EXCEPT !.at = point]
    BY <1>1, <1>2
  <1> QED
    BY <1>1, <1>2, <1>3, <1>4 DEF Command

LEMMA IdleType == /\ IdleInvoker \in Command /\ IdleInvoker.at = "idle"
                  /\ IdleInvoker.id = NoWorker /\ IdleInvoker.call = "none"
  BY ConstAssumption DEF IdleInvoker, Command, Points

\* Only the locks that no worker holds change hands.
KeepsLocks ==
    /\ UNCHANGED <<text, wk, fd, session>>
    /\ owner' \in [Inode -> Worker \cup Invoker \cup {Nobody}]
    /\ \A i \in Inode : owner[i] \in Worker => owner'[i] = owner[i]

\* What a command does leaves each worker's lock and text alone.
LEMMA WorkersStay ==
    ASSUME LockInv, KeepsLocks
    PROVE  /\ LockInv'
           /\ wk' = wk /\ fd' = fd /\ text' = text
           /\ \A w \in Worker : Wrote(w) => Wrote(w)'
           /\ \A w \in Worker : Known(w) => Known(w)'
  <1>0. text' = text /\ wk' = wk /\ fd' = fd
    BY DEF KeepsLocks
  <1>1. ASSUME NEW w \in Worker, Wrote(w) PROVE Wrote(w)'
    <2>1. owner'[fd[w]] = w
      BY <1>1 DEF Wrote, KeepsLocks
    <2> QED
      BY <1>0, <1>1, <2>1 DEF Wrote
  <1>2. \A w \in Worker : Known(w) => Known(w)'
    BY <1>0, <1>1 DEF Known
  <1>3. LockInv'
    <2>1. ASSUME NEW w \in Worker
          PROVE  Holds(w)'
      <3>1. wk[w] \in {"locked", "blank"} => owner'[fd[w]] = w
        BY DEF LockInv, Holds, KeepsLocks
      <3> QED
        BY <1>0, <1>1, <3>1 DEF LockInv, Holds
    <2> QED
      BY <2>1 DEF LockInv
  <1> QED
    BY <1>0, <1>1, <1>2, <1>3

\* A step of command c, whatever becomes of its place: what must be shown.
LEMMA CommandKnown ==
    ASSUME TypeOK, LockInv, KnownInv, KeepsLocks, NEW c \in Invoker,
           \A d \in Invoker : d # c => inv'[d] = inv[d],
           inv'[c].id # NoWorker => Known(inv'[c].id),
           \A w \in Worker \cap signalled' : Known(w),
           inv' \in [Invoker -> Command],
           inv'[c].call = "stop" /\ inv'[c].at \in {"probe", "drop", "remove", "spawn", "ok"}
             => inv'[c].id = NoWorker \/ wk[inv'[c].id] = "gone"
    PROVE  KnownInv'
  <1>1. \A w \in Worker : Known(w) => Known(w)'
    BY WorkersStay
  <1>2. text \in [Inode -> Worker \cup {NoWorker}] /\ text' = text /\ wk' = wk
    BY DEF TypeOK, KeepsLocks
  <1>3. (\A i \in Inode : text[i] # NoWorker => Known(text[i]))'
    <2>1. ASSUME NEW i \in Inode, text[i] # NoWorker PROVE Known(text[i])'
      <3>1. text[i] \in Worker /\ Known(text[i])
        BY <1>2, <2>1 DEF KnownInv
      <3>2. PICK w \in Worker : w = text[i]
        BY <3>1
      <3>3. Known(w)'
        BY <1>1, <3>1, <3>2
      <3> QED
        BY <1>2, <3>2, <3>3
    <2> QED
      BY <1>2, <2>1
  <1>4. ASSUME NEW d \in Invoker, inv'[d].id # NoWorker PROVE Known(inv[d].id)'
    <2>1. inv'[d] \in Command /\ inv'[d].id \in Worker
      BY <1>4 DEF Command
    <2>2. Known(inv'[d].id)
      <3>1. CASE d = c
        BY <1>4, <3>1
      <3>2. CASE d # c
        BY <1>4, <3>2 DEF KnownInv
      <3> QED
        BY <3>1, <3>2
    <2>3. PICK w \in Worker : w = inv'[d].id
      BY <2>1
    <2>4. Known(w)'
      BY <1>1, <2>2, <2>3
    <2> QED
      BY <2>3, <2>4
  <1>5. (\A w \in Worker \cap signalled : Known(w))'
    BY <1>1
  <1>6. ASSUME NEW d \in Invoker, inv'[d].call = "stop",
               inv'[d].at \in {"probe", "drop", "remove", "spawn", "ok"}
        PROVE  inv'[d].id = NoWorker \/ wk'[inv'[d].id] = "gone"
    <2>1. CASE d = c
      BY <1>2, <1>6, <2>1
    <2>2. CASE d # c
      BY <1>2, <1>6, <2>2 DEF KnownInv
    <2> QED
      BY <2>1, <2>2
  <1> QED
    BY <1>3, <1>4, <1>5, <1>6 DEF KnownInv

-----------------------------------------------------------------------------
(* Commands *)

\* Between read and spawn, while commands are spaced, c is the only one.
LEMMA OnlyCommand ==
    ASSUME TypeOK, SpacedInv, spaced, NEW c \in Invoker, inv[c].at # "idle"
    PROVE  \A d \in Invoker : d # c => inv[d].at = "idle"
  BY DEF SpacedInv

\* The last conjuncts of SpacedInv for a step of the one command.
LEMMA CommandSpaced ==
    ASSUME TypeOK, LockInv, SpacedInv, KeepsLocks, UNCHANGED <<spaced, path>>,
           NEW c \in Invoker, inv[c].at # "idle",
           \A d \in Invoker : d # c => inv'[d] = inv[d],
           spaced => \A w \in Worker : Live(w) =>
              /\ inv'[c].at \in {"read", "match", "wait", "reap"} => Wrote(w)
              /\ inv'[c].at \in {"match", "wait", "reap"} => w = inv'[c].id
              /\ inv'[c].at \notin {"probe", "drop", "remove", "spawn"}
              /\ ~ (inv'[c].at = "ok" /\ inv'[c].call = "stop"),
           inv'[c].at # "spawn"
    PROVE  SpacedInv'
  <1> SUFFICES ASSUME spaced PROVE SpacedInv'
    BY DEF SpacedInv
  <1>1. \A d \in Invoker : d # c => inv'[d].at = "idle"
    BY OnlyCommand
  <1>2. /\ wk' = wk /\ fd' = fd
        /\ \A w \in Worker : Wrote(w) => Wrote(w)'
    BY WorkersStay
  <1>3. (\A d, e \in Invoker : inv[d].at # "idle" /\ inv[e].at # "idle" => d = e)'
    BY <1>1
  <1>4. (\A v, w \in Worker : Live(v) /\ Live(w) => v = w)'
    BY <1>2 DEF SpacedInv, Live
  <1>5. (\A w \in Worker : Live(w) => path = fd[w])'
    BY <1>2 DEF SpacedInv, Live
  <1>6. (\A d \in Invoker, w \in Worker : Live(w) =>
             /\ inv[d].at \in {"read", "match", "wait", "reap"} => Wrote(w)
             /\ inv[d].at \in {"match", "wait", "reap"} => w = inv[d].id
             /\ ~ Found(d)
             /\ ~ (inv[d].at = "ok" /\ inv[d].call = "stop"))'
    BY <1>1, <1>2 DEF Found, Live
  <1>7. (\A d \in Invoker : inv[d].at = "spawn" => path = NoInode /\ inv[d].call = "run")'
    BY <1>1
  <1> QED
    BY <1>3, <1>4, <1>5, <1>6, <1>7 DEF SpacedInv

\* A step of a command that touches neither the path nor a worker.
LEMMA CommandMoves ==
    ASSUME LockedInv, KeepsLocks, UNCHANGED <<spaced, path, required>>,
           NEW c \in Invoker, inv[c].at # "idle",
           inv' \in [Invoker -> Command],
           \A d \in Invoker : d # c => inv'[d] = inv[d],
           inv'[c].id # NoWorker => Known(inv'[c].id),
           signalled' \subseteq Worker \cup {Core},
           killed' \subseteq Worker \cup {Core},
           \A w \in Worker \cap signalled' : Known(w),
           inv'[c].call = "stop" /\ inv'[c].at \in {"probe", "drop", "remove", "spawn", "ok"}
             => inv'[c].id = NoWorker \/ wk[inv'[c].id] = "gone",
           spaced => \A w \in Worker : Live(w) =>
              /\ inv'[c].at \in {"read", "match", "wait", "reap"} => Wrote(w)
              /\ inv'[c].at \in {"match", "wait", "reap"} => w = inv'[c].id
              /\ inv'[c].at \notin {"probe", "drop", "remove", "spawn"}
              /\ ~ (inv'[c].at = "ok" /\ inv'[c].call = "stop"),
           inv'[c].at # "spawn"
    PROVE  LockedInv'
  <1>1. TypeOK /\ LockInv /\ KnownInv /\ SpacedInv
    BY DEF LockedInv
  <1>2. TypeOK'
    BY <1>1 DEF TypeOK, KeepsLocks, Command, Points
  <1>3. KnownInv'
    BY <1>1, CommandKnown
  <1>4. SpacedInv'
    BY <1>1, CommandSpaced
  <1>5. LockInv'
    BY <1>1, WorkersStay
  <1> QED
    BY <1>2, <1>3, <1>4, <1>5 DEF LockedInv

\* The same, where the command only moves on with the identity it has read,
\* and signals nobody.
LEMMA CommandGoesOn ==
    ASSUME LockedInv, KeepsLocks, UNCHANGED <<signalVars, spaced, path, required>>,
           NEW c \in Invoker, inv[c].at # "idle",
           inv' \in [Invoker -> Command],
           \A d \in Invoker : d # c => inv'[d] = inv[d],
           inv'[c].id = inv[c].id,
           inv'[c].call = "stop" /\ inv'[c].at \in {"probe", "drop", "remove", "spawn", "ok"}
             => inv[c].id = NoWorker \/ wk[inv[c].id] = "gone",
           spaced => \A w \in Worker : Live(w) =>
              /\ inv'[c].at \in {"read", "match", "wait", "reap"} => Wrote(w)
              /\ inv'[c].at \in {"match", "wait", "reap"} => w = inv[c].id
              /\ inv'[c].at \notin {"probe", "drop", "remove", "spawn"}
              /\ ~ (inv'[c].at = "ok" /\ inv'[c].call = "stop"),
           inv'[c].at # "spawn"
    PROVE  LockedInv'
  <1>0. UNCHANGED <<spaced, path, required>>
    OBVIOUS
  <1>1. signalled' = signalled /\ killed' = killed
    BY DEF signalVars
  <1>2. TypeOK /\ KnownInv
    BY DEF LockedInv
  <1>3. /\ signalled' \subseteq Worker \cup {Core}
        /\ killed' \subseteq Worker \cup {Core}
        /\ \A w \in Worker \cap signalled' : Known(w)
    BY <1>1, <1>2 DEF TypeOK, KnownInv
  <1>4. inv'[c].id # NoWorker => Known(inv'[c].id)
    BY <1>2 DEF KnownInv
  <1> QED
    BY <1>0, <1>3, <1>4, CommandMoves

\* A command that leaves every lock as it is, or takes or drops one of its own.
LEMMA NoLockMoves ==
    ASSUME TypeOK, UNCHANGED <<text, owner, wk, fd, session>>
    PROVE  KeepsLocks
  BY DEF TypeOK, KeepsLocks

LEMMA ReleaseMoves ==
    ASSUME TypeOK, NEW c \in Invoker, owner' = Released(c),
           UNCHANGED <<text, wk, fd, session>>
    PROVE  KeepsLocks
  BY ConstAssumption DEF TypeOK, KeepsLocks, Released

\* A worker that is verified was known when its identity was read.
LEMMA VerifiedWrote ==
    ASSUME TypeOK, KnownInv, NEW c \in Invoker, Verified(inv[c].id)
    PROVE  inv[c].id \in Worker /\ Wrote(inv[c].id)
  <1>1. inv[c].id \in Worker
    BY InvType DEF Verified, Command
  <1> QED
    BY <1>1 DEF Verified, KnownInv, Known, Live

LEMMA UnverifiedGone ==
    ASSUME TypeOK, KnownInv, NEW c \in Invoker, ~ Verified(inv[c].id)
    PROVE  inv[c].id = NoWorker \/ wk[inv[c].id] = "gone"
  BY DEF Verified, KnownInv, Known, Live, Wrote

\* While commands are spaced a command that finds its worker gone finds none.
LEMMA NoneLives ==
    ASSUME TypeOK, SpacedInv, spaced, NEW c \in Invoker,
           \/ inv[c].at \in {"match", "wait", "reap"} /\ ~ Verified(inv[c].id)
           \/ Found(c)
    PROVE  \A w \in Worker : ~ Live(w)
  <1> SUFFICES ASSUME NEW w \in Worker, Live(w) PROVE FALSE
    OBVIOUS
  <1>1. CASE inv[c].at \in {"match", "wait", "reap"} /\ ~ Verified(inv[c].id)
    <2>1. w = inv[c].id
      BY <1>1 DEF SpacedInv
    <2>2. w # NoWorker
      BY ConstAssumption
    <2> QED
      BY <1>1, <2>1, <2>2 DEF Verified
  <1>2. CASE Found(c)
    BY <1>2 DEF SpacedInv
  <1> QED
    BY <1>1, <1>2

LEMMA ReadKeeps ==
    ASSUME LockedInv, NEW c \in Invoker, ReadIdentity(c)
    PROVE  LockedInv'
  <1>1. TypeOK /\ LockInv /\ KnownInv /\ SpacedInv
    BY DEF LockedInv
  <1>2. /\ inv[c].at = "read"
        /\ UNCHANGED <<path, text, owner, wk, fd, session, signalled, killed,
                       required, spaced>>
    BY DEF ReadIdentity, lockVars, workerVars, signalVars, worldVars
  <1> DEFINE read == IF path = NoInode THEN NoWorker ELSE text[path]
  <1>3. read \in Worker \cup {NoWorker} /\ (read # NoWorker => Known(read))
    BY <1>1 DEF TypeOK, KnownInv
  <1>4. inv \in [Invoker -> Command]
    BY <1>1, InvType
  <1>5. inv' = [inv EXCEPT ![c] = [inv[c] EXCEPT !.at = "match", !.id = read]]
    BY <1>4 DEF ReadIdentity, Command
  <1>6. [inv[c] EXCEPT !.at = "match", !.id = read] \in Command
    BY <1>3, <1>4 DEF Command, Points
  <1> HIDE DEF read
  <1>7. /\ inv' \in [Invoker -> Command]
        /\ \A d \in Invoker : d # c => inv'[d] = inv[d]
        /\ inv'[c].at = "match" /\ inv'[c].id = read
    BY <1>4, <1>5, <1>6 DEF Command
  <1>8. ASSUME spaced, NEW w \in Worker, Live(w) PROVE Wrote(w) /\ w = read
    <2>1. Wrote(w) /\ path = fd[w]
      BY <1>1, <1>2, <1>8 DEF SpacedInv
    <2>2. path # NoInode /\ text[path] = w
      BY <2>1, ConstAssumption DEF Wrote
    <2> QED
      BY <2>1, <2>2 DEF read
  <1>9. KeepsLocks
    BY <1>1, <1>2, NoLockMoves
  <1>10. /\ signalled' \subseteq Worker \cup {Core}
         /\ killed' \subseteq Worker \cup {Core}
         /\ \A w \in Worker \cap signalled' : Known(w)
    BY <1>1, <1>2 DEF TypeOK, KnownInv
  <1>11. UNCHANGED <<spaced, path, required>> /\ inv[c].at # "idle"
    BY <1>2
  <1>12. inv'[c].id # NoWorker => Known(inv'[c].id)
    BY <1>3, <1>7
  <1>13. /\ inv'[c].at \notin {"probe", "drop", "remove", "spawn", "ok"}
         /\ spaced => \A w \in Worker : Live(w) => Wrote(w) /\ w = inv'[c].id
    BY <1>7, <1>8
  <1> QED
    BY <1>7, <1>9, <1>10, <1>11, <1>12, <1>13, CommandMoves

\* A command that sends the signals of `signal_monitor_process_group`.
LEMMA SignalKnown ==
    ASSUME TypeOK, KnownInv, NEW c \in Invoker, Verified(inv[c].id),
           Signal(inv[c].id)
    PROVE  /\ signalled' \subseteq Worker \cup {Core}
           /\ \A w \in Worker \cap signalled' : Known(w)
  <1>1. inv[c].id \in Worker /\ Wrote(inv[c].id)
    BY VerifiedWrote
  <1>2. Core \notin Worker
    BY ConstAssumption
  <1> QED
    BY <1>1, <1>2 DEF Signal, TypeOK, KnownInv, Known

LEMMA MatchKeeps ==
    ASSUME LockedInv, NEW c \in Invoker, MatchIdentity(c)
    PROVE  LockedInv'
  <1>1. TypeOK /\ LockInv /\ KnownInv /\ SpacedInv
    BY DEF LockedInv
  <1>2. /\ inv[c].at = "match"
        /\ UNCHANGED <<path, text, owner, wk, fd, session, required, spaced>>
    BY DEF MatchIdentity, lockVars, workerVars, worldVars
  <1>3. KeepsLocks
    BY <1>1, <1>2, NoLockMoves
  <1>4. UNCHANGED <<spaced, path, required>> /\ inv[c].at # "idle"
    BY <1>2
  <1>5. CASE ~ Verified(inv[c].id) /\ At(c, "probe") /\ UNCHANGED signalVars
    <2>1. /\ inv' \in [Invoker -> Command]
          /\ \A d \in Invoker : d # c => inv'[d] = inv[d]
          /\ inv'[c].at = "probe" /\ inv'[c].id = inv[c].id
      BY <1>1, <1>5, AtFacts DEF Points
    <2>2. inv[c].id = NoWorker \/ wk[inv[c].id] = "gone"
      BY <1>1, <1>5, UnverifiedGone
    <2>3. spaced => \A w \in Worker : ~ Live(w)
      BY <1>1, <1>2, <1>5, NoneLives
    <2> QED
      BY <1>3, <1>4, <1>5, <2>1, <2>2, <2>3, CommandGoesOn
  <1>6. CASE Verified(inv[c].id) /\ inv[c].call = "run" /\ At(c, "ok")
             /\ UNCHANGED signalVars
    <2>1. /\ inv' \in [Invoker -> Command]
          /\ \A d \in Invoker : d # c => inv'[d] = inv[d]
          /\ inv'[c].at = "ok" /\ inv'[c].call = "run" /\ inv'[c].id = inv[c].id
      BY <1>1, <1>6, AtFacts DEF Points
    <2> QED
      BY <1>3, <1>4, <1>6, <2>1, CommandGoesOn
  <1>7. CASE Verified(inv[c].id) /\ Signal(inv[c].id) /\ At(c, "wait")
             /\ UNCHANGED killed
    <2>1. /\ inv' \in [Invoker -> Command]
          /\ \A d \in Invoker : d # c => inv'[d] = inv[d]
          /\ inv'[c].at = "wait" /\ inv'[c].id = inv[c].id
      BY <1>1, <1>7, AtFacts DEF Points
    <2>2. /\ signalled' \subseteq Worker \cup {Core}
          /\ \A w \in Worker \cap signalled' : Known(w)
      BY <1>1, <1>7, SignalKnown
    <2>3. killed' \subseteq Worker \cup {Core}
      BY <1>1, <1>7 DEF TypeOK
    <2>4. inv'[c].id # NoWorker => Known(inv'[c].id)
      BY <1>1, <2>1 DEF KnownInv
    <2>5. spaced => \A w \in Worker : Live(w) => Wrote(w) /\ w = inv'[c].id
      BY <1>1, <1>2, <2>1 DEF SpacedInv
    <2> QED
      BY <1>3, <1>4, <2>1, <2>2, <2>3, <2>4, <2>5, CommandMoves
  <1> QED
    BY <1>5, <1>6, <1>7 DEF MatchIdentity

\* Counting a poll changes nothing else.
LEMMA PollFacts ==
    ASSUME TypeOK, NEW c \in Invoker, MorePolls(c),
           inv' = [inv EXCEPT ![c].polls = @ + 1]
    PROVE  /\ inv' \in [Invoker -> Command]
           /\ inv'[c].at = inv[c].at /\ inv'[c].call = inv[c].call
           /\ inv'[c].id = inv[c].id
           /\ \A d \in Invoker : d # c => inv'[d] = inv[d]
  <1>1. inv \in [Invoker -> Command]
    BY InvType
  <1>2. inv[c].polls \in 0 .. MaxPolls /\ inv[c].polls < MaxPolls
    BY <1>1 DEF Command, MorePolls
  <1>3. inv[c].polls + 1 \in 0 .. MaxPolls
    BY <1>2, ConstAssumption
  <1>4. inv' = [inv EXCEPT ![c] = [inv[c] EXCEPT !.polls = inv[c].polls + 1]]
    OBVIOUS
  <1>5. [inv[c] EXCEPT !.polls = inv[c].polls + 1] \in Command
    BY <1>1, <1>3 DEF Command
  <1> QED
    BY <1>1, <1>4, <1>5 DEF Command

LEMMA WaitKeeps ==
    ASSUME LockedInv, NEW c \in Invoker, WaitForWorker(c)
    PROVE  LockedInv'
  <1>1. TypeOK /\ LockInv /\ KnownInv /\ SpacedInv
    BY DEF LockedInv
  <1>2. /\ inv[c].at = "wait"
        /\ UNCHANGED <<path, text, owner, wk, fd, session, required, spaced>>
    BY DEF WaitForWorker, lockVars, workerVars, worldVars
  <1>3. KeepsLocks
    BY <1>1, <1>2, NoLockMoves
  <1>4. UNCHANGED <<spaced, path, required>> /\ inv[c].at # "idle"
    BY <1>2
  <1>w. spaced => \A w \in Worker : Live(w) => Wrote(w) /\ w = inv[c].id
    BY <1>1, <1>2 DEF SpacedInv
  <1>5. CASE ~ StillThere(c) /\ At(c, "probe") /\ UNCHANGED signalVars
    <2>1. /\ inv' \in [Invoker -> Command]
          /\ \A d \in Invoker : d # c => inv'[d] = inv[d]
          /\ inv'[c].at = "probe" /\ inv'[c].id = inv[c].id
      BY <1>1, <1>5, AtFacts DEF Points
    <2>2. inv[c].id = NoWorker \/ wk[inv[c].id] = "gone"
      BY <1>1, <1>5, UnverifiedGone DEF StillThere
    <2>3. spaced => \A w \in Worker : ~ Live(w)
      BY <1>1, <1>2, <1>5, NoneLives DEF StillThere
    <2> QED
      BY <1>3, <1>4, <1>5, <2>1, <2>2, <2>3, CommandGoesOn
  <1>6. CASE MorePolls(c) /\ inv' = [inv EXCEPT ![c].polls = @ + 1]
             /\ UNCHANGED signalVars
    <2>1. /\ inv' \in [Invoker -> Command]
          /\ \A d \in Invoker : d # c => inv'[d] = inv[d]
          /\ inv'[c].at = "wait" /\ inv'[c].id = inv[c].id
      BY <1>1, <1>2, <1>6, PollFacts
    <2> QED
      BY <1>3, <1>4, <1>w, <1>6, <2>1, CommandGoesOn
  <1>7. CASE At(c, "err") /\ UNCHANGED signalVars
    <2>1. /\ inv' \in [Invoker -> Command]
          /\ \A d \in Invoker : d # c => inv'[d] = inv[d]
          /\ inv'[c].at = "err" /\ inv'[c].id = inv[c].id
      BY <1>1, <1>7, AtFacts DEF Points
    <2> QED
      BY <1>3, <1>4, <1>7, <2>1, CommandGoesOn
  <1>8. CASE /\ StillThere(c) /\ Signal(inv[c].id)
             /\ killed' = killed \cup {inv[c].id}
             /\ inv' = [inv EXCEPT ![c].at = "reap", ![c].polls = 0]
    <2>1. inv \in [Invoker -> Command]
      BY <1>1, InvType
    <2>2. inv' = [inv EXCEPT ![c] = [inv[c] EXCEPT !.at = "reap", !.polls = 0]]
      BY <1>8, <2>1 DEF Command
    <2>3. [inv[c] EXCEPT !.at = "reap", !.polls = 0] \in Command
      <3>1. 0 \in 0 .. MaxPolls
        BY ConstAssumption
      <3> QED
        BY <2>1, <3>1 DEF Command, Points
    <2>4. /\ inv' \in [Invoker -> Command]
          /\ \A d \in Invoker : d # c => inv'[d] = inv[d]
          /\ inv'[c].at = "reap" /\ inv'[c].id = inv[c].id
      BY <2>1, <2>2, <2>3 DEF Command
    <2>5. /\ signalled' \subseteq Worker \cup {Core}
          /\ \A w \in Worker \cap signalled' : Known(w)
      BY <1>1, <1>8, SignalKnown DEF StillThere
    <2>6. inv[c].id \in Worker
      BY <1>1, <1>8, VerifiedWrote DEF StillThere
    <2>7. killed' \subseteq Worker \cup {Core}
      BY <1>1, <1>8, <2>6 DEF TypeOK
    <2>8. inv'[c].id # NoWorker => Known(inv'[c].id)
      BY <1>1, <2>4 DEF KnownInv
    <2>9. spaced => \A w \in Worker : Live(w) => Wrote(w) /\ w = inv'[c].id
      BY <1>w, <2>4
    <2> QED
      BY <1>3, <1>4, <2>4, <2>5, <2>7, <2>8, <2>9, CommandMoves
  <1> QED
    BY <1>5, <1>6, <1>7, <1>8 DEF WaitForWorker

LEMMA ReapKeeps ==
    ASSUME LockedInv, NEW c \in Invoker, ReapWorker(c)
    PROVE  LockedInv'
  <1>1. TypeOK /\ LockInv /\ KnownInv /\ SpacedInv
    BY DEF LockedInv
  <1>2. /\ inv[c].at = "reap"
        /\ UNCHANGED <<path, text, owner, wk, fd, session, required, spaced>>
        /\ UNCHANGED signalVars
    BY DEF ReapWorker, lockVars, workerVars, worldVars
  <1>3. KeepsLocks
    BY <1>1, <1>2, NoLockMoves
  <1>4. UNCHANGED <<signalVars, spaced, path, required>> /\ inv[c].at # "idle"
    BY <1>2
  <1>w. spaced => \A w \in Worker : Live(w) => Wrote(w) /\ w = inv[c].id
    BY <1>1, <1>2 DEF SpacedInv
  <1>5. CASE ~ StillThere(c) /\ At(c, "probe")
    <2>1. /\ inv' \in [Invoker -> Command]
          /\ \A d \in Invoker : d # c => inv'[d] = inv[d]
          /\ inv'[c].at = "probe" /\ inv'[c].id = inv[c].id
      BY <1>1, <1>5, AtFacts DEF Points
    <2>2. inv[c].id = NoWorker \/ wk[inv[c].id] = "gone"
      BY <1>1, <1>5, UnverifiedGone DEF StillThere
    <2>3. spaced => \A w \in Worker : ~ Live(w)
      BY <1>1, <1>2, <1>5, NoneLives DEF StillThere
    <2> QED
      BY <1>3, <1>4, <2>1, <2>2, <2>3, CommandGoesOn
  <1>6. CASE MorePolls(c) /\ inv' = [inv EXCEPT ![c].polls = @ + 1]
    <2>1. /\ inv' \in [Invoker -> Command]
          /\ \A d \in Invoker : d # c => inv'[d] = inv[d]
          /\ inv'[c].at = "reap" /\ inv'[c].id = inv[c].id
      BY <1>1, <1>2, <1>6, PollFacts
    <2> QED
      BY <1>3, <1>4, <1>w, <2>1, CommandGoesOn
  <1>7. CASE At(c, "err")
    <2>1. /\ inv' \in [Invoker -> Command]
          /\ \A d \in Invoker : d # c => inv'[d] = inv[d]
          /\ inv'[c].at = "err" /\ inv'[c].id = inv[c].id
      BY <1>1, <1>7, AtFacts DEF Points
    <2> QED
      BY <1>3, <1>4, <2>1, CommandGoesOn
  <1> QED
    BY <1>5, <1>6, <1>7 DEF ReapWorker

LEMMA ProbeKeeps ==
    ASSUME LockedInv, NEW c \in Invoker, ProbeLock(c)
    PROVE  LockedInv'
  <1>1. TypeOK /\ LockInv /\ KnownInv /\ SpacedInv
    BY DEF LockedInv
  <1>2. /\ inv[c].at = "probe"
        /\ UNCHANGED <<path, text, wk, fd, session, required, spaced>>
        /\ UNCHANGED signalVars
    BY DEF ProbeLock, workerVars, worldVars
  <1>3. UNCHANGED <<signalVars, spaced, path, required>> /\ inv[c].at # "idle"
    BY <1>2
  <1>4. /\ inv[c].call = "stop" => inv[c].id = NoWorker \/ wk[inv[c].id] = "gone"
        /\ spaced => \A w \in Worker : ~ Live(w)
    BY <1>1, <1>2, NoneLives DEF KnownInv, Found
  <1>5. CASE path = NoInode /\ At(c, "remove") /\ UNCHANGED owner
    <2>1. /\ inv' \in [Invoker -> Command]
          /\ \A d \in Invoker : d # c => inv'[d] = inv[d]
          /\ inv'[c].at = "remove" /\ inv'[c].id = inv[c].id
          /\ inv'[c].call = inv[c].call
      BY <1>1, <1>5, AtFacts DEF Points
    <2>2. KeepsLocks
      BY <1>1, <1>2, <1>5, NoLockMoves
    <2> QED
      BY <1>3, <1>4, <2>1, <2>2, CommandGoesOn
  <1>6. CASE /\ At(c, IF inv[c].call = "run" THEN "ok" ELSE "err")
             /\ UNCHANGED owner
    <2> DEFINE answer == IF inv[c].call = "run" THEN "ok" ELSE "err"
    <2>1. answer \in Points /\ (answer = "ok" => inv[c].call = "run")
          /\ answer \in {"ok", "err"} /\ At(c, answer)
      BY <1>6 DEF Points
    <2> HIDE DEF answer
    <2>2. /\ inv' \in [Invoker -> Command]
          /\ \A d \in Invoker : d # c => inv'[d] = inv[d]
          /\ inv'[c].at = answer /\ inv'[c].id = inv[c].id
          /\ inv'[c].call = inv[c].call
      BY <1>1, <2>1, AtFacts
    <2>3. KeepsLocks
      BY <1>1, <1>2, <1>6, NoLockMoves
    <2> QED
      BY <1>3, <1>4, <2>1, <2>2, <2>3, CommandGoesOn
  <1>7. CASE /\ path # NoInode /\ ~ LockHeld
             /\ owner' = [owner EXCEPT ![path] = c] /\ At(c, "drop")
    <2>1. /\ inv' \in [Invoker -> Command]
          /\ \A d \in Invoker : d # c => inv'[d] = inv[d]
          /\ inv'[c].at = "drop" /\ inv'[c].id = inv[c].id
          /\ inv'[c].call = inv[c].call
      BY <1>1, <1>7, AtFacts DEF Points
    <2>2. KeepsLocks
      BY <1>1, <1>2, <1>7, ConstAssumption DEF KeepsLocks, TypeOK, LockHeld
    <2> QED
      BY <1>3, <1>4, <2>1, <2>2, CommandGoesOn
  <1> QED
    BY <1>5, <1>6, <1>7 DEF ProbeLock

LEMMA CloseKeeps ==
    ASSUME LockedInv, NEW c \in Invoker, CloseProbe(c)
    PROVE  LockedInv'
  <1>1. TypeOK /\ LockInv /\ KnownInv /\ SpacedInv
    BY DEF LockedInv
  <1>2. /\ inv[c].at = "drop" /\ owner' = Released(c) /\ At(c, "remove")
        /\ UNCHANGED <<path, text, wk, fd, session, required, spaced>>
        /\ UNCHANGED signalVars
    BY DEF CloseProbe, workerVars, worldVars
  <1>3. UNCHANGED <<signalVars, spaced, path, required>> /\ inv[c].at # "idle"
    BY <1>2
  <1>4. /\ inv[c].call = "stop" => inv[c].id = NoWorker \/ wk[inv[c].id] = "gone"
        /\ spaced => \A w \in Worker : ~ Live(w)
    BY <1>1, <1>2, NoneLives DEF KnownInv, Found
  <1>5. /\ inv' \in [Invoker -> Command]
        /\ \A d \in Invoker : d # c => inv'[d] = inv[d]
        /\ inv'[c].at = "remove" /\ inv'[c].id = inv[c].id
        /\ inv'[c].call = inv[c].call
    BY <1>1, <1>2, AtFacts DEF Points
  <1>6. KeepsLocks
    BY <1>1, <1>2, ReleaseMoves
  <1> QED
    BY <1>3, <1>4, <1>5, <1>6, CommandGoesOn

\* The path names no file any more, and no worker lives that could miss it.
LEMMA RemoveKeeps ==
    ASSUME LockedInv, NEW c \in Invoker, RemoveLockFile(c)
    PROVE  LockedInv'
  <1>1. TypeOK /\ LockInv /\ KnownInv /\ SpacedInv
    BY DEF LockedInv
  <1>2. /\ inv[c].at = "remove" /\ path' = NoInode
        /\ UNCHANGED <<text, owner, wk, fd, session, signalled, killed, required,
                       spaced>>
    BY DEF RemoveLockFile, workerVars, signalVars, worldVars
  <1> DEFINE next == IF inv[c].call = "run" THEN "spawn" ELSE "ok"
  <1>3. /\ next \in {"spawn", "ok"} /\ next \in Points /\ At(c, next)
        /\ next = "spawn" <=> inv[c].call = "run"
    BY DEF RemoveLockFile, Points
  <1> HIDE DEF next
  <1>4. /\ inv' \in [Invoker -> Command]
        /\ \A d \in Invoker : d # c => inv'[d] = inv[d]
        /\ inv'[c].at = next /\ inv'[c].id = inv[c].id
        /\ inv'[c].call = inv[c].call
    BY <1>1, <1>3, AtFacts
  <1>5. KeepsLocks
    BY <1>1, <1>2, NoLockMoves
  <1>6. LockInv'
    BY <1>1, <1>5, WorkersStay
  <1>7. inv[c].call = "stop" => inv[c].id = NoWorker \/ wk[inv[c].id] = "gone"
    BY <1>1, <1>2 DEF KnownInv
  <1>8. KnownInv'
    <2>1. inv'[c].id # NoWorker => Known(inv'[c].id)
      BY <1>1, <1>4 DEF KnownInv
    <2>2. \A w \in Worker \cap signalled' : Known(w)
      BY <1>1, <1>2 DEF KnownInv
    <2> QED
      BY <1>1, <1>4, <1>5, <1>7, <2>1, <2>2, CommandKnown
  <1>9. TypeOK'
    BY <1>1, <1>2, <1>4 DEF TypeOK, Command, Points
  <1>10. SpacedInv'
    <2> SUFFICES ASSUME spaced PROVE SpacedInv'
      BY <1>2 DEF SpacedInv
    <2>1. \A d \in Invoker : d # c => inv'[d].at = "idle"
      BY <1>1, <1>2, <1>4, OnlyCommand
    <2>2. (\A w \in Worker : ~ Live(w))'
      <3>1. \A w \in Worker : ~ Live(w)
        BY <1>1, <1>2, NoneLives DEF Found
      <3> QED
        BY <1>2, <3>1 DEF Live
    <2>3. (\A d \in Invoker : inv[d].at = "spawn" =>
             path = NoInode /\ inv[d].call = "run")'
      BY <1>2, <1>3, <1>4, <2>1
    <2>4. (\A d, e \in Invoker : inv[d].at # "idle" /\ inv[e].at # "idle" => d = e)'
      BY <2>1
    <2> QED
      BY <2>2, <2>3, <2>4 DEF SpacedInv
  <1> QED
    BY <1>6, <1>8, <1>9, <1>10 DEF LockedInv

\* The new worker is the only one that lives: the command found none.
LEMMA SpawnKeeps ==
    ASSUME LockedInv, NEW c \in Invoker, SpawnWorker(c)
    PROVE  LockedInv'
  <1>1. TypeOK /\ LockInv /\ KnownInv /\ SpacedInv
    BY DEF LockedInv
  <1>2. /\ inv[c].at = "spawn"
        /\ UNCHANGED <<path, text, owner, fd, session, signalled, killed, required,
                       spaced>>
    BY DEF SpawnWorker, lockVars, signalVars, worldVars
  <1>3. spaced => \A w \in Worker : ~ Live(w)
    BY <1>1, <1>2, NoneLives DEF Found
  <1>4. spaced => path = NoInode /\ inv[c].call = "run"
    BY <1>1, <1>2 DEF SpacedInv
  <1>5. ASSUME NEW n \in Worker, wk[n] = "unborn",
               wk' = [wk EXCEPT ![n] = "spawned"], At(c, "ok")
        PROVE  LockedInv'
    <2>1. /\ inv' \in [Invoker -> Command]
          /\ \A d \in Invoker : d # c => inv'[d] = inv[d]
          /\ inv'[c].at = "ok" /\ inv'[c].id = inv[c].id
          /\ inv'[c].call = inv[c].call
      BY <1>1, <1>5, AtFacts DEF Points
    <2>2. /\ wk'[n] = "spawned"
          /\ \A w \in Worker : w # n => wk'[w] = wk[w]
          /\ \A w \in Worker : wk[w] = "gone" => wk'[w] = "gone"
      BY <1>1, <1>5 DEF TypeOK
    <2>3. TypeOK'
      BY <1>1, <1>2, <1>5, <2>1 DEF TypeOK, Command, Points
    <2>4. \A w \in Worker : Wrote(w) => Wrote(w)'
      BY <1>2, <1>5, <2>2 DEF Wrote
    <2>5. \A w \in Worker : Known(w) => Known(w)'
      BY <2>2, <2>4 DEF Known
    <2>6. LockInv'
      <3>1. ASSUME NEW w \in Worker PROVE Holds(w)'
        <4>1. CASE w = n
          BY <1>1, <1>2, <1>5, <2>2, <4>1 DEF LockInv, Holds
        <4>2. CASE w # n
          BY <1>1, <1>2, <2>2, <2>4, <4>2 DEF LockInv, Holds
        <4> QED
          BY <4>1, <4>2
      <3> QED
        BY <3>1 DEF LockInv
    <2>7. KnownInv'
      <3>1. (\A i \in Inode : text[i] # NoWorker => Known(text[i]))'
        <4>1. ASSUME NEW i \in Inode, text[i] # NoWorker PROVE Known(text[i])'
          <5>1. text[i] \in Worker /\ Known(text[i])
            BY <1>1, <4>1 DEF KnownInv, TypeOK
          <5>2. PICK w \in Worker : w = text[i]
            BY <5>1
          <5>3. Known(w)'
            BY <2>5, <5>1, <5>2
          <5> QED
            BY <1>2, <5>2, <5>3
        <4> QED
          BY <1>2, <4>1
      <3>2. ASSUME NEW d \in Invoker, inv'[d].id # NoWorker PROVE Known(inv[d].id)'
        <4>1. inv'[d].id = inv[d].id /\ inv'[d].id \in Worker
          BY <2>1, <3>2 DEF Command
        <4>2. PICK w \in Worker : w = inv'[d].id
          BY <4>1
        <4>3. Known(w)'
          BY <1>1, <2>5, <4>1, <4>2, <3>2 DEF KnownInv
        <4> QED
          BY <4>2, <4>3
      <3>3. (\A w \in Worker \cap signalled : Known(w))'
        BY <1>1, <1>2, <2>5 DEF KnownInv
      <3>4. ASSUME NEW d \in Invoker, inv'[d].call = "stop",
                   inv'[d].at \in {"probe", "drop", "remove", "spawn", "ok"}
            PROVE  inv'[d].id = NoWorker \/ wk'[inv'[d].id] = "gone"
        <4>1. CASE d = c
          <5>1. inv[c].id = NoWorker \/ inv[c].id \in Worker
            BY <2>1 DEF Command
          <5>2. inv[c].id = NoWorker \/ wk[inv[c].id] = "gone"
            BY <1>1, <1>2, <2>1, <3>4, <4>1 DEF KnownInv
          <5> QED
            BY <2>1, <2>2, <4>1, <5>1, <5>2
        <4>2. CASE d # c
          <5>1. inv'[d] = inv[d] /\ (inv[d].id = NoWorker \/ inv[d].id \in Worker)
            BY <2>1, <4>2 DEF Command
          <5>2. inv[d].id = NoWorker \/ wk[inv[d].id] = "gone"
            BY <1>1, <3>4, <5>1 DEF KnownInv
          <5> QED
            BY <2>2, <5>1, <5>2
        <4> QED
          BY <4>1, <4>2
      <3> QED
        BY <3>1, <3>2, <3>3, <3>4 DEF KnownInv
    <2>8. SpacedInv'
      <3> SUFFICES ASSUME spaced PROVE SpacedInv'
        BY <1>2 DEF SpacedInv
      <3>1. \A d \in Invoker : d # c => inv'[d].at = "idle"
        BY <1>1, <1>2, <2>1, OnlyCommand
      <3>2. (\A d, e \in Invoker : inv[d].at # "idle" /\ inv[e].at # "idle" => d = e)'
        BY <3>1
      <3>3. (\A w \in Worker : Live(w) => w = n)'
        BY <1>3, <2>2 DEF Live
      <3>4. fd'[n] = NoInode /\ path' = NoInode
        BY <1>1, <1>2, <1>4, <1>5 DEF LockInv, Holds
      <3>5. (\A w \in Worker : Live(w) => path = fd[w])'
        BY <3>3, <3>4
      <3>6. (\A d \in Invoker, w \in Worker : Live(w) =>
             /\ inv[d].at \in {"read", "match", "wait", "reap"} => Wrote(w)
             /\ inv[d].at \in {"match", "wait", "reap"} => w = inv[d].id
             /\ ~ Found(d)
             /\ ~ (inv[d].at = "ok" /\ inv[d].call = "stop"))'
        BY <1>4, <2>1, <3>1 DEF Found
      <3>7. (\A d \in Invoker : inv[d].at = "spawn" =>
               path = NoInode /\ inv[d].call = "run")'
        BY <2>1, <3>1
      <3> QED
        BY <3>2, <3>3, <3>5, <3>6, <3>7 DEF SpacedInv
    <2> QED
      BY <2>3, <2>6, <2>7, <2>8 DEF LockedInv
  <1>6. CASE At(c, "err") /\ UNCHANGED wk
    <2>1. /\ inv' \in [Invoker -> Command]
          /\ \A d \in Invoker : d # c => inv'[d] = inv[d]
          /\ inv'[c].at = "err" /\ inv'[c].id = inv[c].id
      BY <1>1, <1>6, AtFacts DEF Points
    <2>2. KeepsLocks
      BY <1>1, <1>2, <1>6, NoLockMoves
    <2>3. UNCHANGED <<signalVars, spaced, path, required>> /\ inv[c].at # "idle"
      BY <1>2 DEF signalVars
    <2> QED
      BY <2>1, <2>2, <2>3, CommandGoesOn
  <1> QED
    BY <1>5, <1>6 DEF SpawnWorker

\* A command that is over, or was killed.
LEMMA IdleKeeps ==
    ASSUME LockedInv, NEW c \in Invoker, inv[c].at # "idle", KeepsLocks,
           inv' = [inv EXCEPT ![c] = IdleInvoker],
           UNCHANGED <<path, signalled, killed, required, spaced>>
    PROVE  LockedInv'
  <1>1. TypeOK /\ LockInv /\ KnownInv /\ SpacedInv
    BY DEF LockedInv
  <1>2. inv \in [Invoker -> Command]
    BY <1>1, InvType
  <1>3. /\ inv' \in [Invoker -> Command]
        /\ \A d \in Invoker : d # c => inv'[d] = inv[d]
        /\ inv'[c].at = "idle" /\ inv'[c].id = NoWorker
    BY <1>2, IdleType
  <1>4. /\ signalled' \subseteq Worker \cup {Core}
        /\ killed' \subseteq Worker \cup {Core}
        /\ \A w \in Worker \cap signalled' : Known(w)
    BY <1>1 DEF TypeOK, KnownInv
  <1> QED
    BY <1>3, <1>4, CommandMoves

LEMMA AnswerKeeps ==
    ASSUME LockedInv, NEW c \in Invoker, Answer(c)
    PROVE  LockedInv'
  <1>1. /\ inv[c].at # "idle" /\ inv' = [inv EXCEPT ![c] = IdleInvoker]
        /\ UNCHANGED <<text, owner, wk, fd, session>>
        /\ UNCHANGED <<path, signalled, killed, required, spaced>>
    BY DEF Answer, lockVars, workerVars, signalVars, worldVars
  <1>2. KeepsLocks
    BY <1>1, NoLockMoves DEF LockedInv
  <1> QED
    BY <1>1, <1>2, IdleKeeps

LEMMA InvokerDiesKeeps ==
    ASSUME LockedInv, NEW c \in Invoker, InvokerDies(c)
    PROVE  LockedInv'
  <1>1. /\ inv[c].at # "idle" /\ inv' = [inv EXCEPT ![c] = IdleInvoker]
        /\ owner' = Released(c)
        /\ UNCHANGED <<text, wk, fd, session>>
        /\ UNCHANGED <<path, signalled, killed, required, spaced>>
    BY DEF InvokerDies, workerVars, signalVars, worldVars
  <1>2. KeepsLocks
    BY <1>1, ReleaseMoves DEF LockedInv
  <1> QED
    BY <1>1, <1>2, IdleKeeps

\* A command that is spaced from the last meets at most one worker, in its loop.
LEMMA InvokeKeeps ==
    ASSUME LockedInv, NEW c \in Invoker, Invoke(c)
    PROVE  LockedInv'
  <1>1. TypeOK /\ LockInv /\ KnownInv /\ SpacedInv
    BY DEF LockedInv
  <1>2. /\ spaced' = (spaced /\ Settled)
        /\ UNCHANGED <<path, text, owner, wk, fd, session, signalled, killed,
                       required>>
    BY DEF Invoke, lockVars, workerVars, signalVars
  <1> DEFINE call == IF required THEN "run" ELSE "stop"
             new == [IdleInvoker EXCEPT !.at = "read", !.call = call]
  <1>3. new \in Command /\ new.at = "read" /\ new.id = NoWorker
    BY IdleType DEF IdleInvoker, Command, Points
  <1>4. inv' = [inv EXCEPT ![c] = new]
    BY DEF Invoke
  <1> HIDE DEF new
  <1>5. /\ inv' \in [Invoker -> Command]
        /\ \A d \in Invoker : d # c => inv'[d] = inv[d]
        /\ inv'[c].at = "read" /\ inv'[c].id = NoWorker
    BY <1>1, <1>3, <1>4, InvType
  <1>6. KeepsLocks
    BY <1>1, <1>2, NoLockMoves
  <1>7. LockInv'
    BY <1>1, <1>6, WorkersStay
  <1>8. KnownInv'
    <2>1. \A w \in Worker \cap signalled' : Known(w)
      BY <1>1, <1>2 DEF KnownInv
    <2> QED
      BY <1>1, <1>5, <1>6, <2>1, CommandKnown
  <1>9. spaced' \in BOOLEAN
    BY <1>2
  <1>10. TypeOK'
    BY <1>1, <1>2, <1>5, <1>9 DEF TypeOK, Command, Points
  <1>11. SpacedInv'
    <2> SUFFICES ASSUME spaced, Settled PROVE SpacedInv'
      BY <1>2 DEF SpacedInv
    <2>1. \A d \in Invoker : d # c => inv'[d].at = "idle"
      BY <1>5 DEF Settled
    <2>2. (\A d, e \in Invoker : inv[d].at # "idle" /\ inv[e].at # "idle" => d = e)'
      BY <2>1
    <2>3. \A w \in Worker : Live(w) => Wrote(w)
      <3>1. ASSUME NEW w \in Worker, Live(w) PROVE Wrote(w)
        <4>1. wk[w] = "running"
          BY <1>1, <3>1 DEF Settled, Starting, Live, TypeOK
        <4> QED
          BY <1>1, <4>1 DEF LockInv, Holds
      <3> QED
        BY <3>1
    <2>4. (\A w \in Worker : Live(w) => Wrote(w))'
      <3>1. \A w \in Worker : Wrote(w) => Wrote(w)'
        BY <1>1, <1>6, WorkersStay
      <3>2. wk' = wk
        BY <1>2
      <3> QED
        BY <2>3, <3>1, <3>2 DEF Live
    <2>5. (\A v, w \in Worker : Live(v) /\ Live(w) => v = w)'
      BY <1>1, <1>2 DEF SpacedInv, Live
    <2>6. (\A w \in Worker : Live(w) => path = fd[w])'
      BY <1>1, <1>2 DEF SpacedInv, Live
    <2>7. (\A d \in Invoker, w \in Worker : Live(w) =>
             /\ inv[d].at \in {"read", "match", "wait", "reap"} => Wrote(w)
             /\ inv[d].at \in {"match", "wait", "reap"} => w = inv[d].id
             /\ ~ Found(d)
             /\ ~ (inv[d].at = "ok" /\ inv[d].call = "stop"))'
      BY <1>5, <2>1, <2>4 DEF Found
    <2>8. (\A d \in Invoker : inv[d].at = "spawn" =>
             path = NoInode /\ inv[d].call = "run")'
      BY <1>5, <2>1
    <2> QED
      BY <2>2, <2>5, <2>6, <2>7, <2>8 DEF SpacedInv
  <1> QED
    BY <1>7, <1>8, <1>10, <1>11 DEF LockedInv

-----------------------------------------------------------------------------
(* Workers *)

\* The others keep their place, their locks and the text of their files.
OthersStay(w) ==
    \A v \in Worker \ {w} :
        /\ wk'[v] = wk[v] /\ fd'[v] = fd[v]
        /\ \A i \in Inode : owner[i] = v => owner'[i] = v
        /\ Wrote(v) => text'[fd[v]] = v

\* A step of worker w: what must be shown.
LEMMA WorkerMoves ==
    ASSUME LockedInv, NEW w \in Worker, Live(w), OthersStay(w),
           inv' = inv, signalled' = signalled, spaced' = spaced, TypeOK',
           Holds(w)', Known(w) => Known(w)',
           \A i \in Inode : \/ text'[i] \in {text[i], NoWorker}
                            \/ text'[i] = w /\ Known(w)',
           spaced => (Live(w) => path = fd[w])'
    PROVE  LockedInv'
  <1>1. TypeOK /\ LockInv /\ KnownInv /\ SpacedInv
    BY DEF LockedInv
  <1>2. ASSUME NEW v \in Worker, v # w, Wrote(v) PROVE Wrote(v)'
    BY <1>2 DEF OthersStay, Wrote
  <1>3. ASSUME NEW v \in Worker, v # w PROVE Holds(v)'
    <2>1. fd[v] \in Inode /\ owner[fd[v]] = v => owner'[fd[v]] = v
      BY <1>3 DEF OthersStay
    <2>2. wk'[v] = wk[v] /\ fd'[v] = fd[v]
      BY <1>3 DEF OthersStay
    <2> QED
      BY <1>1, <1>2, <1>3, <2>1, <2>2 DEF LockInv, Holds
  <1>4. LockInv'
    BY <1>3 DEF LockInv
  <1>5. ASSUME NEW v \in Worker, Known(v) PROVE Known(v)'
    <2>1. CASE v = w
      BY <1>5, <2>1
    <2>2. CASE v # w
      BY <1>2, <1>5, <2>2 DEF Known, OthersStay
    <2> QED
      BY <2>1, <2>2
  <1>6. \A v \in Worker : wk[v] = "gone" => wk'[v] = "gone"
    BY DEF OthersStay, Live
  <1>7. KnownInv'
    <2>1. (\A i \in Inode : text[i] # NoWorker => Known(text[i]))'
      <3>1. ASSUME NEW i \in Inode, text'[i] # NoWorker PROVE Known(text[i])'
        <4>1. CASE text'[i] = text[i]
          <5>1. text[i] \in Worker /\ Known(text[i])
            BY <1>1, <3>1, <4>1 DEF KnownInv, TypeOK
          <5>2. PICK v \in Worker : v = text[i]
            BY <5>1
          <5>3. Known(v)'
            BY <1>5, <5>1, <5>2
          <5> QED
            BY <4>1, <5>2, <5>3
        <4>2. CASE text'[i] = w /\ Known(w)'
          BY <4>2
        <4> QED
          BY <3>1, <4>1, <4>2
      <3> QED
        BY <3>1
    <2>2. ASSUME NEW d \in Invoker, inv'[d].id # NoWorker PROVE Known(inv[d].id)'
      <3>1. inv[d].id \in Worker /\ Known(inv[d].id)
        BY <1>1, <2>2, InvType DEF KnownInv, Command
      <3>2. PICK v \in Worker : v = inv[d].id
        BY <3>1
      <3>3. Known(v)'
        BY <1>5, <3>1, <3>2
      <3> QED
        BY <3>2, <3>3
    <2>3. (\A v \in Worker \cap signalled : Known(v))'
      BY <1>1, <1>5 DEF KnownInv
    <2>4. (\A d \in Invoker :
             inv[d].call = "stop" /\ inv[d].at \in {"probe", "drop", "remove", "spawn", "ok"}
               => inv[d].id = NoWorker \/ wk[inv[d].id] = "gone")'
      <3>1. \A d \in Invoker : inv[d].id \in Worker \cup {NoWorker}
        BY <1>1, InvType DEF Command
      <3> QED
        BY <1>1, <1>6, <3>1 DEF KnownInv
    <2> QED
      BY <2>1, <2>2, <2>3, <2>4 DEF KnownInv
  <1>8. SpacedInv'
    <2> SUFFICES ASSUME spaced PROVE SpacedInv'
      BY DEF SpacedInv
    <2>1. ASSUME NEW v \in Worker, Live(v)' PROVE v = w
      <3> SUFFICES ASSUME v # w PROVE FALSE
        OBVIOUS
      <3>1. wk'[v] = wk[v]
        BY DEF OthersStay
      <3>2. Live(v)
        BY <2>1, <3>1 DEF Live
      <3> QED
        BY <1>1, <3>2 DEF SpacedInv
    <2>2. (\A v, u \in Worker : Live(v) /\ Live(u) => v = u)'
      BY <2>1
    <2>3. (\A v \in Worker : Live(v) => path = fd[v])'
      BY <2>1
    <2>4. (\A d, e \in Invoker : inv[d].at # "idle" /\ inv[e].at # "idle" => d = e)'
      BY <1>1 DEF SpacedInv
    <2>5. Live(w)' /\ Wrote(w) => Wrote(w)'
      BY DEF Known, Live
    <2>6. (\A d \in Invoker, v \in Worker : Live(v) =>
             /\ inv[d].at \in {"read", "match", "wait", "reap"} => Wrote(v)
             /\ inv[d].at \in {"match", "wait", "reap"} => v = inv[d].id
             /\ ~ Found(d)
             /\ ~ (inv[d].at = "ok" /\ inv[d].call = "stop"))'
      <3>1. ASSUME NEW d \in Invoker
            PROVE  /\ inv[d].at \in {"read", "match", "wait", "reap"} => Wrote(w)
                   /\ inv[d].at \in {"match", "wait", "reap"} => w = inv[d].id
                   /\ ~ Found(d)
                   /\ ~ (inv[d].at = "ok" /\ inv[d].call = "stop")
        BY <1>1 DEF SpacedInv
      <3> QED
        BY <2>1, <2>5, <3>1 DEF Found
    <2>7. (\A d \in Invoker : inv[d].at = "spawn" =>
             path = NoInode /\ inv[d].call = "run")'
      BY <1>1 DEF SpacedInv, Found
    <2> QED
      BY <2>2, <2>3, <2>4, <2>6, <2>7 DEF SpacedInv
  <1> QED
    BY <1>4, <1>7, <1>8 DEF LockedInv

\* A worker that lives has never been read, or holds what was read.
LEMMA StartingUnknown ==
    ASSUME NEW w \in Worker, wk[w] \in {"spawned", "wanted", "opened", "locked", "blank"}
    PROVE  ~ Known(w) /\ Live(w)
  BY DEF Known, Wrote, Live

LEMMA OpenKeeps ==
    ASSUME LockedInv, NEW w \in Worker, OpenLock(w)
    PROVE  LockedInv'
  <1>1. TypeOK /\ LockInv /\ KnownInv /\ SpacedInv
    BY DEF LockedInv
  <1>2. /\ wk[w] = "wanted" /\ wk' = [wk EXCEPT ![w] = "opened"]
        /\ UNCHANGED <<owner, inv, session, signalled, killed, required, spaced>>
    BY DEF OpenLock, signalVars, worldVars
  <1>3. ~ Known(w) /\ Live(w)
    BY <1>2, StartingUnknown
  <1>4. /\ wk'[w] = "opened" /\ wk' \in [Worker -> {"unborn", "spawned", "wanted",
                "opened", "locked", "blank", "check", "running", "leaving", "gone"}]
        /\ \A v \in Worker : v # w => wk'[v] = wk[v]
    BY <1>1, <1>2 DEF TypeOK
  <1>5. spaced => path = NoInode
    BY <1>1, <1>2, <1>3 DEF SpacedInv, LockInv, Holds
  <1>6. CASE path # NoInode /\ fd' = [fd EXCEPT ![w] = path] /\ UNCHANGED <<path, text>>
    <2>1. fd'[w] = path /\ path \in Inode /\ \A v \in Worker : v # w => fd'[v] = fd[v]
      BY <1>1, <1>6 DEF TypeOK
    <2>2. TypeOK'
      BY <1>1, <1>2, <1>4, <1>6 DEF TypeOK
    <2>3. OthersStay(w)
      BY <1>2, <1>4, <1>6, <2>1 DEF OthersStay, Wrote
    <2>4. Holds(w)'
      BY <1>4, <2>1 DEF Holds
    <2>5. \A i \in Inode : text'[i] \in {text[i], NoWorker}
      BY <1>6
    <2>6. spaced => (Live(w) => path = fd[w])'
      BY <1>5, <1>6
    <2>7. inv' = inv /\ signalled' = signalled /\ spaced' = spaced
      BY <1>2
    <2> QED
      BY <1>3, <2>2, <2>3, <2>4, <2>5, <2>6, <2>7, WorkerMoves
  <1>7. ASSUME NEW i \in FreeInodes, path' = i,
               text' = [text EXCEPT ![i] = NoWorker], fd' = [fd EXCEPT ![w] = i]
        PROVE  LockedInv'
    <2>1. i \in Inode /\ \A v \in Worker : fd[v] # i
      BY DEF FreeInodes
    <2>2. fd'[w] = i /\ \A v \in Worker : v # w => fd'[v] = fd[v]
      BY <1>1, <1>7 DEF TypeOK
    <2>3. /\ text'[i] = NoWorker
          /\ \A k \in Inode : k # i => text'[k] = text[k]
      BY <1>1, <1>7, <2>1 DEF TypeOK
    <2>4. TypeOK'
      BY <1>1, <1>2, <1>4, <1>7, <2>1 DEF TypeOK
    <2>5. OthersStay(w)
      BY <1>2, <1>4, <2>1, <2>2, <2>3 DEF OthersStay, Wrote
    <2>6. Holds(w)'
      BY <1>4, <2>1, <2>2 DEF Holds
    <2>7. \A k \in Inode : text'[k] \in {text[k], NoWorker}
      BY <2>3
    <2>8. spaced => (Live(w) => path = fd[w])'
      BY <1>7, <2>2
    <2>9. inv' = inv /\ signalled' = signalled /\ spaced' = spaced
      BY <1>2
    <2> QED
      BY <1>3, <2>4, <2>5, <2>6, <2>7, <2>8, <2>9, WorkerMoves
  <1> QED
    BY <1>6, <1>7 DEF OpenLock

\* The end of a worker, of whatever cause.
LEMMA GoneKeeps ==
    ASSUME LockedInv, NEW w \in Worker, Live(w), Gone(w)
    PROVE  LockedInv'
  <1>1. TypeOK /\ LockInv /\ KnownInv /\ SpacedInv
    BY DEF LockedInv
  <1>2. /\ wk' = [wk EXCEPT ![w] = "gone"] /\ fd' = [fd EXCEPT ![w] = NoInode]
        /\ owner' = Released(w)
        /\ UNCHANGED <<path, text, inv, session, signalled, killed, required, spaced>>
    BY DEF Gone, signalVars, worldVars
  <1>3. /\ wk'[w] = "gone" /\ fd'[w] = NoInode
        /\ \A v \in Worker : v # w => wk'[v] = wk[v] /\ fd'[v] = fd[v]
    BY <1>1, <1>2 DEF TypeOK
  <1>4. \A i \in Inode : owner'[i] = IF owner[i] = w THEN Nobody ELSE owner[i]
    BY <1>2 DEF Released
  <1>5. TypeOK'
    <2>1. owner' \in [Inode -> Worker \cup Invoker \cup {Nobody}]
      BY <1>1, <1>2 DEF TypeOK, Released
    <2> QED
      BY <1>1, <1>2, <2>1 DEF TypeOK
  <1>6. OthersStay(w)
    BY <1>2, <1>3, <1>4 DEF OthersStay, Wrote
  <1>7. Holds(w)' /\ Known(w)' /\ ~ Live(w)'
    BY <1>3 DEF Holds, Known, Live
  <1>8. \A i \in Inode : text'[i] \in {text[i], NoWorker}
    BY <1>2
  <1>9. inv' = inv /\ signalled' = signalled /\ spaced' = spaced
    BY <1>2
  <1> QED
    BY <1>5, <1>6, <1>7, <1>8, <1>9, WorkerMoves

LEMMA TryKeeps ==
    ASSUME LockedInv, NEW w \in Worker, TryLock(w)
    PROVE  LockedInv'
  <1>1. TypeOK /\ LockInv /\ KnownInv /\ SpacedInv
    BY DEF LockedInv
  <1>2. wk[w] = "opened" /\ ~ Known(w) /\ Live(w) /\ fd[w] \in Inode
    BY <1>1, StartingUnknown DEF TryLock, LockInv, Holds
  <1>3. CASE /\ owner[fd[w]] = Nobody /\ owner' = [owner EXCEPT ![fd[w]] = w]
             /\ wk' = [wk EXCEPT ![w] = "locked"]
             /\ UNCHANGED <<path, text, fd, inv, signalVars, session, worldVars>>
    <2>0. UNCHANGED <<path, text, fd, inv, session, signalled, killed, required, spaced>>
      BY <1>3 DEF signalVars, worldVars
    <2>1. /\ wk'[w] = "locked"
          /\ \A v \in Worker : v # w => wk'[v] = wk[v]
      BY <1>1, <1>3 DEF TypeOK
    <2>2. /\ owner'[fd[w]] = w
          /\ \A i \in Inode : i # fd[w] => owner'[i] = owner[i]
      BY <1>1, <1>2, <1>3 DEF TypeOK
    <2>3. TypeOK'
      BY <1>1, <1>3, <2>0 DEF TypeOK
    <2>4. OthersStay(w)
      BY <1>3, <2>0, <2>1, <2>2, ConstAssumption DEF OthersStay, Wrote
    <2>5. Holds(w)'
      BY <1>2, <2>0, <2>1, <2>2 DEF Holds
    <2>6. \A i \in Inode : text'[i] \in {text[i], NoWorker}
      BY <2>0
    <2>7. spaced => (Live(w) => path = fd[w])'
      BY <1>1, <1>2, <2>0 DEF SpacedInv
    <2>8. inv' = inv /\ signalled' = signalled /\ spaced' = spaced
      BY <2>0
    <2> QED
      BY <1>2, <2>3, <2>4, <2>5, <2>6, <2>7, <2>8, WorkerMoves
  <1>4. CASE Gone(w)
    BY <1>2, <1>4, GoneKeeps
  <1> QED
    BY <1>3, <1>4 DEF TryLock

\* Nobody else has written to the file: its lock is this worker's.
LEMMA ResetKeeps ==
    ASSUME LockedInv, NEW w \in Worker, ResetIdentity(w)
    PROVE  LockedInv'
  <1>1. TypeOK /\ LockInv /\ KnownInv /\ SpacedInv
    BY DEF LockedInv
  <1>2. /\ wk[w] = "locked" /\ wk' = [wk EXCEPT ![w] = "blank"]
        /\ text' = [text EXCEPT ![fd[w]] = NoWorker]
        /\ UNCHANGED <<path, owner, fd, inv, session, signalled, killed, required,
                       spaced>>
    BY DEF ResetIdentity, signalVars, worldVars
  <1>3. ~ Known(w) /\ Live(w) /\ fd[w] \in Inode /\ owner[fd[w]] = w
    BY <1>1, <1>2, StartingUnknown DEF LockInv, Holds
  <1>4. /\ wk'[w] = "blank"
        /\ \A v \in Worker : v # w => wk'[v] = wk[v]
    BY <1>1, <1>2 DEF TypeOK
  <1>5. /\ text'[fd[w]] = NoWorker
        /\ \A i \in Inode : i # fd[w] => text'[i] = text[i]
    BY <1>1, <1>2, <1>3 DEF TypeOK
  <1>6. TypeOK'
    BY <1>1, <1>2 DEF TypeOK
  <1>7. OthersStay(w)
    BY <1>2, <1>3, <1>4, <1>5 DEF OthersStay, Wrote
  <1>8. Holds(w)'
    BY <1>2, <1>3, <1>4 DEF Holds
  <1>9. \A i \in Inode : text'[i] \in {text[i], NoWorker}
    BY <1>5
  <1>10. spaced => (Live(w) => path = fd[w])'
    BY <1>1, <1>2, <1>3 DEF SpacedInv
  <1>11. inv' = inv /\ signalled' = signalled /\ spaced' = spaced
    BY <1>2
  <1> QED
    BY <1>3, <1>6, <1>7, <1>8, <1>9, <1>10, <1>11, WorkerMoves

\* From here on the worker can be read, and is known.
LEMMA WriteKeeps ==
    ASSUME LockedInv, NEW w \in Worker, WriteIdentity(w)
    PROVE  LockedInv'
  <1>1. TypeOK /\ LockInv /\ KnownInv /\ SpacedInv
    BY DEF LockedInv
  <1>2. /\ wk[w] = "blank" /\ wk' = [wk EXCEPT ![w] = "check"]
        /\ text' = [text EXCEPT ![fd[w]] = w]
        /\ UNCHANGED <<path, owner, fd, inv, session, signalled, killed, required,
                       spaced>>
    BY DEF WriteIdentity, signalVars, worldVars
  <1>3. ~ Known(w) /\ Live(w) /\ fd[w] \in Inode /\ owner[fd[w]] = w
    BY <1>1, <1>2, StartingUnknown DEF LockInv, Holds
  <1>4. /\ wk'[w] = "check"
        /\ \A v \in Worker : v # w => wk'[v] = wk[v]
    BY <1>1, <1>2 DEF TypeOK
  <1>5. /\ text'[fd[w]] = w
        /\ \A i \in Inode : i # fd[w] => text'[i] = text[i]
    BY <1>1, <1>2, <1>3 DEF TypeOK
  <1>6. TypeOK'
    BY <1>1, <1>2 DEF TypeOK
  <1>7. OthersStay(w)
    BY <1>2, <1>3, <1>4, <1>5 DEF OthersStay, Wrote
  <1>8. Holds(w)' /\ Known(w)'
    BY <1>2, <1>3, <1>4, <1>5 DEF Holds, Known, Wrote
  <1>9. \A i \in Inode : text'[i] \in {text[i], NoWorker} \/ text'[i] = w
    BY <1>5
  <1>10. spaced => (Live(w) => path = fd[w])'
    BY <1>1, <1>2, <1>3 DEF SpacedInv
  <1>11. inv' = inv /\ signalled' = signalled /\ spaced' = spaced
    BY <1>2
  <1> QED
    BY <1>3, <1>6, <1>7, <1>8, <1>9, <1>10, <1>11, WorkerMoves

\* A worker moves on, with what it holds.
LEMMA CheckKeeps ==
    ASSUME LockedInv, NEW w \in Worker, CheckRequired(w)
    PROVE  LockedInv'
  <1>1. TypeOK /\ LockInv /\ KnownInv /\ SpacedInv
    BY DEF LockedInv
  <1>2. UNCHANGED <<path, text, owner, fd, inv, session, signalled, killed, required,
                    spaced>>
    BY DEF CheckRequired, lockVars, signalVars, worldVars
  <1>3. PICK to \in {"wanted", "running", "leaving"} :
           /\ wk' = [wk EXCEPT ![w] = to]
           /\ \/ to = "wanted" /\ wk[w] = "spawned"
              \/ to = "running" /\ wk[w] = "check"
              \/ to = "leaving" /\ wk[w] \in {"spawned", "check", "running"}
    BY DEF CheckRequired
  <1>4. wk'[w] = to /\ \A v \in Worker : v # w => wk'[v] = wk[v]
    BY <1>1, <1>3 DEF TypeOK
  <1>5. /\ Live(w)
        /\ to = "wanted" => wk[w] = "spawned"
        /\ to = "running" => wk[w] = "check"
        /\ wk[w] \in {"check", "running"} => to \in {"running", "leaving"}
        /\ wk[w] \in {"spawned", "check", "running"}
    BY <1>3 DEF Live
  <1>6. TypeOK'
    BY <1>1, <1>2, <1>3 DEF TypeOK
  <1>7. OthersStay(w)
    BY <1>2, <1>4 DEF OthersStay, Wrote
  <1>8. Holds(w)' /\ (Known(w) => Known(w)')
    <2>1. wk[w] = "spawned" => fd[w] = NoInode /\ ~ Known(w)
      BY <1>1, StartingUnknown DEF LockInv, Holds
    <2>2. wk[w] \in {"check", "running"} => Wrote(w)
      BY <1>1 DEF LockInv, Holds
    <2> QED
      BY <1>2, <1>4, <1>5, <2>1, <2>2 DEF Holds, Known, Wrote
  <1>9. \A i \in Inode : text'[i] \in {text[i], NoWorker}
    BY <1>2
  <1>10. spaced => (Live(w) => path = fd[w])'
    BY <1>1, <1>2, <1>5 DEF SpacedInv
  <1>11. inv' = inv /\ signalled' = signalled /\ spaced' = spaced
    BY <1>2
  <1> QED
    BY <1>5, <1>6, <1>7, <1>8, <1>9, <1>10, <1>11, WorkerMoves

\* Nothing that the invariant speaks of changes, but its types.
LEMMA SameKeeps ==
    ASSUME LockedInv, TypeOK',
           UNCHANGED <<path, text, owner, wk, fd, inv, signalled, spaced>>
    PROVE  LockedInv'
  <1>1. LockInv /\ KnownInv /\ SpacedInv
    BY DEF LockedInv
  <1>2. LockInv'
    BY <1>1 DEF LockInv, Holds, Wrote
  <1>3. KnownInv'
    BY <1>1 DEF KnownInv, Known, Wrote
  <1>4. SpacedInv'
    BY <1>1 DEF SpacedInv, Live, Wrote, Found
  <1> QED
    BY <1>2, <1>3, <1>4 DEF LockedInv

-----------------------------------------------------------------------------
(* The invariant *)

LEMMA LockedInit == Init => LockedInv
  <1> SUFFICES ASSUME Init PROVE LockedInv
    OBVIOUS
  <1>1. /\ inv \in [Invoker -> Command]
        /\ \A c \in Invoker : inv[c] = IdleInvoker
    BY IdleType DEF Init
  <1>2. TypeOK
    BY <1>1 DEF Init, TypeOK, Command, Points
  <1>3. LockInv
    BY DEF Init, LockInv, Holds
  <1>4. KnownInv
    BY <1>1, IdleType DEF Init, KnownInv
  <1>5. SpacedInv
    BY <1>1, IdleType DEF Init, SpacedInv, Live
  <1> QED
    BY <1>2, <1>3, <1>4, <1>5 DEF LockedInv

LEMMA LockedNext == LockedInv /\ [Next]_vars => LockedInv'
  <1> SUFFICES ASSUME LockedInv, [Next]_vars PROVE LockedInv'
    OBVIOUS
  <1>1. ASSUME NEW w \in Worker, WorkerStep(w) PROVE LockedInv'
    <2>1. CASE OpenLock(w)
      BY <2>1, OpenKeeps
    <2>2. CASE TryLock(w)
      BY <2>2, TryKeeps
    <2>3. CASE ResetIdentity(w)
      BY <2>3, ResetKeeps
    <2>4. CASE WriteIdentity(w)
      BY <2>4, WriteKeeps
    <2>5. CASE CheckRequired(w)
      BY <2>5, CheckKeeps
    <2>6. CASE Leave(w)
      BY <2>6, GoneKeeps DEF Leave, Live
    <2> QED
      BY <1>1, <2>1, <2>2, <2>3, <2>4, <2>5, <2>6 DEF WorkerStep
  <1>2. ASSUME NEW w \in Worker, StartCore(w) PROVE LockedInv'
    <2>1. UNCHANGED <<path, text, owner, wk, fd, inv, signalled, killed, required,
                      spaced>> /\ session' = w
      BY <1>2 DEF StartCore, lockVars, signalVars, worldVars
    <2>2. TypeOK'
      BY <2>1 DEF LockedInv, TypeOK
    <2> QED
      BY <2>1, <2>2, SameKeeps
  <1>3. ASSUME NEW w \in Worker, WorkerDies(w) PROVE LockedInv'
    BY <1>3, GoneKeeps DEF WorkerDies
  <1>4. ASSUME NEW c \in Invoker, CommandStep(c) PROVE LockedInv'
    <2>1. CASE ReadIdentity(c)
      BY <2>1, ReadKeeps
    <2>2. CASE MatchIdentity(c)
      BY <2>2, MatchKeeps
    <2>3. CASE WaitForWorker(c)
      BY <2>3, WaitKeeps
    <2>4. CASE ReapWorker(c)
      BY <2>4, ReapKeeps
    <2>5. CASE ProbeLock(c)
      BY <2>5, ProbeKeeps
    <2>6. CASE CloseProbe(c)
      BY <2>6, CloseKeeps
    <2>7. CASE RemoveLockFile(c)
      BY <2>7, RemoveKeeps
    <2>8. CASE SpawnWorker(c)
      BY <2>8, SpawnKeeps
    <2>9. CASE Answer(c)
      BY <2>9, AnswerKeeps
    <2> QED
      BY <1>4, <2>1, <2>2, <2>3, <2>4, <2>5, <2>6, <2>7, <2>8, <2>9 DEF CommandStep
  <1>5. ASSUME NEW c \in Invoker, Invoke(c) PROVE LockedInv'
    BY <1>5, InvokeKeeps
  <1>6. ASSUME NEW c \in Invoker, InvokerDies(c) PROVE LockedInv'
    BY <1>6, InvokerDiesKeeps
  <1>7. CASE RequiredChanges
    <2>1. UNCHANGED <<path, text, owner, wk, fd, inv, signalled, killed, session,
                      spaced>>
      BY <1>7 DEF RequiredChanges, lockVars, workerVars, signalVars
    <2>2. required' \in BOOLEAN
      BY <1>7, ConstAssumption DEF RequiredChanges
    <2>3. TypeOK'
      BY <2>1, <2>2 DEF LockedInv, TypeOK
    <2> QED
      BY <2>1, <2>3, SameKeeps
  <1>8. CASE UNCHANGED vars
    <2>1. UNCHANGED <<path, text, owner, wk, fd, inv, signalled, killed, session,
                      required, spaced>>
      BY <1>8 DEF vars
    <2>2. TypeOK'
      BY <2>1 DEF LockedInv, TypeOK
    <2> QED
      BY <2>1, <2>2, SameKeeps
  <1> QED
    BY <1>1, <1>2, <1>3, <1>4, <1>5, <1>6, <1>7, <1>8 DEF Next

LEMMA Locked == Spec => []LockedInv
  BY LockedInit, LockedNext, PTL DEF Spec

-----------------------------------------------------------------------------
(* Theorems *)

\* The state of monitor.rs stays within its types.
THEOREM MonitorLockTyped == Spec => []TypeOK
  <1>1. LockedInv => TypeOK
    BY DEF LockedInv
  <1> QED
    BY <1>1, Locked, PTL

\* signal_monitor_process_group hits no worker but one that holds the lock of
\* a file with its identity: an identity that was read stays true of its worker
\* until the worker ends.
THEOREM OwnersSignalled == Spec => []SignalsOwnersOnly
  <1>1. LockedInv => SignalsOwnersOnly
    BY ConstAssumption DEF LockedInv, KnownInv, Known, Wrote, Live, SignalsOwnersOnly
  <1> QED
    BY <1>1, Locked, PTL

\* An Ok of stop_monitor_worker is true: the worker it verified is gone, and
\* while commands are spaced no worker runs.
THEOREM StopIsTrue == Spec => []StopOkMeansGone
  <1>1. LockedInv => StopOkMeansGone
    <2> SUFFICES ASSUME LockedInv, NEW c \in Invoker, inv[c].at = "ok",
                        inv[c].call = "stop"
                 PROVE  /\ ~ Verified(inv[c].id)
                        /\ spaced => \A w \in Worker : wk[w] # "running"
      BY DEF StopOkMeansGone
    <2>1. ~ Verified(inv[c].id)
      BY DEF LockedInv, KnownInv, Verified, Live
    <2>2. ASSUME spaced, NEW w \in Worker, wk[w] = "running" PROVE FALSE
      BY <2>2 DEF LockedInv, SpacedInv, Live
    <2> QED
      BY <2>1, <2>2
  <1> QED
    BY <1>1, Locked, PTL

\* While each command finds the last one's worker settled, the path names the
\* file that the running worker holds and has written its identity to.
THEOREM RunningIsFound == Spec => []WorkerCanBeFound
  <1>1. LockedInv => WorkerCanBeFound
    <2> SUFFICES ASSUME LockedInv, spaced, NEW w \in Worker, wk[w] = "running"
                 PROVE  path # NoInode /\ owner[path] = w /\ text[path] = w
      BY DEF WorkerCanBeFound
    <2>1. Wrote(w) /\ path = fd[w]
      BY DEF LockedInv, LockInv, Holds, SpacedInv, Live
    <2> QED
      BY <2>1, ConstAssumption DEF Wrote
  <1> QED
    BY <1>1, Locked, PTL

=============================================================================
