-------------------------- MODULE ThreadPoolProofs --------------------------
(***************************************************************************)
(* What holds of ThreadPool for every number of threads, every queue size  *)
(* and every set of jobs: the inductive invariant and its proof.           *)
(***************************************************************************)
EXTENDS ThreadPool, CommonLemmas, FiniteSetTheorems

-----------------------------------------------------------------------------
(* The inductive invariant.                                                *)

\* What a thread does when it works for nobody: the labels of the lowest frame.
ClientLabels == {"client", "unpublish", "unpublishMine", "gone", "notifyAll", "join", "destroyed"}
WorkerLabels == {"start", "loop", "workerMine", "workerStole", "doze", "sleep", "wake", "gone"}
Bases == ClientLabels \cup WorkerLabels \cup {"parent"}

\* Labels at which a frame waits for the one above it.
Calling == {"client", "unpublishMine", "body", "added", "mine", "look", "stole", "waitMine",
            "waitSubmitted", "workerMine", "workerStole", "workMine", "parent", "parentWorked"}

\* Labels at which the frame is about a job, and those at which it owns the job.
JobLabels == {"submit", "push", "notify", "added", "parentUndo", "parentAdd", "body",
              "finish", "hasExc", "exc", "claim"}
Adding == {"submit", "push"}
Owning == Adding \cup {"body", "finish", "hasExc", "exc"}

ParentLabels == {"parentLoop", "parentWorked"}
WaitLabels == {"waitSubmitted", "waitFinished", "waitMine", "waitExc", "rethrow", "waited"}
SleepLabels == {"doze", "sleep", "wake"}

BaseOf(t) == IF t \in Clients THEN ClientLabels
             ELSE IF HasParent THEN {"parent"} ELSE WorkerLabels

Frames == [at : Labels, job : Jobs \cup {NoJob}, left : SUBSET (Jobs \cup Threads),
           from : SUBSET Threads, found : BOOLEAN, n : Nat]

PoolType ==
    /\ submitted \in Nat /\ finished \in Nat /\ hasExc \in Nat
    /\ exc \in Jobs \cup {NoJob}
    /\ shutdown \in BOOLEAN
    /\ parentQueue \in Nat /\ parentJobs \in Int /\ strong \in Int /\ threadsSleeping \in Int
    /\ queue \in [Threads -> Seq(Jobs)]
    /\ \A t \in Threads : Len(queue[t]) <= QueueSize
    /\ queues \in SUBSET Threads
    /\ known \in [Threads -> SUBSET Threads]
    /\ stack \in [Threads -> Seq(Frames)]
    /\ result \in [Threads -> BOOLEAN]
    /\ job \in [Jobs -> {"new", "adding", "queued", "running", "done", "threw"}]

\* What a frame holds besides its types.
FrameOK(f) ==
    /\ f.at \in JobLabels => f.job \in Jobs
    /\ f.at = "body" => f.left \subseteq Spawns[f.job]
    /\ f.at \in {"hasExc", "exc"} => f.job \in Throws
    /\ f.at \in {"look", "scan", "claim", "stole"} => f.left \subseteq Threads

FrameInv == \A t \in Threads : \A k \in 1..Len(stack[t]) : FrameOK(stack[t][k])

\* Only the lowest frame does nothing for anybody; a frame below another waits for it.
ShapeOK(t, s) ==
    /\ Len(s) >= 1
    /\ s[1].at \in BaseOf(t)
    /\ \A k \in 2..Len(s) : s[k].at \notin Bases
    /\ \A k \in 1..(Len(s) - 1) : s[k].at \in Calling
    /\ \A k \in 2..Len(s) : s[k].at \in WaitLabels => k = 2 /\ s[1].at = "client"
    /\ s[1].at = "unpublishMine" /\ Len(s) >= 2 => s[2].at = "mine"

ShapeInv == \A t \in Threads : ShapeOK(t, stack[t])

\* Frame k of thread t is at label l, and about job j.
Held(t, k, l, j) == k \in 1..Len(stack[t]) /\ stack[t][k].at = l /\ stack[t][k].job = j

\* The frame that owns a job, and how far the job has come.
OwnerOK(j) ==
    /\ \A t, u \in Threads : \A k \in 1..Len(stack[t]), m \in 1..Len(stack[u]) :
          \A a, b \in Owning : Held(t, k, a, j) /\ Held(u, m, b, j) => t = u /\ k = m
    /\ \A t \in Threads : \A k \in 1..Len(stack[t]) :
          /\ Held(t, k, "submit", j) \/ Held(t, k, "push", j) => job[j] = "adding"
          /\ Held(t, k, "body", j) => job[j] = "running"
          /\ Held(t, k, "finish", j) => job[j] \in {"done", "threw"}
          /\ Held(t, k, "hasExc", j) \/ Held(t, k, "exc", j) => job[j] = "threw"
    /\ job[j] = "adding" => \E t \in Threads : \E k \in 1..Len(stack[t]) :
                               Held(t, k, "submit", j) \/ Held(t, k, "push", j)
    /\ job[j] = "running" => \E t \in Threads : \E k \in 1..Len(stack[t]) : Held(t, k, "body", j)

OwnerInv == \A j \in Jobs : OwnerOK(j)

\* The queues.
QueueInv ==
    /\ \A t \in Threads : IsInjective(queue[t])
    /\ \A t, u \in Threads : t # u => Range(queue[t]) \cap Range(queue[u]) = {}
    /\ \A j \in Jobs : job[j] = "queued" <=> \E t \in Threads : j \in Range(queue[t])

\* The jobs that a job has yet to add are new.
SpawnInv ==
    /\ \A p \in Jobs, t \in Threads : \A k \in 1..Len(stack[t]) :
          Held(t, k, "body", p) => \A j \in stack[t][k].left : job[j] = "new"
    /\ \A p \in Jobs : job[p] \in {"new", "adding", "queued"} =>
          \A j \in Spawns[p] : job[j] = "new"

\* Only the thread that raised hasExc from 0 assigns exc, and only once.
FirstInv ==
    /\ hasExc = 0 => exc = NoJob
    /\ \A j \in Jobs, t \in Threads, k \in Nat : Held(t, k, "exc", j) => hasExc > 0 /\ exc = NoJob
    /\ \A i, j \in Jobs, t, u \in Threads, k, m \in Nat :
          Held(t, k, "exc", i) /\ Held(u, m, "exc", j) => i = j

\* Exceptions: of the jobs that throw, one is kept or about to be.
ThrowInv ==
    /\ FirstInv
    /\ \A j \in Jobs : /\ job[j] = "threw" => j \in Throws
                       /\ job[j] = "done" => j \notin Throws
    /\ \A j \in Jobs : job[j] = "threw" /\ hasExc = 0 =>
          \E t \in Threads : \E k \in 1..Len(stack[t]) :
              Held(t, k, "finish", j) \/ Held(t, k, "hasExc", j)
    /\ hasExc > 0 /\ exc = NoJob =>
          \E j \in Jobs, t \in Threads : \E k \in 1..Len(stack[t]) : Held(t, k, "exc", j)

\* The counters.
FlightInv == IsFiniteSet(InFlight) /\ submitted - finished = Cardinality(InFlight)

Sleepers == {t \in Workers : \E w \in SleepLabels : At(t, w)}
SleepInv == IsFiniteSet(Sleepers) /\ threadsSleeping = Cardinality(Sleepers)

ToAdd == {t \in Threads : At(t, "parentAdd")}
ToUndo == {t \in Threads : At(t, "parentUndo")}

\* The parent jobs that run, on a worker of the parent or within add.
ParentFrames(u) == {k \in 1..Len(stack[u]) : stack[u][k].at \in ParentLabels}
ParentRuns == {p \in Threads \X Nat : p[2] \in ParentFrames(p[1])}

ParentInv ==
    /\ IsFiniteSet(ToAdd) /\ IsFiniteSet(ToUndo) /\ IsFiniteSet(ParentRuns)
    /\ strong = Cardinality(ParentRuns)
    /\ parentQueue + Cardinality(ToAdd) + strong <= maxParentJobs
    /\ parentQueue + Cardinality(ToAdd) + Cardinality(ToUndo) + strong <= parentJobs

\* Destruction is for good, and the queue of a thread that is gone is empty.
Base(u) == stack[u][1].at

LastClient == \A t \in Clients : Base(t) \in {"notifyAll", "join", "destroyed"} =>
                  \A u \in Clients \ {t} : At(u, "gone")
ShutOK == shutdown => \A t \in Clients : Base(t) # "client"
WithdrawnEmpty == ~shutdown => \A t \in Threads : t \notin queues => queue[t] = <<>>
WithdrawingEmpty == \A t \in Threads : At(t, "unpublishMine") => queue[t] = <<>>
WorkersLast == \A t \in Workers : At(t, "gone") => shutdown

EndInv == LastClient /\ ShutOK /\ WithdrawnEmpty /\ WithdrawingEmpty /\ WorkersLast /\ NoOrphanedJobs

IInv ==
    /\ PoolType /\ FrameInv /\ ShapeInv /\ OwnerInv /\ QueueInv /\ SpawnInv
    /\ ThrowInv /\ FlightInv /\ SleepInv /\ ParentInv /\ EndInv

-----------------------------------------------------------------------------
(* What a step does to the stack of its thread.                            *)

Others(t) == /\ stack' \in [Threads -> Seq(Frames)]
             /\ \A u \in Threads \ {t} : stack'[u] = stack[u]

Kept(t) == \A k \in 1..(Len(stack[t]) - 1) : stack'[t][k] = stack[t][k]

\* The innermost frame is now f; f has called g; it has returned.
ReplacedBy(t, f) ==
    Len(stack'[t]) = Len(stack[t]) /\ stack'[t][Len(stack[t])] = f /\ Kept(t) /\ Others(t)
PushedOn(t, f, g) ==
    /\ Len(stack'[t]) = Len(stack[t]) + 1
    /\ stack'[t][Len(stack[t])] = f /\ stack'[t][Len(stack[t]) + 1] = g
    /\ Kept(t) /\ Others(t)
Pops(t) == Len(stack'[t]) = Len(stack[t]) - 1 /\ Kept(t) /\ Others(t)

\* The same, for frames at labels b and c.
Replaces(t, b) == \E f \in Frames : f.at = b /\ FrameOK(f) /\ ReplacedBy(t, f)
Pushes(t, b, c) == \E f, g \in Frames : /\ f.at = b /\ g.at = c
                                        /\ FrameOK(f) /\ FrameOK(g) /\ PushedOn(t, f, g)

\* The sequences that the operations on a stack are made of.
LEMMA StackOps ==
    ASSUME NEW S, NEW s \in Seq(S), Len(s) >= 1, NEW f \in S, NEW g \in S
    PROVE  LET b == SubSeq(s, 1, Len(s) - 1) IN
           /\ b \in Seq(S) /\ Len(b) = Len(s) - 1
           /\ \A k \in 1..(Len(s) - 1) : b[k] = s[k]
           /\ Append(b, f) \in Seq(S) /\ Len(Append(b, f)) = Len(s)
           /\ \A k \in 1..(Len(s) - 1) : Append(b, f)[k] = s[k]
           /\ Append(b, f)[Len(s)] = f
           /\ Append(Append(b, f), g) \in Seq(S)
           /\ Len(Append(Append(b, f), g)) = Len(s) + 1
           /\ \A k \in 1..(Len(s) - 1) : Append(Append(b, f), g)[k] = s[k]
           /\ Append(Append(b, f), g)[Len(s)] = f
           /\ Append(Append(b, f), g)[Len(s) + 1] = g
<1> DEFINE b == SubSeq(s, 1, Len(s) - 1)
<1>1. Len(s) \in Nat /\ DOMAIN s = 1..Len(s) /\ \A k \in 1..Len(s) : s[k] \in S
  BY LenProperties, ElementOfSeq
<1>2. /\ b \in Seq(S) /\ Len(b) = Len(s) - 1
      /\ \A k \in 1..(Len(s) - 1) : b[k] = s[k]
  BY <1>1, SubSeqProperties
<1> HIDE DEF b
<1>3. ASSUME NEW r \in Seq(S), NEW n \in Nat, Len(r) = n, NEW e \in S
      PROVE  /\ Append(r, e) \in Seq(S) /\ Len(Append(r, e)) = n + 1
             /\ \A k \in 1..n : Append(r, e)[k] = r[k]
             /\ Append(r, e)[n + 1] = e
  BY <1>3, AppendProperties
<1>4. Len(s) - 1 \in Nat /\ Len(s) - 1 + 1 = Len(s)
  BY <1>1
<1>5. /\ Append(b, f) \in Seq(S) /\ Len(Append(b, f)) = Len(s)
      /\ \A k \in 1..(Len(s) - 1) : Append(b, f)[k] = b[k]
      /\ Append(b, f)[Len(s)] = f
  BY <1>2, <1>3, <1>4
<1> DEFINE c == Append(b, f)
<1> HIDE DEF c
<1>6. /\ Append(c, g) \in Seq(S) /\ Len(Append(c, g)) = Len(s) + 1
      /\ \A k \in 1..Len(s) : Append(c, g)[k] = c[k]
      /\ Append(c, g)[Len(s) + 1] = g
  <2>1. c \in Seq(S) /\ Len(c) = Len(s)
    BY <1>5 DEF c
  <2>2. QED
    BY <1>1, <1>3, <2>1
<1>7. /\ \A k \in 1..(Len(s) - 1) : k \in 1..Len(s)
      /\ Len(s) \in 1..Len(s)
  BY <1>1
<1>8. /\ \A k \in 1..(Len(s) - 1) : Append(c, g)[k] = s[k] /\ c[k] = s[k]
      /\ Append(c, g)[Len(s)] = f
  BY <1>2, <1>5, <1>6, <1>7 DEF c
<1>9. QED
  BY <1>2, <1>5, <1>6, <1>8 DEF b, c

\* The innermost frame.
LEMMA TopFrame ==
    ASSUME PoolType, FrameInv, ShapeInv, NEW t \in Threads
    PROVE  /\ stack[t] \in Seq(Frames) /\ Len(stack[t]) \in Nat /\ Len(stack[t]) >= 1
           /\ \A k \in 1..Len(stack[t]) : stack[t][k] \in Frames /\ FrameOK(stack[t][k])
           /\ Top(t) = stack[t][Len(stack[t])]
           /\ Top(t) \in Frames /\ FrameOK(Top(t))
           /\ \A l : At(t, l) <=> Top(t).at = l
<1>1. stack[t] \in Seq(Frames) /\ Len(stack[t]) \in Nat /\ Len(stack[t]) >= 1
  BY LenProperties DEF PoolType, ShapeInv, ShapeOK
<1>2. \A k \in 1..Len(stack[t]) : stack[t][k] \in Frames /\ FrameOK(stack[t][k])
  BY <1>1, ElementOfSeq DEF FrameInv
<1>3. stack[t] # <<>>
  BY <1>1, EmptySeq
<1>4. QED
  BY <1>1, <1>2, <1>3 DEF Top, At

\* Become(t, f) replaces the innermost frame.
LEMMA BecomeFlow ==
    ASSUME PoolType, FrameInv, ShapeInv, NEW t \in Threads, NEW f \in Frames, Become(t, f)
    PROVE  ReplacedBy(t, f)
<1>1. /\ stack \in [Threads -> Seq(Frames)] /\ stack[t] \in Seq(Frames) /\ Len(stack[t]) >= 1
      /\ stack' = [stack EXCEPT ![t] = Append(SubSeq(stack[t], 1, Len(stack[t]) - 1), f)]
  BY TopFrame DEF PoolType, Become, Below
<1>2. QED
  BY <1>1, StackOps DEF ReplacedBy, Kept, Others

\* CallFrom(t, f, g) replaces the innermost frame and pushes another on it.
LEMMA CallFlow ==
    ASSUME PoolType, FrameInv, ShapeInv, NEW t \in Threads, NEW f \in Frames, NEW g \in Frames,
           CallFrom(t, f, g)
    PROVE  PushedOn(t, f, g)
<1>1. /\ stack \in [Threads -> Seq(Frames)] /\ stack[t] \in Seq(Frames) /\ Len(stack[t]) >= 1
      /\ stack' = [stack EXCEPT ![t] =
                      Append(Append(SubSeq(stack[t], 1, Len(stack[t]) - 1), f), g)]
  BY TopFrame DEF PoolType, CallFrom, Below
<1>2. QED
  BY <1>1, StackOps DEF PushedOn, Kept, Others

\* Return(t) takes the innermost frame off.
LEMMA ReturnFlow ==
    ASSUME PoolType, FrameInv, ShapeInv, NEW t \in Threads, Return(t)
    PROVE  Pops(t)
<1>1. /\ stack \in [Threads -> Seq(Frames)] /\ stack[t] \in Seq(Frames) /\ Len(stack[t]) >= 1
      /\ Top(t) \in Frames
      /\ stack' = [stack EXCEPT ![t] = SubSeq(stack[t], 1, Len(stack[t]) - 1)]
  BY TopFrame DEF PoolType, Return, Below
<1>2. QED
  BY <1>1, StackOps DEF Pops, Kept, Others

\* New frames, and frames that go on at another label.
LEMMA FrameFacts ==
    ASSUME NEW l \in Labels
    PROVE  /\ Frame(l) \in Frames
           /\ Frame(l).at = l /\ Frame(l).job = NoJob /\ Frame(l).left = {}
           /\ Frame(l).from = {} /\ Frame(l).n = 0
           /\ l \notin JobLabels => FrameOK(Frame(l))
  BY DEF Frame, Frames, FrameOK, JobLabels

\* The frames that add() and the run of a job start with.
LEMMA JobFrames ==
    ASSUME NEW j \in Jobs
    PROVE  /\ AddFrame(j) \in Frames /\ FrameOK(AddFrame(j))
           /\ AddFrame(j).at = "submit" /\ AddFrame(j).job = j
           /\ RunFrame(j) \in Frames /\ FrameOK(RunFrame(j))
           /\ RunFrame(j).at = "body" /\ RunFrame(j).job = j /\ RunFrame(j).left = Spawns[j]
<1>1. "submit" \in Labels /\ "body" \in Labels
  BY DEF Labels
<1>2. Spawns[j] \in SUBSET Jobs
  BY ThreadPoolAssumption
<1>3. QED
  BY <1>1, <1>2 DEF AddFrame, RunFrame, Frame, Frames, FrameOK, JobLabels

\* A frame that only moves to another label is a frame, about the same job.
LEMMA Relabel ==
    ASSUME NEW f \in Frames, NEW l \in Labels
    PROVE  LET g == [f EXCEPT !.at = l] IN
           /\ g \in Frames /\ g.at = l /\ g.job = f.job /\ g.left = f.left
           /\ g.from = f.from /\ g.n = f.n /\ g.found = f.found
  BY DEF Frames

\* Labels at which nothing is known of the rest of the frame.
Plain == Labels \ (JobLabels \cup {"look", "scan", "stole"})

\* The control operators on frames that carry no job, in terms of labels.
LEMMA PlainFlow ==
    ASSUME PoolType, FrameInv, ShapeInv, NEW t \in Threads, NEW l \in Plain
    PROVE  /\ Goto(t, l) => Replaces(t, l)
           /\ Become(t, Frame(l)) => Replaces(t, l)
           /\ \A m \in Plain : Call(t, l, Frame(m)) => Pushes(t, l, m)
           /\ \A m \in Plain : CallFrom(t, Frame(l), Frame(m)) => Pushes(t, l, m)
<1> DEFINE r == [Top(t) EXCEPT !.at = l]
<1>1. l \in Labels /\ l \notin JobLabels
  BY DEF Plain
<1>2. r \in Frames /\ r.at = l
  BY <1>1, TopFrame, Relabel
<1> HIDE DEF r
<1>3. FrameOK(r)
  BY <1>2 DEF FrameOK, Plain, JobLabels
<1>4. Goto(t, l) => Replaces(t, l)
  BY <1>2, <1>3, BecomeFlow DEF Goto, Replaces, r
<1>5. Become(t, Frame(l)) => Replaces(t, l)
  BY <1>1, FrameFacts, BecomeFlow DEF Replaces
<1>6. \A m \in Plain : m \in Labels /\ m \notin JobLabels
  BY DEF Plain
<1>7. \A m \in Plain : Frame(m) \in Frames /\ Frame(m).at = m /\ FrameOK(Frame(m))
  BY <1>6, FrameFacts
<1>8. \A m \in Plain : Call(t, l, Frame(m)) => Pushes(t, l, m)
  BY <1>2, <1>3, <1>7, CallFlow DEF Call, Pushes, r
<1>9. \A m \in Plain : CallFrom(t, Frame(l), Frame(m)) => Pushes(t, l, m)
  BY <1>7, CallFlow DEF Pushes
<1>10. QED
  BY <1>4, <1>5, <1>8, <1>9

\* What clients do.
LEMMA ClientFlows ==
    ASSUME PoolType, FrameInv, ShapeInv, NEW t \in Threads
    PROVE  /\ clientWait(t) => Top(t).at = "client" /\ Pushes(t, "client", "waitSubmitted")
           /\ clientWork(t) => Top(t).at = "client" /\ Pushes(t, "client", "work")
           /\ clientExit(t) => Top(t).at = "client" /\ (Replaces(t, "unpublish") \/ Replaces(t, "gone"))
           /\ unpublishThread(t) =>
             \/ Top(t).at = "unpublish" /\ Pushes(t, "unpublishMine", "mine")
             \/ Top(t).at = "unpublishMine" /\ (Replaces(t, "unpublish") \/ Replaces(t, "gone"))
           /\ destroy(t) => Top(t).at = "client" /\ (Replaces(t, "destroyed") \/ Replaces(t, "notifyAll"))
           /\ join(t) => Top(t).at = "join" /\ Replaces(t, "destroyed")
<1>1. clientWait(t) => Top(t).at = "client" /\ Pushes(t, "client", "waitSubmitted")
  BY TopFrame, PlainFlow DEF clientWait, Plain, Labels, JobLabels
<1>2. clientWork(t) => Top(t).at = "client" /\ Pushes(t, "client", "work")
  BY TopFrame, PlainFlow DEF clientWork, Plain, Labels, JobLabels
<1>3. clientExit(t) => Top(t).at = "client" /\ (Replaces(t, "unpublish") \/ Replaces(t, "gone"))
  BY TopFrame, PlainFlow DEF clientExit, Plain, Labels, JobLabels
<1>4. unpublishThread(t) =>
             \/ Top(t).at = "unpublish" /\ Pushes(t, "unpublishMine", "mine")
             \/ Top(t).at = "unpublishMine" /\ (Replaces(t, "unpublish") \/ Replaces(t, "gone"))
  BY TopFrame, PlainFlow DEF unpublishThread, Plain, Labels, JobLabels
<1>5. destroy(t) => Top(t).at = "client" /\ (Replaces(t, "destroyed") \/ Replaces(t, "notifyAll"))
  BY TopFrame, PlainFlow DEF destroy, Plain, Labels, JobLabels
<1>6. join(t) => Top(t).at = "join" /\ Replaces(t, "destroyed")
  BY TopFrame, PlainFlow DEF join, Plain, Labels, JobLabels
<1>7. QED
  BY <1>1, <1>2, <1>3, <1>4, <1>5, <1>6

\* waitForAll and work.
LEMMA WaitFlows ==
    ASSUME PoolType, FrameInv, ShapeInv, NEW t \in Threads
    PROVE  /\ waitSubmitted(t) => Top(t).at = "waitSubmitted" /\ (Replaces(t, "waitExc") \/ Replaces(t, "waitFinished"))
           /\ waitFinished(t) => Top(t).at = "waitFinished" /\ (Replaces(t, "waitExc") \/ Pushes(t, "waitMine", "mine"))
           /\ waitWork(t) =>
             /\ Top(t).at = "waitMine"
             /\ Replaces(t, "waitSubmitted") \/ Pushes(t, "waitSubmitted", "steal")
           /\ waitExc(t) => Top(t).at = "waitExc" /\ (Replaces(t, "rethrow") \/ Replaces(t, "waited"))
           /\ waitReturn(t) => Top(t).at \in {"rethrow", "waited"} /\ Pops(t)
           /\ work(t) =>
             \/ Top(t).at = "work" /\ Pushes(t, "workMine", "mine")
             \/ Top(t).at = "workMine" /\ (Pops(t) \/ Replaces(t, "steal"))
<1>1. waitSubmitted(t) => Top(t).at = "waitSubmitted" /\ (Replaces(t, "waitExc") \/ Replaces(t, "waitFinished"))
  <2> SUFFICES ASSUME waitSubmitted(t)
               PROVE  Top(t).at = "waitSubmitted" /\ (Replaces(t, "waitExc") \/ Replaces(t, "waitFinished"))
    OBVIOUS
  <2> DEFINE f == [Top(t) EXCEPT !.at = "waitFinished", !.n = submitted]
  <2>1. f \in Frames /\ f.at = "waitFinished"
    <3>1. Top(t) \in Frames /\ submitted \in Nat /\ "waitFinished" \in Labels
      BY TopFrame DEF PoolType, Labels
    <3>2. QED
      BY <3>1 DEF Frames
  <2> HIDE DEF f
  <2>2. FrameOK(f)
    BY <2>1 DEF FrameOK, JobLabels
  <2>3. CASE shutdown
    BY <2>3, TopFrame, PlainFlow DEF waitSubmitted, Goto, Plain, Labels, JobLabels
  <2>4. CASE ~shutdown
    BY <2>1, <2>2, <2>4, TopFrame, BecomeFlow DEF waitSubmitted, Replaces, f
  <2>5. QED
    BY <2>3, <2>4
<1>2. waitFinished(t) => Top(t).at = "waitFinished" /\ (Replaces(t, "waitExc") \/ Pushes(t, "waitMine", "mine"))
  BY TopFrame, PlainFlow DEF waitFinished, Plain, Labels, JobLabels
<1>3. waitWork(t) =>
             /\ Top(t).at = "waitMine"
             /\ Replaces(t, "waitSubmitted") \/ Pushes(t, "waitSubmitted", "steal")
  BY TopFrame, PlainFlow DEF waitWork, Plain, Labels, JobLabels
<1>4. waitExc(t) => Top(t).at = "waitExc" /\ (Replaces(t, "rethrow") \/ Replaces(t, "waited"))
  BY TopFrame, PlainFlow DEF waitExc, Plain, Labels, JobLabels
<1>5. waitReturn(t) => Top(t).at \in {"rethrow", "waited"} /\ Pops(t)
  BY TopFrame, ReturnFlow DEF waitReturn
<1>6. work(t) =>
             \/ Top(t).at = "work" /\ Pushes(t, "workMine", "mine")
             \/ Top(t).at = "workMine" /\ (Pops(t) \/ Replaces(t, "steal"))
  BY TopFrame, ReturnFlow, PlainFlow DEF work, Plain, Labels, JobLabels
<1>7. QED
  BY <1>1, <1>2, <1>3, <1>4, <1>5, <1>6

\* runWorker.
LEMMA WorkerFlows ==
    ASSUME PoolType, FrameInv, ShapeInv, NEW t \in Threads
    PROVE  /\ workerStart(t) => Top(t).at = "start" /\ Replaces(t, "loop")
           /\ workerLoop(t) => Top(t).at = "loop" /\ (Replaces(t, "gone") \/ Pushes(t, "workerMine", "mine"))
           /\ workerWork(t) =>
             \/ /\ Top(t).at = "workerMine"
                /\ Replaces(t, "loop") \/ Pushes(t, "workerStole", "steal")
             \/ Top(t).at = "workerStole" /\ Replaces(t, "loop")
           /\ workerSleep(t) => Top(t).at = "workerStole" /\ Replaces(t, "doze")
           /\ workerWait(t) => Top(t).at = "doze" /\ Replaces(t, "sleep")
           /\ workerTimeout(t) => Top(t).at = "sleep" /\ Replaces(t, "wake")
           /\ workerWake(t) => Top(t).at = "wake" /\ Replaces(t, "loop")
<1>1. workerStart(t) => Top(t).at = "start" /\ Replaces(t, "loop")
  BY TopFrame, PlainFlow DEF workerStart, Plain, Labels, JobLabels
<1>2. workerLoop(t) => Top(t).at = "loop" /\ (Replaces(t, "gone") \/ Pushes(t, "workerMine", "mine"))
  BY TopFrame, PlainFlow DEF workerLoop, Plain, Labels, JobLabels
<1>3. workerWork(t) =>
             \/ /\ Top(t).at = "workerMine"
                /\ Replaces(t, "loop") \/ Pushes(t, "workerStole", "steal")
             \/ Top(t).at = "workerStole" /\ Replaces(t, "loop")
  BY TopFrame, PlainFlow DEF workerWork, Plain, Labels, JobLabels
<1>4. workerSleep(t) => Top(t).at = "workerStole" /\ Replaces(t, "doze")
  BY TopFrame, PlainFlow DEF workerSleep, Plain, Labels, JobLabels
<1>5. workerWait(t) => Top(t).at = "doze" /\ Replaces(t, "sleep")
  BY TopFrame, PlainFlow DEF workerWait, Plain, Labels, JobLabels
<1>6. workerTimeout(t) => Top(t).at = "sleep" /\ Replaces(t, "wake")
  BY TopFrame, PlainFlow DEF workerTimeout, Plain, Labels, JobLabels
<1>7. workerWake(t) => Top(t).at = "wake" /\ Replaces(t, "loop")
  BY TopFrame, PlainFlow DEF workerWake, Plain, Labels, JobLabels
<1>8. QED
  BY <1>1, <1>2, <1>3, <1>4, <1>5, <1>6, <1>7

\* Parent jobs.
LEMMA ParentFlows ==
    ASSUME PoolType, FrameInv, ShapeInv, NEW t \in Threads
    PROVE  /\ parentBegin(t) =>
             /\ Top(t).at = "parent"
             /\ IF shutdown THEN UNCHANGED stack ELSE Pushes(t, "parent", "parentLoop")
           /\ runParentWorker(t) =>
             \/ Top(t).at = "parentLoop" /\ Pushes(t, "parentWorked", "work")
             \/ Top(t).at = "parentWorked" /\ Replaces(t, "parentLoop")
           /\ parentEnd(t) => Top(t).at = "parentWorked" /\ Pops(t)
<1>1. parentBegin(t) =>
             /\ Top(t).at = "parent"
             /\ IF shutdown THEN UNCHANGED stack ELSE Pushes(t, "parent", "parentLoop")
  BY TopFrame, PlainFlow DEF parentBegin, Plain, Labels, JobLabels
<1>2. runParentWorker(t) =>
             \/ Top(t).at = "parentLoop" /\ Pushes(t, "parentWorked", "work")
             \/ Top(t).at = "parentWorked" /\ Replaces(t, "parentLoop")
  BY TopFrame, PlainFlow DEF runParentWorker, Plain, Labels, JobLabels
<1>3. parentEnd(t) => Top(t).at = "parentWorked" /\ Pops(t)
  BY TopFrame, ReturnFlow DEF parentEnd
<1>4. QED
  BY <1>1, <1>2, <1>3

\* A frame at label b of the job at hand; a frame at label b that has called g.
ReplacesJob(t, b) ==
    \E f \in Frames : f.at = b /\ f.job = Top(t).job /\ FrameOK(f) /\ ReplacedBy(t, f)
PushesOn(t, b, g) == \E f \in Frames : f.at = b /\ FrameOK(f) /\ PushedOn(t, f, g)

\* add.
LEMMA AddFlows ==
    ASSUME PoolType, FrameInv, ShapeInv, NEW t \in Threads
    PROVE  /\ clientAdd(t) =>
                /\ Top(t).at = "client"
                /\ \E j \in Jobs \ Spawned :
                      /\ job[j] = "new" /\ job' = [job EXCEPT ![j] = "adding"]
                      /\ PushesOn(t, "client", AddFrame(j))
           /\ addSubmit(t) => Top(t).at = "submit" /\ ReplacesJob(t, "push")
           /\ addPush(t) =>
                /\ Top(t).at = "push" /\ Top(t).job \in Jobs
                /\ \/ PushesOn(t, "added", RunFrame(Top(t).job)) /\ queue' = queue
                      /\ job' = [job EXCEPT ![Top(t).job] = "running"]
                   \/ ReplacesJob(t, "notify") /\ Len(queue[t]) < QueueSize
                      /\ queue' = [queue EXCEPT ![t] = Append(queue[t], Top(t).job)]
                      /\ job' = [job EXCEPT ![Top(t).job] = "queued"]
           /\ addReturn(t) => Top(t).at = "added" /\ Pops(t)
           /\ addParent(t) =>
                /\ Top(t).at = "notify"
                /\ IF parentJobs >= maxParentJobs
                   THEN Replaces(t, "parentUndo") ELSE Replaces(t, "parentAdd")
           /\ addParentUndo(t) => Top(t).at = "parentUndo" /\ Pops(t)
           /\ addParentJob(t) =>
                /\ Top(t).at = "parentAdd"
                /\ \/ Pops(t) /\ parentQueue' = parentQueue + 1 /\ strong' = strong
                   \/ Pushes(t, "added", "parentLoop") /\ parentQueue' = parentQueue
                      /\ strong' = strong + 1
<1>0. ASSUME NEW l \in Labels, l \in JobLabels \ {"body", "hasExc", "exc", "claim"},
             Top(t).at \in JobLabels
      PROVE  LET f == [Top(t) EXCEPT !.at = l] IN
             /\ f \in Frames /\ f.at = l /\ f.job = Top(t).job /\ FrameOK(f)
             /\ Top(t).job \in Jobs
  <2>1. Top(t) \in Frames /\ FrameOK(Top(t))
    BY TopFrame
  <2> DEFINE f == [Top(t) EXCEPT !.at = l]
  <2>2. f \in Frames /\ f.at = l /\ f.job = Top(t).job /\ f.left = Top(t).left
    BY <2>1, <1>0, Relabel
  <2> HIDE DEF f
  <2>3. Top(t).job \in Jobs
    BY <2>1, <1>0 DEF FrameOK
  <2>4. FrameOK(f)
    BY <2>2, <2>3, <1>0 DEF FrameOK, JobLabels
  <2>5. QED
    BY <2>2, <2>3, <2>4 DEF f
<1>1. ASSUME clientAdd(t)
      PROVE  /\ Top(t).at = "client"
             /\ \E j \in Jobs \ Spawned :
                      /\ job[j] = "new" /\ job' = [job EXCEPT ![j] = "adding"]
                      /\ PushesOn(t, "client", AddFrame(j))
  <2>1. Top(t).at = "client" /\ Top(t) \in Frames
    BY <1>1, TopFrame DEF clientAdd
  <2> DEFINE f == [Top(t) EXCEPT !.at = "client"]
  <2>2. f \in Frames /\ f.at = "client"
    <3>1. "client" \in Labels
      BY DEF Labels
    <3>2. QED
      BY <2>1, <3>1, Relabel
  <2> HIDE DEF f
  <2>3. FrameOK(f)
    BY <2>2 DEF FrameOK, JobLabels
  <2>4. PICK j \in Jobs \ Spawned :
            job[j] = "new" /\ job' = [job EXCEPT ![j] = "adding"] /\ CallFrom(t, f, AddFrame(j))
    BY <1>1 DEF clientAdd, Progress, Call, f
  <2>5. PushedOn(t, f, AddFrame(j))
    BY <2>2, <2>4, JobFrames, CallFlow
  <2>6. QED
    BY <2>1, <2>2, <2>3, <2>4, <2>5 DEF PushesOn
<1>2. ASSUME addSubmit(t)
      PROVE  Top(t).at = "submit" /\ ReplacesJob(t, "push")
  <2>1. Top(t).at = "submit" /\ Become(t, [Top(t) EXCEPT !.at = "push"])
    BY <1>2, TopFrame DEF addSubmit, Goto
  <2>2. QED
    BY <2>1, <1>0, BecomeFlow DEF ReplacesJob, Labels, JobLabels
<1>3. ASSUME addPush(t)
      PROVE  /\ Top(t).at = "push" /\ Top(t).job \in Jobs
             /\ \/ PushesOn(t, "added", RunFrame(Top(t).job)) /\ queue' = queue
                   /\ job' = [job EXCEPT ![Top(t).job] = "running"]
                \/ ReplacesJob(t, "notify") /\ Len(queue[t]) < QueueSize
                   /\ queue' = [queue EXCEPT ![t] = Append(queue[t], Top(t).job)]
                   /\ job' = [job EXCEPT ![Top(t).job] = "queued"]
  <2>1. Top(t).at = "push"
    BY <1>3, TopFrame DEF addPush
  <2>2. /\ "added" \in Labels /\ "notify" \in Labels /\ "push" \in JobLabels
        /\ "added" \in JobLabels \ {"body", "hasExc", "exc", "claim"}
        /\ "notify" \in JobLabels \ {"body", "hasExc", "exc", "claim"}
    BY DEF Labels, JobLabels
  <2>3. ASSUME CallFrom(t, [Top(t) EXCEPT !.at = "added"], RunFrame(Top(t).job))
        PROVE  PushesOn(t, "added", RunFrame(Top(t).job)) /\ Top(t).job \in Jobs
    <3> DEFINE f == [Top(t) EXCEPT !.at = "added"]
    <3>1. f \in Frames /\ f.at = "added" /\ FrameOK(f) /\ Top(t).job \in Jobs
      BY <1>0, <2>1, <2>2
    <3> HIDE DEF f
    <3>2. PushedOn(t, f, RunFrame(Top(t).job))
      BY <2>3, <3>1, JobFrames, CallFlow DEF f
    <3>3. QED
      BY <3>1, <3>2 DEF PushesOn
  <2>4. ASSUME Become(t, [Top(t) EXCEPT !.at = "notify"])
        PROVE  ReplacesJob(t, "notify") /\ Top(t).job \in Jobs
    BY <2>1, <2>2, <2>4, <1>0, BecomeFlow DEF ReplacesJob
  <2>5. QED
    BY <1>3, <2>1, <2>3, <2>4 DEF addPush, Call, Goto, Progress
<1>4. addReturn(t) => Top(t).at = "added" /\ Pops(t)
  BY TopFrame, ReturnFlow DEF addReturn
<1>5. ASSUME addParent(t)
      PROVE  /\ Top(t).at = "notify"
             /\ IF parentJobs >= maxParentJobs
                THEN Replaces(t, "parentUndo") ELSE Replaces(t, "parentAdd")
  <2>1. Top(t).at = "notify"
    BY <1>5, TopFrame DEF addParent
  <2>2. CASE parentJobs >= maxParentJobs
    <3>1. Become(t, [Top(t) EXCEPT !.at = "parentUndo"])
      BY <1>5, <2>2 DEF addParent, Goto
    <3>2. QED
      BY <2>1, <2>2, <3>1, <1>0, BecomeFlow DEF Replaces, Labels, JobLabels
  <2>3. CASE ~(parentJobs >= maxParentJobs)
    <3>1. Become(t, [Top(t) EXCEPT !.at = "parentAdd"])
      BY <1>5, <2>3 DEF addParent, Goto
    <3>2. QED
      BY <2>1, <2>3, <3>1, <1>0, BecomeFlow DEF Replaces, Labels, JobLabels
  <2>4. QED
    BY <2>2, <2>3
<1>6. addParentUndo(t) => Top(t).at = "parentUndo" /\ Pops(t)
  BY TopFrame, ReturnFlow DEF addParentUndo
<1>7. ASSUME addParentJob(t)
      PROVE  /\ Top(t).at = "parentAdd"
             /\ \/ Pops(t) /\ parentQueue' = parentQueue + 1 /\ strong' = strong
                \/ Pushes(t, "added", "parentLoop") /\ parentQueue' = parentQueue
                   /\ strong' = strong + 1
  <2>1. Top(t).at = "parentAdd"
    BY <1>7, TopFrame DEF addParentJob
  <2>2. ASSUME CallFrom(t, [Top(t) EXCEPT !.at = "added"], Frame("parentLoop"))
        PROVE  Pushes(t, "added", "parentLoop")
    <3> DEFINE f == [Top(t) EXCEPT !.at = "added"]
               g == Frame("parentLoop")
    <3>1. /\ "added" \in Labels /\ "parentAdd" \in JobLabels
          /\ "added" \in JobLabels \ {"body", "hasExc", "exc", "claim"}
          /\ "parentLoop" \in Labels /\ "parentLoop" \notin JobLabels
          /\ "parentLoop" \notin {"look", "scan", "claim", "stole"}
      BY DEF Labels, JobLabels
    <3>2. f \in Frames /\ f.at = "added" /\ FrameOK(f)
      BY <1>0, <2>1, <3>1
    <3>3. g \in Frames /\ g.at = "parentLoop" /\ FrameOK(g)
      BY <3>1, FrameFacts
    <3>4. PushedOn(t, f, g)
      <4> HIDE DEF f, g
      <4>1. QED
        BY <2>2, <3>2, <3>3, CallFlow DEF f, g
    <3> HIDE DEF f, g
    <3>5. QED
      BY <3>2, <3>3, <3>4 DEF Pushes
  <2>3. QED
    BY <1>7, <2>1, <2>2, ReturnFlow DEF addParentJob, Call
<1>8. QED
  BY <1>1, <1>2, <1>3, <1>4, <1>5, <1>6, <1>7

\* runJob and handleException.
LEMMA RunFlows ==
    ASSUME PoolType, FrameInv, ShapeInv, NEW t \in Threads
    PROVE  /\ bodyAdd(t) =>
                /\ Top(t).at = "body" /\ Top(t).job \in Jobs
                /\ \E j \in Top(t).left, f \in Frames :
                      /\ j \in Spawns[Top(t).job] /\ job' = [job EXCEPT ![j] = "adding"]
                      /\ f.at = "body" /\ f.job = Top(t).job /\ f.left = Top(t).left \ {j}
                      /\ FrameOK(f) /\ PushedOn(t, f, AddFrame(j))
           /\ bodyEnd(t) => Top(t).at = "body" /\ Top(t).job \in Jobs /\ ReplacesJob(t, "finish")
           /\ jobFinish(t) =>
                /\ Top(t).at = "finish" /\ Top(t).job \in Jobs
                /\ IF Top(t).job \in Throws THEN ReplacesJob(t, "hasExc") ELSE Pops(t)
           /\ handleException(t) =>
                \/ /\ Top(t).at = "hasExc"
                   /\ IF hasExc = 0 THEN ReplacesJob(t, "exc") ELSE Pops(t)
                \/ Top(t).at = "exc" /\ Top(t).job \in Jobs /\ Pops(t)
<1>1. Top(t) \in Frames /\ FrameOK(Top(t)) /\ \A l : At(t, l) <=> Top(t).at = l
  BY TopFrame
<1>2. ASSUME bodyAdd(t)
      PROVE  /\ Top(t).at = "body" /\ Top(t).job \in Jobs
             /\ \E j \in Top(t).left, f \in Frames :
                      /\ j \in Spawns[Top(t).job] /\ job' = [job EXCEPT ![j] = "adding"]
                      /\ f.at = "body" /\ f.job = Top(t).job /\ f.left = Top(t).left \ {j}
                      /\ FrameOK(f) /\ PushedOn(t, f, AddFrame(j))
  <2>1. Top(t).at = "body" /\ Top(t).job \in Jobs /\ Top(t).left \subseteq Spawns[Top(t).job]
    BY <1>1, <1>2 DEF bodyAdd, FrameOK, JobLabels
  <2>2. PICK j \in Top(t).left :
            /\ job' = [job EXCEPT ![j] = "adding"]
            /\ CallFrom(t, [Top(t) EXCEPT !.left = @ \ {j}], AddFrame(j))
    BY <1>2 DEF bodyAdd, Progress
  <2>3. j \in Spawns[Top(t).job] /\ j \in Jobs
    BY <2>1, ThreadPoolAssumption
  <2> DEFINE f == [Top(t) EXCEPT !.left = @ \ {j}]
  <2>4. /\ f \in Frames /\ f.at = "body" /\ f.job = Top(t).job /\ f.left = Top(t).left \ {j}
    BY <1>1, <2>1 DEF Frames
  <2>5. CallFrom(t, f, AddFrame(j))
    BY <2>2
  <2> HIDE DEF f
  <2>6. FrameOK(f)
    BY <2>1, <2>4 DEF FrameOK
  <2>7. PushedOn(t, f, AddFrame(j))
    BY <2>3, <2>4, <2>5, JobFrames, CallFlow
  <2>8. QED
    BY <2>1, <2>2, <2>3, <2>4, <2>6, <2>7
<1>3. ASSUME bodyEnd(t)
      PROVE  Top(t).at = "body" /\ Top(t).job \in Jobs /\ ReplacesJob(t, "finish")
  <2>1. Top(t).at = "body" /\ Top(t).job \in Jobs
    BY <1>1, <1>3 DEF bodyEnd, FrameOK, JobLabels
  <2> DEFINE f == [Top(t) EXCEPT !.at = "finish"]
  <2>2. f \in Frames /\ f.at = "finish" /\ f.job = Top(t).job /\ Become(t, f)
    <3>1. "finish" \in Labels
      BY DEF Labels
    <3>2. Become(t, f)
      BY <1>1, <1>3 DEF bodyEnd, Goto
    <3>3. QED
      BY <1>1, <3>1, <3>2, Relabel
  <2> HIDE DEF f
  <2>3. FrameOK(f)
    BY <2>1, <2>2 DEF FrameOK
  <2>4. QED
    BY <2>1, <2>2, <2>3, BecomeFlow DEF ReplacesJob
<1>4. ASSUME jobFinish(t)
      PROVE  /\ Top(t).at = "finish" /\ Top(t).job \in Jobs
             /\ IF Top(t).job \in Throws THEN ReplacesJob(t, "hasExc") ELSE Pops(t)
  <2>1. Top(t).at = "finish" /\ Top(t).job \in Jobs
    BY <1>1, <1>4 DEF jobFinish, FrameOK, JobLabels
  <2>2. CASE Top(t).job \in Throws
    <3> DEFINE f == [Top(t) EXCEPT !.at = "hasExc"]
    <3>1. f \in Frames /\ f.at = "hasExc" /\ f.job = Top(t).job /\ Become(t, f)
      <4>1. "hasExc" \in Labels
        BY DEF Labels
      <4>2. Become(t, f)
        BY <1>1, <1>4, <2>2 DEF jobFinish, Goto
      <4>3. QED
        BY <1>1, <4>1, <4>2, Relabel
    <3> HIDE DEF f
    <3>2. FrameOK(f)
      BY <2>1, <2>2, <3>1 DEF FrameOK
    <3>3. QED
      BY <2>1, <2>2, <3>1, <3>2, BecomeFlow DEF ReplacesJob
  <2>3. CASE Top(t).job \notin Throws
    BY <1>4, <2>1, <2>3, ReturnFlow DEF jobFinish
  <2>4. QED
    BY <2>2, <2>3
<1>5. ASSUME handleException(t)
      PROVE  \/ /\ Top(t).at = "hasExc"
                /\ IF hasExc = 0 THEN ReplacesJob(t, "exc") ELSE Pops(t)
             \/ Top(t).at = "exc" /\ Top(t).job \in Jobs /\ Pops(t)
  <2>1. CASE At(t, "hasExc") /\ hasExc = 0
    <3> DEFINE f == [Top(t) EXCEPT !.at = "exc"]
    <3>1. f \in Frames /\ f.at = "exc" /\ f.job = Top(t).job /\ Become(t, f)
      <4>1. "exc" \in Labels
        BY DEF Labels
      <4>2. Become(t, f)
        BY <1>1, <1>5, <2>1 DEF handleException, Goto
      <4>3. QED
        BY <1>1, <4>1, <4>2, Relabel
    <3>2. Top(t).job \in Jobs /\ Top(t).job \in Throws
      BY <1>1, <2>1 DEF FrameOK, JobLabels
    <3> HIDE DEF f
    <3>3. FrameOK(f)
      BY <3>1, <3>2 DEF FrameOK
    <3>4. QED
      BY <1>1, <2>1, <3>1, <3>3, BecomeFlow DEF ReplacesJob
  <2>2. CASE At(t, "hasExc") /\ hasExc # 0
    BY <1>1, <1>5, <2>2, ReturnFlow DEF handleException
  <2>3. CASE At(t, "exc")
    BY <1>1, <1>5, <2>3, ReturnFlow DEF handleException, FrameOK, JobLabels
  <2>4. QED
    BY <1>5, <2>1, <2>2, <2>3 DEF handleException
<1>6. QED
  BY <1>2, <1>3, <1>4, <1>5

\* runMine and stealWork.
LEMMA StealFlows ==
    ASSUME PoolType, FrameInv, ShapeInv, NEW t \in Threads
    PROVE  /\ runMine(t) =>
                /\ Top(t).at = "mine"
                /\ IF queue[t] = <<>> THEN Pops(t)
                   ELSE LET j == queue[t][Len(queue[t])]
                        IN  j \in Jobs /\ PushesOn(t, "mine", RunFrame(j))
           /\ stealRefresh(t) => Top(t).at = "steal" /\ Replaces(t, "look")
           /\ stealNext(t) => Top(t).at = "scan" /\ (Pops(t) \/ Replaces(t, "look"))
           /\ stealLook(t) => Top(t).at = "look" /\ (Replaces(t, "scan") \/ Replaces(t, "claim"))
           /\ stealClaim(t) =>
                /\ Top(t).at = "claim"
                /\ \/ Replaces(t, "scan") /\ UNCHANGED <<queue, job>>
                   \/ \E q \in Threads :
                         LET j == Top(t).job
                         IN  /\ j \in Jobs /\ queue[q] # <<>> /\ Head(queue[q]) = j
                             /\ queue' = [queue EXCEPT ![q] = Tail(@)]
                             /\ job' = [job EXCEPT ![j] = "running"]
                             /\ PushesOn(t, "stole", RunFrame(j))
           /\ stealMine(t) => Top(t).at = "stole" /\ Pushes(t, "look", "mine")
<1>1. Top(t) \in Frames /\ FrameOK(Top(t)) /\ \A l : At(t, l) <=> Top(t).at = l
  BY TopFrame
<1>2. \A l \in {"mine", "look", "scan", "claim", "stole"} : l \in Labels
  BY DEF Labels
<1>3. Top(t).from \subseteq Threads /\ Top(t).left \subseteq Jobs \cup Threads
  BY <1>1 DEF Frames
<1>4. ASSUME runMine(t)
      PROVE  /\ Top(t).at = "mine"
             /\ IF queue[t] = <<>> THEN Pops(t)
                ELSE LET j == queue[t][Len(queue[t])]
                     IN  j \in Jobs /\ PushesOn(t, "mine", RunFrame(j))
  <2>1. CASE queue[t] = <<>>
    BY <1>1, <1>4, <2>1, ReturnFlow DEF runMine, ReturnValue
  <2>2. CASE queue[t] # <<>>
    <3> DEFINE j == queue[t][Len(queue[t])]
               f == [Top(t) EXCEPT !.found = TRUE]
    <3>1. queue[t] \in Seq(Jobs) /\ Len(queue[t]) \in 1..Len(queue[t])
      <4>1. queue[t] \in Seq(Jobs)
        BY DEF PoolType
      <4>2. QED
        BY <2>2, <4>1, EmptySeq, LenProperties
    <3>2. j \in Jobs
      BY <3>1, ElementOfSeq
    <3>3. f \in Frames /\ f.at = "mine" /\ CallFrom(t, f, RunFrame(j))
      BY <1>1, <1>4, <2>2 DEF runMine, Frames
    <3> HIDE DEF f, j
    <3>4. FrameOK(f)
      BY <3>3 DEF FrameOK, JobLabels
    <3>5. PushesOn(t, "mine", RunFrame(j))
      BY <3>2, <3>3, <3>4, JobFrames, CallFlow DEF PushesOn
    <3>6. QED
      BY <1>1, <1>4, <2>2, <3>2, <3>5 DEF runMine, j
  <2>3. QED
    BY <2>1, <2>2
<1>5. ASSUME NEW f \in Frames, f.at \in {"look", "scan", "claim"}, f.left \subseteq Threads,
             f.at = "claim" => f.job \in Jobs, Become(t, f)
      PROVE  Replaces(t, f.at)
  <2>1. FrameOK(f)
    BY <1>5 DEF FrameOK, JobLabels
  <2>2. QED
    BY <1>5, <2>1, BecomeFlow DEF Replaces
<1>6. ASSUME stealRefresh(t)
      PROVE  Top(t).at = "steal" /\ Replaces(t, "look")
  <2>1. PICK list \in SUBSET Threads : \E last \in {{}} \cup {{q} : q \in list \ {t}} :
            Become(t, [Top(t) EXCEPT !.at = "look", !.from = last, !.left = list])
    <3>1. queues \in SUBSET Threads /\ known[t] \in SUBSET Threads
      BY DEF PoolType
    <3>2. QED
      BY <1>6, <3>1 DEF stealRefresh
  <2>2. PICK last \in SUBSET Threads :
            Become(t, [Top(t) EXCEPT !.at = "look", !.from = last, !.left = list])
    BY <2>1
  <2> DEFINE f == [Top(t) EXCEPT !.at = "look", !.from = last, !.left = list]
  <2>3. f \in Frames /\ f.at = "look" /\ f.left = list
    BY <1>1, <1>2 DEF Frames
  <2>4. Become(t, f)
    BY <2>2
  <2> HIDE DEF f
  <2>5. Replaces(t, "look")
    BY <1>5, <2>3, <2>4
  <2>6. QED
    BY <1>1, <1>6, <2>5 DEF stealRefresh
<1>7. ASSUME stealNext(t)
      PROVE  Top(t).at = "scan" /\ (Pops(t) \/ Replaces(t, "look"))
  <2>1. Top(t).at = "scan" /\ Top(t).left \subseteq Threads /\ Top(t).job \in Jobs \cup {NoJob}
    BY <1>1, <1>7 DEF stealNext, FrameOK, Frames
  <2>2. CASE Top(t).left = {} \/ shutdown
    BY <1>7, <2>1, <2>2, ReturnFlow DEF stealNext, ReturnValue
  <2>3. CASE ~(Top(t).left = {} \/ shutdown)
    <3>1. PICK q \in Top(t).left :
              Become(t, [Top(t) EXCEPT !.at = "look", !.left = @ \ {q}, !.from = {q}])
      BY <1>7, <2>3 DEF stealNext
    <3> DEFINE f == [Top(t) EXCEPT !.at = "look", !.left = @ \ {q}, !.from = {q}]
    <3>2. f \in Frames /\ f.at = "look" /\ f.left = Top(t).left \ {q}
      BY <1>1, <1>2, <2>1 DEF Frames
    <3>3. Become(t, f)
      BY <3>1
    <3> HIDE DEF f
    <3>4. Replaces(t, "look")
      BY <1>5, <2>1, <3>2, <3>3
    <3>5. QED
      BY <2>1, <3>4
  <2>4. QED
    BY <2>2, <2>3
<1>8. ASSUME stealLook(t)
      PROVE  Top(t).at = "look" /\ (Replaces(t, "scan") \/ Replaces(t, "claim"))
  <2>1. Top(t).at = "look" /\ Top(t).left \subseteq Threads /\ Top(t).job \in Jobs \cup {NoJob}
    BY <1>1, <1>8 DEF stealLook, FrameOK, Frames
  <2>2. CASE {q \in Top(t).from : queue[q] # <<>>} = {}
    <3>1. Become(t, [Top(t) EXCEPT !.at = "scan", !.from = {}])
      BY <1>8, <2>2 DEF stealLook
    <3> DEFINE f == [Top(t) EXCEPT !.at = "scan", !.from = {}]
    <3>2. f \in Frames /\ f.at = "scan" /\ f.left = Top(t).left
      BY <1>1, <1>2 DEF Frames
    <3>3. Become(t, f)
      BY <3>1
    <3> HIDE DEF f
    <3>4. Replaces(t, "scan")
      BY <1>5, <2>1, <3>2, <3>3
    <3>5. QED
      BY <2>1, <3>4
  <2>3. CASE {q \in Top(t).from : queue[q] # <<>>} # {}
    <3>1. PICK q \in Top(t).from : /\ queue[q] # <<>>
              /\ Become(t, [Top(t) EXCEPT !.at = "claim", !.job = Head(queue[q])])
      BY <1>8, <2>3 DEF stealLook
    <3>2. Head(queue[q]) \in Jobs
      <4>1. queue[q] \in Seq(Jobs)
        BY <1>3 DEF PoolType
      <4>2. QED
        BY <3>1, <4>1, HeadTailProperties
    <3> DEFINE f == [Top(t) EXCEPT !.at = "claim", !.job = Head(queue[q])]
    <3>3. f \in Frames /\ f.at = "claim" /\ f.left = Top(t).left /\ f.job \in Jobs
      BY <1>1, <1>2, <3>2 DEF Frames
    <3>4. Become(t, f)
      BY <3>1
    <3> HIDE DEF f
    <3>5. Replaces(t, "claim")
      BY <1>5, <2>1, <3>3, <3>4
    <3>6. QED
      BY <2>1, <3>5
  <2>4. QED
    BY <2>2, <2>3
<1>9. ASSUME stealClaim(t)
      PROVE  /\ Top(t).at = "claim"
             /\ \/ Replaces(t, "scan") /\ UNCHANGED <<queue, job>>
                \/ \E q \in Threads :
                      LET j == Top(t).job
                      IN  /\ j \in Jobs /\ queue[q] # <<>> /\ Head(queue[q]) = j
                          /\ queue' = [queue EXCEPT ![q] = Tail(@)]
                          /\ job' = [job EXCEPT ![j] = "running"]
                          /\ PushesOn(t, "stole", RunFrame(j))
  <2>1. Top(t).at = "claim" /\ Top(t).left \subseteq Threads /\ Top(t).job \in Jobs
    BY <1>1, <1>9 DEF stealClaim, FrameOK, JobLabels
  <2> DEFINE j == Top(t).job
             r == [Top(t) EXCEPT !.at = "stole", !.found = TRUE, !.job = NoJob]
             b == [Top(t) EXCEPT !.at = "scan", !.job = NoJob, !.from = {}]
  <2>2. PICK q \in Top(t).from :
            \/ /\ queue[q] # <<>> /\ Head(queue[q]) = j
               /\ queue' = [queue EXCEPT ![q] = Tail(@)]
               /\ job' = [job EXCEPT ![j] = "running"]
               /\ CallFrom(t, r, RunFrame(j))
            \/ Become(t, b) /\ UNCHANGED <<queue, job>>
    BY <1>9 DEF stealClaim, Progress
  <2>3. r \in Frames /\ r.at = "stole" /\ r.left = Top(t).left
    BY <1>1, <1>2 DEF Frames
  <2>4. b \in Frames /\ b.at = "scan" /\ b.left = Top(t).left
    BY <1>1, <1>2 DEF Frames
  <2>5. q \in Threads
    BY <1>3
  <2> HIDE DEF r, b
  <2>6. Become(t, b) => Replaces(t, "scan")
    BY <1>5, <2>1, <2>4
  <2>7. FrameOK(r)
    BY <2>1, <2>3 DEF FrameOK, JobLabels
  <2>8. CallFrom(t, r, RunFrame(j)) => PushesOn(t, "stole", RunFrame(j))
    BY <2>1, <2>3, <2>7, JobFrames, CallFlow DEF PushesOn
  <2>9. QED
    BY <2>1, <2>2, <2>5, <2>6, <2>8
<1>10. ASSUME stealMine(t)
       PROVE  Top(t).at = "stole" /\ Pushes(t, "look", "mine")
  <2>1. Top(t).at = "stole" /\ Top(t).left \subseteq Threads /\ Top(t).job \in Jobs \cup {NoJob}
    BY <1>1, <1>10 DEF stealMine, FrameOK, Frames
  <2> DEFINE f == [Top(t) EXCEPT !.at = "look"]
  <2>2. f \in Frames /\ f.at = "look" /\ f.left = Top(t).left
    BY <1>1, <1>2, Relabel
  <2>3. CallFrom(t, f, Frame("mine"))
    BY <1>10 DEF stealMine, Call
  <2> HIDE DEF f
  <2>4. FrameOK(f)
    BY <2>1, <2>2 DEF FrameOK, JobLabels
  <2>5. "mine" \in Labels /\ "mine" \notin JobLabels
    BY <1>2 DEF JobLabels
  <2>6. QED
    BY <2>1, <2>2, <2>3, <2>4, <2>5, FrameFacts, CallFlow DEF Pushes
<1>11. QED
  BY <1>4, <1>6, <1>7, <1>8, <1>9, <1>10

\* A frame that works for nobody is the only one of its thread.
LEMMA BaseFrame ==
    ASSUME PoolType, FrameInv, ShapeInv, NEW t \in Threads
    PROVE  /\ Top(t).at \in Bases => Len(stack[t]) = 1
           /\ Top(t).at \notin Bases => Len(stack[t]) >= 2
           /\ Top(t).at \in BaseOf(t) \/ Top(t).at \notin Bases
<1>1. /\ Len(stack[t]) \in Nat /\ Len(stack[t]) >= 1 /\ Top(t) = stack[t][Len(stack[t])]
  BY TopFrame
<1>2. ShapeOK(t, stack[t])
  BY DEF ShapeInv
<1>3. BaseOf(t) \subseteq Bases
  BY DEF BaseOf, Bases
<1>4. Len(stack[t]) = 1 \/ Len(stack[t]) \in 2..Len(stack[t])
  <2>1. \A x \in Nat : x >= 1 => x = 1 \/ x \in 2..x
    OBVIOUS
  <2>2. QED
    BY <1>1, <2>1
<1>5. /\ stack[t][1].at \in BaseOf(t)
      /\ \A k \in 2..Len(stack[t]) : stack[t][k].at \notin Bases
  BY <1>2 DEF ShapeOK
<1>6. QED
  BY <1>1, <1>3, <1>4, <1>5

\* addNotify returns, and may wake w.
Wakes(t, w) ==
    /\ w # t /\ Top(w).at = "sleep" /\ Len(stack[w]) = 1
    /\ stack' \in [Threads -> Seq(Frames)]
    /\ Len(stack'[w]) = 1 /\ stack'[w][1] = Frame("wake")
    /\ Len(stack'[t]) = Len(stack[t]) - 1 /\ Kept(t)
    /\ \A u \in Threads \ {t, w} : stack'[u] = stack[u]

\* notifyAll wakes whoever sleeps.
WakesAll(t) ==
    /\ stack' \in [Threads -> Seq(Frames)]
    /\ Len(stack[t]) = 1 /\ Len(stack'[t]) = 1 /\ stack'[t][1] = Frame("join")
    /\ \A u \in Threads \ {t} :
          \/ /\ Top(u).at = "sleep" /\ Len(stack[u]) = 1
             /\ Len(stack'[u]) = 1 /\ stack'[u][1] = Frame("wake")
          \/ Top(u).at # "sleep" /\ stack'[u] = stack[u]

\* The two wake-ups are the steps that change the stack of another thread: that of a
\* worker that sleeps.
LEMMA NotifyFlows ==
    ASSUME PoolType, FrameInv, ShapeInv, NEW t \in Threads
    PROVE  /\ addNotify(t) => /\ Top(t).at = "notify"
                              /\ Pops(t) \/ \E w \in Workers : Wakes(t, w)
           /\ notifyAll(t) => Top(t).at = "notifyAll" /\ WakesAll(t)
<1>1. \A u \in Threads : /\ stack[u] \in Seq(Frames) /\ Len(stack[u]) >= 1
                         /\ \A l : At(u, l) <=> Top(u).at = l
  BY TopFrame
<1>2. \A u \in Threads : Top(u).at \in {"sleep", "notifyAll"} => Len(stack[u]) = 1
  BY BaseFrame DEF Bases, ClientLabels, WorkerLabels
<1>3. /\ Frame("wake") \in Frames /\ Frame("join") \in Frames
      /\ stack \in [Threads -> Seq(Frames)]
  BY FrameFacts DEF Labels, PoolType
<1>4. ASSUME addNotify(t)
      PROVE  /\ Top(t).at = "notify"
             /\ Pops(t) \/ \E w \in Workers : Wakes(t, w)
  <2>1. Top(t).at = "notify"
    BY <1>1, <1>4 DEF addNotify
  <2>2. CASE Return(t)
    BY <2>1, <2>2, ReturnFlow
  <2>3. ASSUME NEW w \in Workers, At(w, "sleep"),
               stack' = [stack EXCEPT ![w] = Append(Below(w), Frame("wake")), ![t] = Below(t)]
        PROVE  Wakes(t, w)
    <3>1. w \in Threads /\ Top(w).at = "sleep" /\ w # t /\ Len(stack[w]) = 1
      BY <1>1, <1>2, <2>1, <2>3 DEF Threads
    <3>2. /\ Below(t) \in Seq(Frames) /\ Len(Below(t)) = Len(stack[t]) - 1
          /\ \A k \in 1..(Len(stack[t]) - 1) : Below(t)[k] = stack[t][k]
      BY <1>1, <1>3, StackOps DEF Below
    <3>3. LET s == Append(Below(w), Frame("wake")) IN
          s \in Seq(Frames) /\ Len(s) = 1 /\ s[1] = Frame("wake")
      <4>1. Append(Below(w), Frame("wake")) \in Seq(Frames)
        BY <1>1, <1>3, <3>1, StackOps DEF Below
      <4>2. Len(Append(Below(w), Frame("wake"))) = Len(stack[w])
        BY <1>1, <1>3, <3>1, StackOps DEF Below
      <4>3. Append(Below(w), Frame("wake"))[Len(stack[w])] = Frame("wake")
        BY <1>1, <1>3, <3>1, StackOps DEF Below
      <4>4. QED
        BY <3>1, <4>1, <4>2, <4>3
    <3>4. QED
      BY <1>3, <2>3, <3>1, <3>2, <3>3 DEF Wakes, Kept
  <2>4. QED
    BY <1>4, <2>1, <2>2, <2>3 DEF addNotify
<1>5. ASSUME notifyAll(t)
      PROVE  Top(t).at = "notifyAll" /\ WakesAll(t)
  <2>1. Top(t).at = "notifyAll" /\ Len(stack[t]) = 1
    BY <1>1, <1>2, <1>5 DEF notifyAll
  <2>2. \A f \in Frames : <<f>> \in Seq(Frames) /\ Len(<<f>>) = 1 /\ <<f>>[1] = f
    OBVIOUS
  <2>3. stack' = [u \in Threads |->
                   IF u = t THEN <<Frame("join")>>
                   ELSE IF At(u, "sleep") THEN <<Frame("wake")>> ELSE stack[u]]
    BY <1>5 DEF notifyAll
  <2>4. QED
    BY <1>1, <1>2, <1>3, <2>1, <2>2, <2>3 DEF WakesAll
<1>6. QED
  BY <1>4, <1>5

-----------------------------------------------------------------------------
(* Every step keeps the shape of the stacks.                               *)

\* A label that may take the place of another.
MayFollow(t, a, b) ==
    /\ a \in Bases <=> b \in Bases
    /\ b \in Bases => b \in BaseOf(t)
    /\ b \in WaitLabels => a \in WaitLabels
    /\ a = "mine" => b = "mine"

\* A frame at label b that may call one at label c.
MayBeBelow(b, c) ==
    /\ b \in Calling /\ c \notin Bases
    /\ c \in WaitLabels => b = "client"
    /\ b = "unpublishMine" => c = "mine"

StructOK == stack \in [Threads -> Seq(Frames)] /\ FrameInv /\ ShapeInv

\* Moving the innermost frame to a label that may follow its own keeps the shape of
\* every stack.
LEMMA ReplaceShape ==
    ASSUME PoolType, FrameInv, ShapeInv, NEW t \in Threads, NEW b,
           Replaces(t, b), MayFollow(t, Top(t).at, b)
    PROVE  StructOK'
<1>1. PICK f \in Frames : f.at = b /\ FrameOK(f) /\ ReplacedBy(t, f)
  BY DEF Replaces
<1> DEFINE s == stack[t]
           r == stack'[t]
           n == Len(s)
<1>2. /\ n \in Nat /\ n >= 1 /\ Len(r) = n
      /\ r[n] = f /\ \A k \in 1..(n - 1) : r[k] = s[k]
      /\ stack' \in [Threads -> Seq(Frames)]
      /\ \A u \in Threads \ {t} : stack'[u] = stack[u]
      /\ Top(t) = s[n]
  BY <1>1, TopFrame DEF ReplacedBy, Kept, Others
<1>3. ShapeOK(t, s) /\ \A k \in 1..n : FrameOK(s[k])
  BY DEF ShapeInv, FrameInv
<1> HIDE DEF s, r, n
<1>4. \A k \in 1..n : k \in 1..(n - 1) \/ k = n
  BY <1>2
<1>5. \A k \in 1..n : FrameOK(r[k])
  BY <1>1, <1>2, <1>3, <1>4
<1>6. ShapeOK(t, r)
  <2>1. CASE n = 1
    <3>1. s[1].at \in Bases
      BY <1>3 DEF ShapeOK, BaseOf, Bases
    <3>2. r[1].at \in BaseOf(t)
      BY <1>1, <1>2, <2>1, <3>1 DEF MayFollow
    <3>3. QED
      BY <1>2, <2>1, <3>2 DEF ShapeOK
  <2>2. CASE n >= 2
    <3>1. r[1] = s[1] /\ 1 \in 1..(n - 1) /\ n \in 2..n
      BY <1>2, <2>2
    <3>2. s[n].at \notin Bases /\ r[n].at \notin Bases
      BY <1>1, <1>2, <1>3, <3>1 DEF ShapeOK, MayFollow, n
    <3>3. \A k \in 2..n : r[k].at \notin Bases
      BY <1>2, <1>3, <1>4, <3>2 DEF ShapeOK, n
    <3>4. \A k \in 1..(n - 1) : r[k].at \in Calling
      BY <1>2, <1>3 DEF ShapeOK, n
    <3>5. \A k \in 2..n : r[k].at \in WaitLabels => k = 2 /\ r[1].at = "client"
      <4>1. \A k \in 2..n : s[k].at \in WaitLabels => k = 2 /\ s[1].at = "client"
        BY <1>3 DEF ShapeOK, n
      <4>2. r[n].at \in WaitLabels => s[n].at \in WaitLabels
        BY <1>1, <1>2, <3>1, <3>2 DEF MayFollow
      <4>3. QED
        BY <1>2, <1>4, <3>1, <4>1, <4>2
    <3>6. r[1].at = "unpublishMine" => r[2].at = "mine"
      <4>1. s[1].at = "unpublishMine" => s[2].at = "mine"
        BY <1>3, <2>2 DEF ShapeOK, n
      <4>2. CASE n = 2
        <5>1. s[2].at = "mine" => b = "mine"
          BY <1>2, <4>2 DEF MayFollow
        <5>2. r[2].at = b
          BY <1>1, <1>2, <4>2
        <5>3. QED
          BY <3>1, <4>1, <5>1, <5>2
      <4>3. CASE n > 2
        <5>1. 2 \in 1..(n - 1)
          BY <1>2, <4>3
        <5>2. r[2] = s[2]
          BY <1>2, <5>1
        <5>3. QED
          BY <3>1, <4>1, <5>2
      <4>4. QED
        BY <1>2, <2>2, <4>2, <4>3
    <3>7. QED
      BY <1>2, <1>3, <2>2, <3>1, <3>3, <3>4, <3>5, <3>6 DEF ShapeOK, n
  <2>3. QED
    BY <1>2, <2>1, <2>2
<1>7. QED
  BY <1>2, <1>5, <1>6 DEF StructOK, FrameInv, ShapeInv, r

\* So does a call from a label that may be below the one called.
LEMMA PushShape ==
    ASSUME PoolType, FrameInv, ShapeInv, NEW t \in Threads, NEW b, NEW c,
           Pushes(t, b, c), MayFollow(t, Top(t).at, b), MayBeBelow(b, c)
    PROVE  StructOK'
<1>1. PICK f, g \in Frames : /\ f.at = b /\ g.at = c
                             /\ FrameOK(f) /\ FrameOK(g) /\ PushedOn(t, f, g)
  BY DEF Pushes
<1> DEFINE s == stack[t]
           r == stack'[t]
           n == Len(s)
<1>2. /\ n \in Nat /\ n >= 1 /\ Len(r) = n + 1
      /\ r[n] = f /\ r[n + 1] = g /\ \A k \in 1..(n - 1) : r[k] = s[k]
      /\ stack' \in [Threads -> Seq(Frames)]
      /\ \A u \in Threads \ {t} : stack'[u] = stack[u]
      /\ Top(t) = s[n]
  BY <1>1, TopFrame DEF PushedOn, Kept, Others
<1>3. ShapeOK(t, s) /\ \A k \in 1..n : FrameOK(s[k])
  BY DEF ShapeInv, FrameInv
<1> HIDE DEF s, r, n
<1>4. \A k \in 1..(n + 1) : k \in 1..(n - 1) \/ k = n \/ k = n + 1
  BY <1>2
<1>5. \A k \in 1..(n + 1) : FrameOK(r[k])
  BY <1>1, <1>2, <1>3, <1>4
<1>6. ShapeOK(t, r)
  <2>1. CASE n = 1
    <3>1. s[1].at \in Bases
      BY <1>3 DEF ShapeOK, BaseOf, Bases
    <3>2. r[1].at \in BaseOf(t) /\ r[1].at = b /\ r[2].at = c
      BY <1>1, <1>2, <2>1, <3>1 DEF MayFollow
    <3>3. \A k \in 2..Len(r) : k = 2
      BY <1>2, <2>1
    <3>4. \A k \in 1..(Len(r) - 1) : k = 1
      BY <1>2, <2>1
    <3>5. Len(r) \in Nat /\ Len(r) >= 1
      BY <1>2
    <3>6. QED
      BY <3>2, <3>3, <3>4, <3>5 DEF ShapeOK, MayBeBelow
  <2>2. CASE n >= 2
    <3>1. r[1] = s[1] /\ 1 \in 1..(n - 1) /\ n \in 2..n
      BY <1>2, <2>2
    <3>2. s[n].at \notin Bases /\ r[n].at \notin Bases /\ r[n + 1].at \notin Bases
      BY <1>1, <1>2, <1>3, <3>1 DEF ShapeOK, MayFollow, MayBeBelow, n
    <3>3. \A k \in 2..(n + 1) : r[k].at \notin Bases
      BY <1>2, <1>3, <1>4, <3>2 DEF ShapeOK, n
    <3>4. \A k \in 1..n : r[k].at \in Calling
      BY <1>1, <1>2, <1>3, <1>4 DEF ShapeOK, MayBeBelow, n
    <3>5. r[n + 1].at \notin WaitLabels
      BY <1>1, <1>2, <3>2 DEF MayBeBelow, Bases, ClientLabels
    <3>6. \A k \in 2..(n + 1) : r[k].at \in WaitLabels => k = 2 /\ r[1].at = "client"
      BY <1>1, <1>2, <1>3, <1>4, <3>1, <3>5 DEF ShapeOK, MayFollow, n
    <3>7. r[1].at = "unpublishMine" => r[2].at = "mine"
      <4>1. s[1].at = "unpublishMine" => s[2].at = "mine"
        BY <1>3, <2>2 DEF ShapeOK, n
      <4>2. CASE n = 2
        <5>1. s[2].at = "mine" => b = "mine"
          BY <1>2, <4>2 DEF MayFollow
        <5>2. r[2].at = b
          BY <1>1, <1>2, <4>2
        <5>3. QED
          BY <3>1, <4>1, <5>1, <5>2
      <4>3. CASE n > 2
        <5>1. 2 \in 1..(n - 1)
          BY <1>2, <4>3
        <5>2. r[2] = s[2]
          BY <1>2, <5>1
        <5>3. QED
          BY <3>1, <4>1, <5>2
      <4>4. QED
        BY <1>2, <2>2, <4>2, <4>3
    <3>8. QED
      BY <1>2, <1>3, <2>2, <3>1, <3>3, <3>4, <3>6, <3>7 DEF ShapeOK, n
  <2>3. QED
    BY <1>2, <2>1, <2>2
<1>7. QED
  BY <1>2, <1>5, <1>6 DEF StructOK, FrameInv, ShapeInv, r

\* So does a return to the caller.
LEMMA PopShape ==
    ASSUME PoolType, FrameInv, ShapeInv, NEW t \in Threads, Pops(t), Top(t).at \notin Bases
    PROVE  StructOK'
<1> DEFINE s == stack[t]
           r == stack'[t]
           n == Len(s)
<1>1. /\ n \in Nat /\ n >= 2 /\ Len(r) = n - 1 /\ \A k \in 1..(n - 1) : r[k] = s[k]
      /\ stack' \in [Threads -> Seq(Frames)]
      /\ \A u \in Threads \ {t} : stack'[u] = stack[u]
  BY TopFrame, BaseFrame DEF Pops, Kept, Others
<1>2. ShapeOK(t, s) /\ \A k \in 1..n : FrameOK(s[k])
  BY DEF ShapeInv, FrameInv
<1> HIDE DEF s, r, n
<1>3. \A k \in 1..(n - 1) : FrameOK(r[k])
  BY <1>1, <1>2
<1>4. r[1] = s[1] /\ (n - 1 >= 2 => r[2] = s[2])
  BY <1>1
<1>5. ShapeOK(t, r)
  <2>1. \A k \in 2..(n - 1) : k \in 1..(n - 1) /\ k \in 2..n
    BY <1>1
  <2>2. \A k \in 1..(n - 1 - 1) : k \in 1..(n - 1)
    BY <1>1
  <2>3. /\ \A k \in 2..Len(r) : /\ r[k].at \notin Bases
                                /\ r[k].at \in WaitLabels => k = 2 /\ r[1].at = "client"
        /\ \A k \in 1..(Len(r) - 1) : r[k].at \in Calling
    BY <1>1, <1>2, <1>4, <2>1, <2>2 DEF ShapeOK, n
  <2>4. /\ r[1].at \in BaseOf(t)
        /\ r[1].at = "unpublishMine" /\ Len(r) >= 2 => r[2].at = "mine"
    BY <1>1, <1>2, <1>4 DEF ShapeOK, n
  <2>5. Len(r) \in Nat /\ Len(r) >= 1
    BY <1>1
  <2>6. QED
    BY <2>3, <2>4, <2>5 DEF ShapeOK
<1>6. QED
  BY <1>1, <1>3, <1>5 DEF StructOK, FrameInv, ShapeInv, r

\* Threads that are woken.
LEMMA WakeShape ==
    ASSUME PoolType, FrameInv, ShapeInv, NEW t \in Threads,
           \/ Top(t).at = "notify" /\ \E w \in Workers : Wakes(t, w)
           \/ Top(t).at = "notifyAll" /\ WakesAll(t)
    PROVE  StructOK'
<1>1. ASSUME NEW u \in Threads, Top(u).at \in {"sleep", "notifyAll"}, Len(stack'[u]) = 1,
             stack'[u][1] = Frame(IF Top(u).at = "sleep" THEN "wake" ELSE "join")
      PROVE  ShapeOK(u, stack'[u]) /\ \A k \in 1..Len(stack'[u]) : FrameOK(stack'[u][k])
  <2>1. Top(u).at \in BaseOf(u)
    BY <1>1, BaseFrame DEF Bases, ClientLabels, WorkerLabels
  <2>2. /\ FrameOK(Frame("wake")) /\ Frame("wake").at = "wake"
        /\ FrameOK(Frame("join")) /\ Frame("join").at = "join"
    BY FrameFacts DEF Labels, JobLabels
  <2>3. stack'[u][1].at \in BaseOf(u) /\ stack'[u][1].at # "unpublishMine" /\ FrameOK(stack'[u][1])
    BY <1>1, <2>1, <2>2 DEF BaseOf, ClientLabels, WorkerLabels
  <2>4. QED
    BY <1>1, <2>3 DEF ShapeOK
<1>2. ASSUME NEW w \in Workers, Wakes(t, w), Top(t).at = "notify"
      PROVE  StructOK'
  <2>1. w \in Threads /\ ShapeOK(w, stack'[w]) /\ \A k \in 1..Len(stack'[w]) : FrameOK(stack'[w][k])
    BY <1>1, <1>2 DEF Wakes, Threads
  <2> DEFINE s == stack[t]
             r == stack'[t]
             n == Len(s)
  <2>2. /\ n \in Nat /\ n >= 2 /\ Len(r) = n - 1 /\ \A k \in 1..(n - 1) : r[k] = s[k]
    BY <1>2, TopFrame, BaseFrame DEF Wakes, Kept, Bases, ClientLabels, WorkerLabels
  <2>3. ShapeOK(t, s) /\ \A k \in 1..n : FrameOK(s[k])
    BY DEF ShapeInv, FrameInv
  <2> HIDE DEF s, r, n
  <2>4. \A k \in 1..(n - 1) : FrameOK(r[k])
    BY <2>2, <2>3
  <2>5. r[1] = s[1] /\ (n - 1 >= 2 => r[2] = s[2])
    BY <2>2
  <2>6. ShapeOK(t, r)
    <3>1. \A k \in 2..(n - 1) : k \in 1..(n - 1) /\ k \in 2..n
      BY <2>2
    <3>2. \A k \in 1..(n - 1 - 1) : k \in 1..(n - 1)
      BY <2>2
    <3>3. /\ \A k \in 2..Len(r) : /\ r[k].at \notin Bases
                                  /\ r[k].at \in WaitLabels => k = 2 /\ r[1].at = "client"
          /\ \A k \in 1..(Len(r) - 1) : r[k].at \in Calling
      BY <2>2, <2>3, <2>5, <3>1, <3>2 DEF ShapeOK, n
    <3>4. /\ r[1].at \in BaseOf(t)
          /\ r[1].at = "unpublishMine" /\ Len(r) >= 2 => r[2].at = "mine"
      BY <2>2, <2>3, <2>5 DEF ShapeOK, n
    <3>5. Len(r) \in Nat /\ Len(r) >= 1
      BY <2>2
    <3>6. QED
      BY <3>3, <3>4, <3>5 DEF ShapeOK
  <2>7. QED
    BY <1>2, <2>1, <2>2, <2>4, <2>6 DEF Wakes, StructOK, FrameInv, ShapeInv, r
<1>3. ASSUME Top(t).at = "notifyAll", WakesAll(t)
      PROVE  StructOK'
  BY <1>1, <1>3 DEF WakesAll, StructOK, FrameInv, ShapeInv
<1>4. QED
  BY <1>2, <1>3

\* What a step for a job does to the stack, as to its labels.
LEMMA JobPush ==
    ASSUME NEW t \in Threads, NEW b
    PROVE  /\ ReplacesJob(t, b) => Replaces(t, b)
           /\ \A j \in Jobs : PushesOn(t, b, AddFrame(j)) => Pushes(t, b, "submit")
           /\ \A j \in Jobs : PushesOn(t, b, RunFrame(j)) => Pushes(t, b, "body")
<1>1. ReplacesJob(t, b) => Replaces(t, b)
  BY DEF ReplacesJob, Replaces
<1>2. \A j \in Jobs : PushesOn(t, b, AddFrame(j)) => Pushes(t, b, "submit")
  BY JobFrames DEF PushesOn, Pushes
<1>3. \A j \in Jobs : PushesOn(t, b, RunFrame(j)) => Pushes(t, b, "body")
  BY JobFrames DEF PushesOn, Pushes
<1>4. QED
  BY <1>1, <1>2, <1>3

\* Types and shapes of the stacks.
LEMMA StructStep ==
    ASSUME PoolType, FrameInv, ShapeInv, NEW t \in Threads, ClientCalls(t) \/ Steps(t)
    PROVE  StructOK'
<1>0. Top(t).at \in BaseOf(t) \/ Top(t).at \notin Bases
  BY BaseFrame
<1>1. CASE clientAdd(t)
  BY <1>1, <1>0, AddFlows, JobPush, ReplaceShape, PushShape, PopShape DEF MayFollow, MayBeBelow, Bases,
     BaseOf, ClientLabels, WorkerLabels, ParentLabels, WaitLabels, Calling
<1>2. CASE clientWait(t)
  BY <1>2, <1>0, ClientFlows, ReplaceShape, PushShape, PopShape DEF MayFollow, MayBeBelow, Bases,
     BaseOf, ClientLabels, WorkerLabels, ParentLabels, WaitLabels, Calling
<1>3. CASE clientWork(t)
  BY <1>3, <1>0, ClientFlows, ReplaceShape, PushShape, PopShape DEF MayFollow, MayBeBelow, Bases,
     BaseOf, ClientLabels, WorkerLabels, ParentLabels, WaitLabels, Calling
<1>4. CASE clientExit(t)
  BY <1>4, <1>0, ClientFlows, ReplaceShape, PushShape, PopShape DEF MayFollow, MayBeBelow, Bases,
     BaseOf, ClientLabels, WorkerLabels, ParentLabels, WaitLabels, Calling
<1>5. CASE destroy(t)
  BY <1>5, <1>0, ClientFlows, ReplaceShape, PushShape, PopShape DEF MayFollow, MayBeBelow, Bases,
     BaseOf, ClientLabels, WorkerLabels, ParentLabels, WaitLabels, Calling
<1>6. CASE unpublishThread(t)
  BY <1>6, <1>0, ClientFlows, ReplaceShape, PushShape, PopShape DEF MayFollow, MayBeBelow, Bases,
     BaseOf, ClientLabels, WorkerLabels, ParentLabels, WaitLabels, Calling
<1>7. CASE notifyAll(t)
  BY <1>7, NotifyFlows, WakeShape
<1>8. CASE join(t)
  BY <1>8, <1>0, ClientFlows, ReplaceShape, PushShape, PopShape DEF MayFollow, MayBeBelow, Bases,
     BaseOf, ClientLabels, WorkerLabels, ParentLabels, WaitLabels, Calling
<1>9. CASE addSubmit(t)
  BY <1>9, <1>0, AddFlows, JobPush, ReplaceShape, PushShape, PopShape DEF MayFollow, MayBeBelow, Bases,
     BaseOf, ClientLabels, WorkerLabels, ParentLabels, WaitLabels, Calling
<1>10. CASE addPush(t)
  BY <1>10, <1>0, AddFlows, JobPush, ReplaceShape, PushShape, PopShape DEF MayFollow, MayBeBelow, Bases,
     BaseOf, ClientLabels, WorkerLabels, ParentLabels, WaitLabels, Calling
<1>11. CASE addReturn(t)
  BY <1>11, <1>0, AddFlows, JobPush, ReplaceShape, PushShape, PopShape DEF MayFollow, MayBeBelow, Bases,
     BaseOf, ClientLabels, WorkerLabels, ParentLabels, WaitLabels, Calling
<1>12. CASE addNotify(t)
  BY <1>12, NotifyFlows, WakeShape, PopShape DEF Bases, ClientLabels, WorkerLabels
<1>13. CASE addParent(t)
  BY <1>13, <1>0, AddFlows, JobPush, ReplaceShape, PushShape, PopShape DEF MayFollow, MayBeBelow, Bases,
     BaseOf, ClientLabels, WorkerLabels, ParentLabels, WaitLabels, Calling
<1>14. CASE addParentUndo(t)
  BY <1>14, <1>0, AddFlows, JobPush, ReplaceShape, PushShape, PopShape DEF MayFollow, MayBeBelow, Bases,
     BaseOf, ClientLabels, WorkerLabels, ParentLabels, WaitLabels, Calling
<1>15. CASE addParentJob(t)
  BY <1>15, <1>0, AddFlows, JobPush, ReplaceShape, PushShape, PopShape DEF MayFollow, MayBeBelow, Bases,
     BaseOf, ClientLabels, WorkerLabels, ParentLabels, WaitLabels, Calling
<1>16. CASE bodyAdd(t)
  <2>1. Top(t).at = "body" /\ Pushes(t, "body", "submit")
    BY <1>16, RunFlows, JobFrames, ThreadPoolAssumption DEF Pushes
  <2>2. QED
    BY <2>1, PushShape DEF MayFollow, MayBeBelow, Bases,
       BaseOf, ClientLabels, WorkerLabels, ParentLabels, WaitLabels, Calling
<1>17. CASE bodyEnd(t)
  BY <1>17, <1>0, RunFlows, JobPush, ReplaceShape, PushShape, PopShape DEF MayFollow, MayBeBelow, Bases,
     BaseOf, ClientLabels, WorkerLabels, ParentLabels, WaitLabels, Calling
<1>18. CASE jobFinish(t)
  BY <1>18, <1>0, RunFlows, JobPush, ReplaceShape, PushShape, PopShape DEF MayFollow, MayBeBelow, Bases,
     BaseOf, ClientLabels, WorkerLabels, ParentLabels, WaitLabels, Calling
<1>19. CASE handleException(t)
  BY <1>19, <1>0, RunFlows, JobPush, ReplaceShape, PushShape, PopShape DEF MayFollow, MayBeBelow, Bases,
     BaseOf, ClientLabels, WorkerLabels, ParentLabels, WaitLabels, Calling
<1>20. CASE runMine(t)
  BY <1>20, <1>0, StealFlows, JobPush, ReplaceShape, PushShape, PopShape DEF MayFollow, MayBeBelow, Bases,
     BaseOf, ClientLabels, WorkerLabels, ParentLabels, WaitLabels, Calling
<1>21. CASE stealRefresh(t)
  BY <1>21, <1>0, StealFlows, ReplaceShape, PushShape, PopShape DEF MayFollow, MayBeBelow, Bases,
     BaseOf, ClientLabels, WorkerLabels, ParentLabels, WaitLabels, Calling
<1>22. CASE stealNext(t)
  BY <1>22, <1>0, StealFlows, ReplaceShape, PushShape, PopShape DEF MayFollow, MayBeBelow, Bases,
     BaseOf, ClientLabels, WorkerLabels, ParentLabels, WaitLabels, Calling
<1>23. CASE stealLook(t)
  BY <1>23, <1>0, StealFlows, ReplaceShape, PushShape, PopShape DEF MayFollow, MayBeBelow, Bases,
     BaseOf, ClientLabels, WorkerLabels, ParentLabels, WaitLabels, Calling
<1>24. CASE stealClaim(t)
  BY <1>24, <1>0, StealFlows, JobPush, ReplaceShape, PushShape, PopShape DEF MayFollow, MayBeBelow, Bases,
     BaseOf, ClientLabels, WorkerLabels, ParentLabels, WaitLabels, Calling
<1>25. CASE stealMine(t)
  BY <1>25, <1>0, StealFlows, ReplaceShape, PushShape, PopShape DEF MayFollow, MayBeBelow, Bases,
     BaseOf, ClientLabels, WorkerLabels, ParentLabels, WaitLabels, Calling
<1>26. CASE waitSubmitted(t)
  BY <1>26, <1>0, WaitFlows, ReplaceShape, PushShape, PopShape DEF MayFollow, MayBeBelow, Bases,
     BaseOf, ClientLabels, WorkerLabels, ParentLabels, WaitLabels, Calling
<1>27. CASE waitFinished(t)
  BY <1>27, <1>0, WaitFlows, ReplaceShape, PushShape, PopShape DEF MayFollow, MayBeBelow, Bases,
     BaseOf, ClientLabels, WorkerLabels, ParentLabels, WaitLabels, Calling
<1>28. CASE waitWork(t)
  BY <1>28, <1>0, WaitFlows, ReplaceShape, PushShape, PopShape DEF MayFollow, MayBeBelow, Bases,
     BaseOf, ClientLabels, WorkerLabels, ParentLabels, WaitLabels, Calling
<1>29. CASE waitExc(t)
  BY <1>29, <1>0, WaitFlows, ReplaceShape, PushShape, PopShape DEF MayFollow, MayBeBelow, Bases,
     BaseOf, ClientLabels, WorkerLabels, ParentLabels, WaitLabels, Calling
<1>30. CASE waitReturn(t)
  BY <1>30, <1>0, WaitFlows, ReplaceShape, PushShape, PopShape DEF MayFollow, MayBeBelow, Bases,
     BaseOf, ClientLabels, WorkerLabels, ParentLabels, WaitLabels, Calling
<1>31. CASE workerStart(t)
  BY <1>31, <1>0, WorkerFlows, ReplaceShape, PushShape, PopShape DEF MayFollow, MayBeBelow, Bases,
     BaseOf, ClientLabels, WorkerLabels, ParentLabels, WaitLabels, Calling
<1>32. CASE workerLoop(t)
  BY <1>32, <1>0, WorkerFlows, ReplaceShape, PushShape, PopShape DEF MayFollow, MayBeBelow, Bases,
     BaseOf, ClientLabels, WorkerLabels, ParentLabels, WaitLabels, Calling
<1>33. CASE workerWork(t)
  BY <1>33, <1>0, WorkerFlows, ReplaceShape, PushShape, PopShape DEF MayFollow, MayBeBelow, Bases,
     BaseOf, ClientLabels, WorkerLabels, ParentLabels, WaitLabels, Calling
<1>34. CASE workerSleep(t)
  BY <1>34, <1>0, WorkerFlows, ReplaceShape, PushShape, PopShape DEF MayFollow, MayBeBelow, Bases,
     BaseOf, ClientLabels, WorkerLabels, ParentLabels, WaitLabels, Calling
<1>35. CASE workerWait(t)
  BY <1>35, <1>0, WorkerFlows, ReplaceShape, PushShape, PopShape DEF MayFollow, MayBeBelow, Bases,
     BaseOf, ClientLabels, WorkerLabels, ParentLabels, WaitLabels, Calling
<1>36. CASE workerTimeout(t)
  BY <1>36, <1>0, WorkerFlows, ReplaceShape, PushShape, PopShape DEF MayFollow, MayBeBelow, Bases,
     BaseOf, ClientLabels, WorkerLabels, ParentLabels, WaitLabels, Calling
<1>37. CASE workerWake(t)
  BY <1>37, <1>0, WorkerFlows, ReplaceShape, PushShape, PopShape DEF MayFollow, MayBeBelow, Bases,
     BaseOf, ClientLabels, WorkerLabels, ParentLabels, WaitLabels, Calling
<1>38. CASE work(t)
  BY <1>38, <1>0, WaitFlows, ReplaceShape, PushShape, PopShape DEF MayFollow, MayBeBelow, Bases,
     BaseOf, ClientLabels, WorkerLabels, ParentLabels, WaitLabels, Calling
<1>39. CASE parentBegin(t)
  <2>1. CASE shutdown
    <3>1. stack' = stack
      BY <1>39, <2>1, ParentFlows
    <3>2. QED
      BY <3>1 DEF PoolType, StructOK, FrameInv, ShapeInv
  <2>2. CASE ~shutdown
    BY <1>39, <2>2, <1>0, ParentFlows, PushShape DEF MayFollow, MayBeBelow, Bases,
       BaseOf, ClientLabels, WorkerLabels, ParentLabels, WaitLabels, Calling
  <2>3. QED
    BY <2>1, <2>2
<1>40. CASE runParentWorker(t)
  BY <1>40, <1>0, ParentFlows, ReplaceShape, PushShape, PopShape DEF MayFollow, MayBeBelow, Bases,
     BaseOf, ClientLabels, WorkerLabels, ParentLabels, WaitLabels, Calling
<1>41. CASE parentEnd(t)
  BY <1>41, <1>0, ParentFlows, ReplaceShape, PushShape, PopShape DEF MayFollow, MayBeBelow, Bases,
     BaseOf, ClientLabels, WorkerLabels, ParentLabels, WaitLabels, Calling
<1>42. QED
  BY <1>1, <1>2, <1>3, <1>4, <1>5, <1>6, <1>7, <1>8, <1>9, <1>10, <1>11, <1>12, <1>13, <1>14, <1>15, <1>16, <1>17, <1>18, <1>19, <1>20, <1>21, <1>22, <1>23, <1>24, <1>25, <1>26, <1>27, <1>28, <1>29, <1>30, <1>31, <1>32, <1>33, <1>34, <1>35, <1>36, <1>37, <1>38, <1>39, <1>40, <1>41
     DEF ClientCalls, Steps

-----------------------------------------------------------------------------
(* Every step keeps the types.                                             *)

\* The queue of a thread, shorter or longer by one.
LEMMA QueueOps ==
    ASSUME NEW q \in Seq(Jobs)
    PROVE  /\ Len(q) \in Nat
           /\ \A j \in Jobs : Append(q, j) \in Seq(Jobs) /\ Len(Append(q, j)) = Len(q) + 1
           /\ q # <<>> => /\ Len(q) >= 1
                          /\ Tail(q) \in Seq(Jobs) /\ Len(Tail(q)) = Len(q) - 1
                          /\ SubSeq(q, 1, Len(q) - 1) \in Seq(Jobs)
                          /\ Len(SubSeq(q, 1, Len(q) - 1)) = Len(q) - 1
<1>1. Len(q) \in Nat /\ (q # <<>> => Len(q) >= 1)
  BY LenProperties, EmptySeq
<1>2. \A j \in Jobs : Append(q, j) \in Seq(Jobs) /\ Len(Append(q, j)) = Len(q) + 1
  BY AppendProperties
<1>3. q # <<>> => Tail(q) \in Seq(Jobs) /\ Len(Tail(q)) = Len(q) - 1
  BY HeadTailProperties
<1>4. ASSUME q # <<>>
      PROVE  /\ SubSeq(q, 1, Len(q) - 1) \in Seq(Jobs)
             /\ Len(SubSeq(q, 1, Len(q) - 1)) = Len(q) - 1
  <2>1. PICK j \in Jobs : TRUE
    BY <1>1, <1>4, ElementOfSeq
  <2>2. QED
    BY <1>1, <1>4, <2>1, StackOps
<1>5. QED
  BY <1>1, <1>2, <1>3, <1>4

\* Every step keeps the types.
LEMMA TypeStep ==
    ASSUME PoolType, FrameInv, ShapeInv, NEW t \in Threads, ClientCalls(t) \/ Steps(t)
    PROVE  PoolType'
<1>0. stack' \in [Threads -> Seq(Frames)]
  BY StructStep DEF StructOK
<1>1. CASE clientAdd(t)
  <2>1. \E j \in Jobs : job' = [job EXCEPT ![j] = "adding"]
    BY <1>1, AddFlows, ThreadPoolAssumption
  <2>2. QED
    BY <1>1, <1>0, <2>1 DEF PoolType, clientAdd, counters, excVars, parentVars, queueVars
<1>2. CASE clientWait(t)
  BY <1>2, <1>0 DEF PoolType, clientWait, counters, excVars,
     parentVars, queueVars, getEntry
<1>3. CASE clientWork(t)
  BY <1>3, <1>0 DEF PoolType, clientWork, counters, excVars,
     parentVars, queueVars, StackOnly
<1>4. CASE clientExit(t)
  BY <1>4, <1>0 DEF PoolType, clientExit, counters, excVars,
     parentVars, queueVars, StackOnly
<1>5. CASE destroy(t)
  BY <1>5, <1>0 DEF PoolType, destroy, counters, excVars,
     parentVars, queueVars
<1>6. CASE unpublishThread(t)
  BY <1>6, <1>0 DEF PoolType, unpublishThread, counters, excVars,
     parentVars, queueVars
<1>7. CASE notifyAll(t)
  BY <1>7, <1>0 DEF PoolType, notifyAll, counters, excVars,
     parentVars, queueVars, StackOnly
<1>8. CASE join(t)
  BY <1>8, <1>0 DEF PoolType, join, counters, excVars,
     parentVars, queueVars, StackOnly
<1>9. CASE addSubmit(t)
  BY <1>9, <1>0 DEF PoolType, addSubmit, counters, excVars,
     parentVars, queueVars
<1>10. CASE addPush(t)
  <2>1. Top(t).job \in Jobs /\ queue[t] \in Seq(Jobs) /\ Len(queue[t]) <= QueueSize
    BY <1>10, AddFlows DEF PoolType
  <2>2. /\ queue' \in [Threads -> Seq(Jobs)] /\ \A u \in Threads : Len(queue'[u]) <= QueueSize
    <3>1. CASE queue' = queue
      BY <3>1 DEF PoolType
    <3>2. CASE /\ queue' = [queue EXCEPT ![t] = Append(queue[t], Top(t).job)]
               /\ Len(queue[t]) < QueueSize
      <4>1. /\ Append(queue[t], Top(t).job) \in Seq(Jobs)
            /\ Len(Append(queue[t], Top(t).job)) <= QueueSize
        BY <2>1, <3>2, QueueOps, ThreadPoolAssumption
      <4>2. QED
        BY <3>2, <4>1 DEF PoolType
    <3>3. QED
      BY <1>10, <3>1, <3>2, AddFlows
  <2>3. job' \in [Jobs -> {"new", "adding", "queued", "running", "done", "threw"}]
    BY <1>10, <2>1, AddFlows DEF PoolType
  <2>4. QED
    BY <1>10, <1>0, <2>2, <2>3 DEF PoolType, addPush, getEntry, counters, excVars, parentVars
<1>11. CASE addReturn(t)
  BY <1>11, <1>0 DEF PoolType, addReturn, counters, excVars,
     parentVars, queueVars, StackOnly
<1>12. CASE addNotify(t)
  BY <1>12, <1>0 DEF PoolType, addNotify, counters, excVars,
     parentVars, queueVars, StackOnly
<1>13. CASE addParent(t)
  BY <1>13, <1>0 DEF PoolType, addParent, counters, excVars,
     parentVars, queueVars
<1>14. CASE addParentUndo(t)
  BY <1>14, <1>0 DEF PoolType, addParentUndo, counters, excVars,
     parentVars, queueVars
<1>15. CASE addParentJob(t)
  BY <1>15, <1>0 DEF PoolType, addParentJob, counters, excVars,
     parentVars, queueVars
<1>16. CASE bodyAdd(t)
  <2>1. \E j \in Jobs : job' = [job EXCEPT ![j] = "adding"]
    BY <1>16, RunFlows, ThreadPoolAssumption
  <2>2. QED
    BY <1>16, <1>0, <2>1 DEF PoolType, bodyAdd, counters, excVars, parentVars, queueVars
<1>17. CASE bodyEnd(t)
  BY <1>17, <1>0, RunFlows DEF PoolType, bodyEnd, counters, excVars,
     parentVars, queueVars, Progress
<1>18. CASE jobFinish(t)
  BY <1>18, <1>0, RunFlows DEF PoolType, jobFinish, counters, excVars,
     parentVars, queueVars, Progress
<1>19. CASE handleException(t)
  <2>1. hasExc' \in Nat
    BY <1>19 DEF PoolType, handleException
  <2>2. exc' \in Jobs \cup {NoJob}
    <3>1. At(t, "exc") => Top(t).job \in Jobs
      BY TopFrame DEF FrameOK, JobLabels
    <3>2. QED
      BY <1>19, <3>1 DEF PoolType, handleException
  <2>3. QED
    BY <1>19, <1>0, <2>1, <2>2 DEF PoolType, handleException, counters, parentVars, queueVars
<1>20. CASE runMine(t)
  <2>1. CASE queue[t] = <<>>
    BY <1>20, <1>0, <2>1, TopFrame DEF PoolType, runMine, ReturnValue, Frames, counters,
       excVars, parentVars
  <2>2. CASE queue[t] # <<>>
    <3>1. queue[t] \in Seq(Jobs) /\ Len(queue[t]) <= QueueSize /\ QueueSize \in Nat
      BY ThreadPoolAssumption DEF PoolType
    <3>2. queue[t][Len(queue[t])] \in Jobs
      BY <1>20, <2>2, StealFlows
    <3>3. /\ queue' \in [Threads -> Seq(Jobs)] /\ \A u \in Threads : Len(queue'[u]) <= QueueSize
      <4>1. queue' = [queue EXCEPT ![t] = SubSeq(queue[t], 1, Len(queue[t]) - 1)]
        BY <1>20, <2>2 DEF runMine
      <4>2. /\ SubSeq(queue[t], 1, Len(queue[t]) - 1) \in Seq(Jobs)
            /\ Len(SubSeq(queue[t], 1, Len(queue[t]) - 1)) <= QueueSize
        BY <2>2, <3>1, QueueOps
      <4>3. QED
        BY <4>1, <4>2 DEF PoolType
    <3>4. job' \in [Jobs -> {"new", "adding", "queued", "running", "done", "threw"}]
      BY <1>20, <2>2, <3>2 DEF PoolType, runMine, Progress
    <3>5. QED
      BY <1>20, <1>0, <2>2, <3>3, <3>4 DEF PoolType, runMine, counters, excVars, parentVars
  <2>3. QED
    BY <2>1, <2>2
<1>21. CASE stealRefresh(t)
  <2>1. known' \in [Threads -> SUBSET Threads]
    BY <1>21 DEF PoolType, stealRefresh
  <2>2. QED
    BY <1>21, <1>0, <2>1 DEF PoolType, stealRefresh, counters, excVars, parentVars
<1>22. CASE stealNext(t)
  BY <1>22, <1>0, TopFrame DEF PoolType, stealNext, counters, excVars,
     parentVars, queueVars, ReturnValue, Frames
<1>23. CASE stealLook(t)
  BY <1>23, <1>0 DEF PoolType, stealLook, counters, excVars,
     parentVars, queueVars, StackOnly
<1>24. CASE stealClaim(t)
  <2>1. UNCHANGED <<counters, excVars, shutdown, threadsSleeping, parentVars, queues, known, result>>
    BY <1>24 DEF stealClaim
  <2>2. CASE UNCHANGED <<queue, job>>
    BY <1>0, <2>1, <2>2 DEF PoolType, counters, excVars, parentVars
  <2>3. ASSUME NEW q \in Threads, queue[q] # <<>>, Top(t).job \in Jobs,
               queue' = [queue EXCEPT ![q] = Tail(@)],
               job' = [job EXCEPT ![Top(t).job] = "running"]
        PROVE  PoolType'
    <3>1. queue[q] \in Seq(Jobs) /\ Len(queue[q]) <= QueueSize /\ QueueSize \in Nat
      BY ThreadPoolAssumption DEF PoolType
    <3>2. /\ queue' \in [Threads -> Seq(Jobs)] /\ \A u \in Threads : Len(queue'[u]) <= QueueSize
      BY <2>3, <3>1, QueueOps DEF PoolType
    <3>3. job' \in [Jobs -> {"new", "adding", "queued", "running", "done", "threw"}]
      BY <2>3 DEF PoolType
    <3>4. QED
      BY <1>0, <2>1, <3>2, <3>3 DEF PoolType, counters, excVars, parentVars
  <2>4. QED
    BY <1>24, <2>2, <2>3, StealFlows
<1>25. CASE stealMine(t)
  BY <1>25, <1>0 DEF PoolType, stealMine, counters, excVars,
     parentVars, queueVars, StackOnly
<1>26. CASE waitSubmitted(t)
  BY <1>26, <1>0 DEF PoolType, waitSubmitted, counters, excVars,
     parentVars, queueVars, StackOnly
<1>27. CASE waitFinished(t)
  BY <1>27, <1>0 DEF PoolType, waitFinished, counters, excVars,
     parentVars, queueVars, StackOnly
<1>28. CASE waitWork(t)
  BY <1>28, <1>0 DEF PoolType, waitWork, counters, excVars,
     parentVars, queueVars, StackOnly
<1>29. CASE waitExc(t)
  BY <1>29, <1>0 DEF PoolType, waitExc, counters, excVars,
     parentVars, queueVars, StackOnly
<1>30. CASE waitReturn(t)
  BY <1>30, <1>0 DEF PoolType, waitReturn, counters, excVars,
     parentVars, queueVars, StackOnly
<1>31. CASE workerStart(t)
  BY <1>31, <1>0 DEF PoolType, workerStart, counters, excVars,
     parentVars, queueVars, getEntry
<1>32. CASE workerLoop(t)
  BY <1>32, <1>0 DEF PoolType, workerLoop, counters, excVars,
     parentVars, queueVars, StackOnly
<1>33. CASE workerWork(t)
  BY <1>33, <1>0 DEF PoolType, workerWork, counters, excVars,
     parentVars, queueVars, StackOnly
<1>34. CASE workerSleep(t)
  BY <1>34, <1>0 DEF PoolType, workerSleep, counters, excVars,
     parentVars, queueVars
<1>35. CASE workerWait(t)
  BY <1>35, <1>0 DEF PoolType, workerWait, counters, excVars,
     parentVars, queueVars, StackOnly
<1>36. CASE workerTimeout(t)
  BY <1>36, <1>0 DEF PoolType, workerTimeout, counters, excVars,
     parentVars, queueVars, StackOnly
<1>37. CASE workerWake(t)
  BY <1>37, <1>0 DEF PoolType, workerWake, counters, excVars,
     parentVars, queueVars
<1>38. CASE work(t)
  BY <1>38, <1>0 DEF PoolType, work, counters, excVars,
     parentVars, queueVars, getEntry
<1>39. CASE parentBegin(t)
  BY <1>39, <1>0 DEF PoolType, parentBegin, counters, excVars,
     parentVars, queueVars
<1>40. CASE runParentWorker(t)
  BY <1>40, <1>0 DEF PoolType, runParentWorker, counters, excVars,
     parentVars, queueVars, StackOnly
<1>41. CASE parentEnd(t)
  BY <1>41, <1>0 DEF PoolType, parentEnd, counters, excVars,
     parentVars, queueVars
<1>42. QED
  BY <1>1, <1>2, <1>3, <1>4, <1>5, <1>6, <1>7, <1>8, <1>9, <1>10, <1>11, <1>12, <1>13, <1>14, <1>15, <1>16, <1>17, <1>18, <1>19, <1>20, <1>21, <1>22, <1>23, <1>24, <1>25, <1>26, <1>27, <1>28, <1>29, <1>30, <1>31, <1>32, <1>33, <1>34, <1>35, <1>36, <1>37, <1>38, <1>39, <1>40, <1>41
     DEF ClientCalls, Steps

-----------------------------------------------------------------------------
(* What a step does to the jobs.                                           *)

\* The frames that own a job are as they were.
Quiet ==
    \A u \in Threads, k \in Nat, l \in Owning, j \in Jobs :
        /\ Held(u, k, l, j)' <=> Held(u, k, l, j)
        /\ Held(u, k, l, j) => stack'[u][k] = stack[u][k]

\* Except for that of job j, and for what is left to a body to add.
MovesOnly(j) ==
    \A u \in Threads, k \in Nat, l \in Owning, i \in Jobs \ {j} :
        /\ Held(u, k, l, i)' <=> Held(u, k, l, i)
        /\ Held(u, k, l, i) => stack'[u][k].left \subseteq stack[u][k].left

\* No frame owns job j; one frame of thread t does from now on, at label m.
Nowhere(j) == \A u \in Threads, k \in Nat, l \in Owning : ~Held(u, k, l, j)
After(t, j, m) ==
    \E n \in Nat :
        /\ \A u \in Threads, k \in Nat, l \in Owning : Held(u, k, l, j)' <=> u = t /\ k = n /\ l = m
        /\ n \in 1..Len(stack'[t])
        /\ m = "body" => stack'[t][n].left = Spawns[j]

\* The frames after a step.
LEMMA HeldReplace ==
    ASSUME PoolType, FrameInv, ShapeInv, NEW t \in Threads, NEW f \in Frames, ReplacedBy(t, f),
           NEW u \in Threads, NEW k \in Nat, NEW l, NEW j
    PROVE  /\ Held(u, k, l, j)' <=> \/ ~(u = t /\ k = Len(stack[t])) /\ Held(u, k, l, j)
                                    \/ u = t /\ k = Len(stack[t]) /\ f.at = l /\ f.job = j
           /\ ~(u = t /\ k = Len(stack[t])) /\ Held(u, k, l, j) => stack'[u][k] = stack[u][k]
<1>1. Len(stack[t]) \in Nat /\ Len(stack[t]) >= 1 /\ Len(stack[u]) \in Nat
  BY TopFrame
<1>2. CASE u # t
  BY <1>2 DEF ReplacedBy, Others, Held
<1>3. CASE u = t
  BY <1>1, <1>3 DEF ReplacedBy, Kept, Held
<1>4. QED
  BY <1>2, <1>3

\* Which frames are at a label and about a job after a call: those that were, but for
\* the two innermost.
LEMMA HeldPush ==
    ASSUME PoolType, FrameInv, ShapeInv, NEW t \in Threads, NEW f \in Frames, NEW g \in Frames,
           PushedOn(t, f, g), NEW u \in Threads, NEW k \in Nat, NEW l, NEW j
    PROVE  /\ Held(u, k, l, j)' <=> \/ ~(u = t /\ k >= Len(stack[t])) /\ Held(u, k, l, j)
                                    \/ u = t /\ k = Len(stack[t]) /\ f.at = l /\ f.job = j
                                    \/ u = t /\ k = Len(stack[t]) + 1 /\ g.at = l /\ g.job = j
           /\ ~(u = t /\ k >= Len(stack[t])) /\ Held(u, k, l, j) => stack'[u][k] = stack[u][k]
<1>1. Len(stack[t]) \in Nat /\ Len(stack[t]) >= 1 /\ Len(stack[u]) \in Nat
  BY TopFrame
<1>2. CASE u # t
  BY <1>2 DEF PushedOn, Others, Held
<1>3. CASE u = t
  BY <1>1, <1>3 DEF PushedOn, Kept, Held
<1>4. QED
  BY <1>2, <1>3

\* The same after a return: all but the innermost.
LEMMA HeldPop ==
    ASSUME PoolType, FrameInv, ShapeInv, NEW t \in Threads, Pops(t),
           NEW u \in Threads, NEW k \in Nat, NEW l, NEW j
    PROVE  /\ Held(u, k, l, j)' <=> ~(u = t /\ k = Len(stack[t])) /\ Held(u, k, l, j)
           /\ ~(u = t /\ k = Len(stack[t])) /\ Held(u, k, l, j) => stack'[u][k] = stack[u][k]
<1>1. Len(stack[t]) \in Nat /\ Len(stack[t]) >= 1 /\ Len(stack[u]) \in Nat
  BY TopFrame
<1>2. CASE u # t
  BY <1>2 DEF Pops, Others, Held
<1>3. CASE u = t
  BY <1>1, <1>3 DEF Pops, Kept, Held
<1>4. QED
  BY <1>2, <1>3

\* The innermost frame.
LEMMA HeldTop ==
    ASSUME PoolType, FrameInv, ShapeInv, NEW t \in Threads
    PROVE  /\ Len(stack[t]) \in Nat
           /\ \A l, j : Held(t, Len(stack[t]), l, j) <=> Top(t).at = l /\ Top(t).job = j
           /\ \A u \in Threads, k \in Nat : \A l, j :
                 u = t /\ k >= Len(stack[t]) /\ Held(u, k, l, j) =>
                    k = Len(stack[t]) /\ Top(t).at = l /\ Top(t).job = j
<1>1. /\ Len(stack[t]) \in Nat /\ Len(stack[t]) >= 1
      /\ Top(t) = stack[t][Len(stack[t])]
  BY TopFrame
<1>2. QED
  BY <1>1 DEF Held

\* Steps between labels at which no job is owned.
LEMMA QuietFlow ==
    ASSUME PoolType, FrameInv, ShapeInv, NEW t \in Threads, Top(t).at \notin Owning
    PROVE  /\ \A b : b \notin Owning /\ Replaces(t, b) => Quiet
           /\ \A b, c : b \notin Owning /\ c \notin Owning /\ Pushes(t, b, c) => Quiet
           /\ Pops(t) => Quiet
<1>1. ASSUME NEW b, b \notin Owning, Replaces(t, b)
      PROVE  Quiet
  <2>1. PICK f \in Frames : f.at = b /\ ReplacedBy(t, f)
    BY <1>1 DEF Replaces
  <2>2. SUFFICES ASSUME NEW u \in Threads, NEW k \in Nat, NEW l \in Owning, NEW j \in Jobs
                 PROVE  /\ Held(u, k, l, j)' <=> Held(u, k, l, j)
                        /\ Held(u, k, l, j) => stack'[u][k] = stack[u][k]
    BY DEF Quiet
  <2>3. ~(u = t /\ k >= Len(stack[t]) /\ Held(u, k, l, j))
    BY HeldTop, Zenon, Zenon
  <2>4. QED
    BY <1>1, <2>1, <2>3, HeldReplace
<1>2. ASSUME NEW b, NEW c, b \notin Owning, c \notin Owning, Pushes(t, b, c)
      PROVE  Quiet
  <2>1. PICK f, g \in Frames : f.at = b /\ g.at = c /\ PushedOn(t, f, g)
    BY <1>2 DEF Pushes
  <2>2. SUFFICES ASSUME NEW u \in Threads, NEW k \in Nat, NEW l \in Owning, NEW j \in Jobs
                 PROVE  /\ Held(u, k, l, j)' <=> Held(u, k, l, j)
                        /\ Held(u, k, l, j) => stack'[u][k] = stack[u][k]
    BY DEF Quiet
  <2>3. ~(u = t /\ k >= Len(stack[t]) /\ Held(u, k, l, j))
    BY HeldTop, Zenon
  <2>4. QED
    BY <1>2, <2>1, <2>3, HeldPush
<1>3. ASSUME Pops(t)
      PROVE  Quiet
  <2>1. SUFFICES ASSUME NEW u \in Threads, NEW k \in Nat, NEW l \in Owning, NEW j \in Jobs
                 PROVE  /\ Held(u, k, l, j)' <=> Held(u, k, l, j)
                        /\ Held(u, k, l, j) => stack'[u][k] = stack[u][k]
    BY DEF Quiet
  <2>2. ~(u = t /\ k >= Len(stack[t]) /\ Held(u, k, l, j))
    BY HeldTop, Zenon, Zenon
  <2>3. QED
    BY <1>3, <2>2, HeldPop
<1>4. QED
  BY <1>1, <1>2, <1>3

\* A job that is new or in a queue is owned by no frame.
LEMMA Unowned ==
    ASSUME PoolType, FrameInv, ShapeInv, NEW j \in Jobs, OwnerOK(j), job[j] \in {"new", "queued"}
    PROVE  Nowhere(j)
  BY DEF Nowhere, OwnerOK, Held, Owning, Adding

\* A job is owned by no other frame than the innermost one of t.
LEMMA TopOwns ==
    ASSUME PoolType, FrameInv, ShapeInv, NEW t \in Threads, NEW j \in Jobs, OwnerOK(j),
           Top(t).at \in Owning, Top(t).job = j
    PROVE  \A u \in Threads, k \in Nat, l \in Owning :
               Held(u, k, l, j) => u = t /\ k = Len(stack[t]) /\ l = Top(t).at
<1>1. Held(t, Len(stack[t]), Top(t).at, j)
  BY HeldTop
<1>2. ASSUME NEW u \in Threads, NEW k \in Nat, NEW l \in Owning, Held(u, k, l, j)
      PROVE  u = t /\ k = Len(stack[t])
  BY <1>1, <1>2 DEF OwnerOK, Held
<1>3. QED
  BY <1>2, HeldTop

\* The owner of a job goes on to label m.
LEMMA JobGoes ==
    ASSUME PoolType, FrameInv, ShapeInv, NEW t \in Threads, NEW j \in Jobs, OwnerOK(j),
           Top(t).at \in Owning, Top(t).job = j, NEW m \in Owning, m # "body", ReplacesJob(t, m)
    PROVE  MovesOnly(j) /\ After(t, j, m)
<1>1. PICK f \in Frames : f.at = m /\ f.job = j /\ ReplacedBy(t, f)
  BY DEF ReplacesJob
<1>2. MovesOnly(j)
  <2>1. SUFFICES ASSUME NEW u \in Threads, NEW k \in Nat, NEW l \in Owning, NEW i \in Jobs \ {j}
                 PROVE  /\ Held(u, k, l, i)' <=> Held(u, k, l, i)
                        /\ Held(u, k, l, i) => stack'[u][k].left \subseteq stack[u][k].left
    BY DEF MovesOnly
  <2>2. ~(u = t /\ k >= Len(stack[t]) /\ Held(u, k, l, i))
    BY HeldTop, Zenon, Zenon
  <2>3. QED
    BY <1>1, <2>2, HeldReplace
<1>3. \A u \in Threads, k \in Nat, l \in Owning :
          Held(u, k, l, j)' <=> u = t /\ k = Len(stack[t]) /\ l = m
  BY <1>1, TopOwns, HeldReplace
<1>4. QED
  BY <1>1, <1>2, <1>3, TopFrame DEF After, ReplacedBy

\* The owner of a job lets it go.
LEMMA JobLeaves ==
    ASSUME PoolType, FrameInv, ShapeInv, NEW t \in Threads, NEW j \in Jobs, OwnerOK(j),
           Top(t).at \in Owning, Top(t).job = j,
           Pops(t) \/ \E m : m \notin Owning /\ Replaces(t, m)
    PROVE  MovesOnly(j) /\ Nowhere(j)'
<1>1. ASSUME NEW u \in Threads, NEW k \in Nat, NEW l \in Owning, NEW i \in Jobs
      PROVE  /\ Held(u, k, l, i)' <=> ~(u = t /\ k = Len(stack[t])) /\ Held(u, k, l, i)
             /\ ~(u = t /\ k = Len(stack[t])) /\ Held(u, k, l, i) => stack'[u][k] = stack[u][k]
  <2>1. CASE Pops(t)
    BY <2>1, HeldPop
  <2>2. CASE \E m : m \notin Owning /\ Replaces(t, m)
    <3>1. PICK f \in Frames : f.at \notin Owning /\ ReplacedBy(t, f)
      BY <2>2 DEF Replaces
    <3>2. QED
      BY <3>1, HeldReplace
  <2>3. QED
    BY <2>1, <2>2
<1>2. MovesOnly(j)
  BY <1>1, HeldTop DEF MovesOnly
<1>3. \A u \in Threads, k \in Nat, l \in Owning : ~Held(u, k, l, j)'
  BY <1>1, TopOwns
<1>4. QED
  BY <1>2, <1>3 DEF Nowhere

\* A frame that is to own a job is called.
LEMMA JobCalled ==
    ASSUME PoolType, FrameInv, ShapeInv, NEW t \in Threads, NEW j \in Jobs, OwnerOK(j),
           NEW f \in Frames, NEW g \in Frames, PushedOn(t, f, g),
           g.at \in Owning, g.job = j, g.at = "body" => g.left = Spawns[j],
           \/ f.at \notin Owning /\ Top(t).at \notin Owning /\ Nowhere(j)
           \/ f.at \notin Owning /\ Top(t).at \in Owning /\ Top(t).job = j
           \/ /\ f.at = "body" /\ Top(t).at = "body" /\ Nowhere(j)
              /\ f.job = Top(t).job /\ f.left \subseteq Top(t).left
    PROVE  MovesOnly(j) /\ After(t, j, g.at)
<1> DEFINE n == Len(stack[t])
<1>1. n \in Nat /\ n >= 1
  BY TopFrame
<1>2. \A u \in Threads, k \in Nat, l \in Owning :
          Held(u, k, l, j) => u = t /\ k = n /\ f.at # "body"
  BY TopOwns DEF Nowhere, Owning
<1>3. \A u \in Threads, k \in Nat, l \in Owning : Held(u, k, l, j)' <=> u = t /\ k = n + 1 /\ l = g.at
  <2>1. TAKE u \in Threads, k \in Nat, l \in Owning
  <2>2. ~(u = t /\ k = n /\ f.at = l /\ f.job = j)
    <3>0. "body" \in Owning
      BY DEF Owning
    <3>1. f.at = "body" => f.job # j
      <4>1. SUFFICES ASSUME f.at = "body" PROVE f.job # j
        OBVIOUS
      <4>2. Top(t).at = "body" /\ Nowhere(j) /\ f.job = Top(t).job
        BY <3>0, <4>1
      <4>3. ~Held(t, n, "body", j)
        BY <1>1, <3>0, <4>2 DEF Nowhere
      <4>4. QED
        BY <4>2, <4>3, HeldTop
    <3>2. QED
      BY <3>1
  <2>3. QED
    BY <1>1, <1>2, <2>2, HeldPush
<1>4. MovesOnly(j)
  <2>1. SUFFICES ASSUME NEW u \in Threads, NEW k \in Nat, NEW l \in Owning, NEW i \in Jobs \ {j}
                 PROVE  /\ Held(u, k, l, i)' <=> Held(u, k, l, i)
                        /\ Held(u, k, l, i) => stack'[u][k].left \subseteq stack[u][k].left
    BY DEF MovesOnly
  <2>2. CASE ~(u = t /\ k >= n)
    BY <2>2, <1>1, HeldPush
  <2>3. CASE u = t /\ k > n
    BY <2>3, <1>1, HeldPush, HeldTop
  <2>4. CASE u = t /\ k = n
    <3>1. Held(u, k, l, i) <=> Top(t).at = l /\ Top(t).job = i
      BY <2>4, HeldTop
    <3>2. Held(u, k, l, i)' <=> f.at = l /\ f.job = i
      BY <2>4, <1>1, HeldPush
    <3>3. stack'[t][n] = f /\ stack[t][n] = Top(t)
      BY TopFrame DEF PushedOn
    <3>4. QED
      BY <2>4, <3>1, <3>2, <3>3
  <2>5. QED
    BY <1>1, <2>2, <2>3, <2>4
<1>5. n + 1 \in 1..Len(stack'[t]) /\ stack'[t][n + 1] = g
  BY <1>1 DEF PushedOn
<1>6. QED
  BY <1>1, <1>3, <1>4, <1>5 DEF After

-----------------------------------------------------------------------------
(* The steps that move a job; the others leave all jobs where they are.    *)

Idle == Quiet /\ UNCHANGED <<queue, job, submitted, finished, hasExc, exc>>

\* A client or the body of job p adds job j.
Adds(t, j) ==
    /\ job[j] = "new" /\ job' = [job EXCEPT ![j] = "adding"]
    /\ MovesOnly(j) /\ Nowhere(j) /\ After(t, j, "submit")
    /\ \/ j \notin Spawned
       \/ \E p \in Jobs, k \in Nat : /\ Held(t, k, "body", p) /\ j \in Spawns[p]
                                     /\ j \notin stack'[t][k].left
    /\ UNCHANGED <<queue, submitted, finished, hasExc, exc>>

\* The job is counted, then put in the queue or run.
Submits(t, j) ==
    /\ Held(t, Len(stack[t]), "submit", j) /\ MovesOnly(j) /\ After(t, j, "push")
    /\ submitted' = submitted + 1
    /\ UNCHANGED <<queue, job, finished, hasExc, exc>>

Queues(t, j) ==
    /\ Held(t, Len(stack[t]), "push", j) /\ MovesOnly(j) /\ Nowhere(j)'
    /\ job' = [job EXCEPT ![j] = "queued"]
    /\ queue' = [queue EXCEPT ![t] = Append(queue[t], j)]
    /\ UNCHANGED <<submitted, finished, hasExc, exc>>

RunsItself(t, j) ==
    /\ Held(t, Len(stack[t]), "push", j) /\ MovesOnly(j) /\ After(t, j, "body")
    /\ job' = [job EXCEPT ![j] = "running"]
    /\ UNCHANGED <<queue, submitted, finished, hasExc, exc>>

\* It is taken from one end of a queue or the other.
TakesFrom(q, j, r) ==
    /\ r \in Seq(Jobs) /\ Range(queue[q]) = Range(r) \cup {j}
    /\ IsInjective(queue[q]) => IsInjective(r) /\ j \notin Range(r)

Takes(t, j) ==
    /\ MovesOnly(j) /\ Nowhere(j) /\ After(t, j, "body")
    /\ job' = [job EXCEPT ![j] = "running"]
    /\ \E q \in Threads, r \in Seq(Jobs) : TakesFrom(q, j, r) /\ queue' = [queue EXCEPT ![q] = r]
    /\ UNCHANGED <<submitted, finished, hasExc, exc>>

\* Its body ends, that is counted, and an exception is kept.
Stops(t, j) ==
    /\ Held(t, Len(stack[t]), "body", j) /\ MovesOnly(j) /\ After(t, j, "finish")
    /\ job' = [job EXCEPT ![j] = IF j \in Throws THEN "threw" ELSE "done"]
    /\ UNCHANGED <<queue, submitted, finished, hasExc, exc>>

Counts(t, j) ==
    /\ Held(t, Len(stack[t]), "finish", j) /\ MovesOnly(j)
    /\ IF j \in Throws THEN After(t, j, "hasExc") ELSE Nowhere(j)'
    /\ finished' = finished + 1
    /\ UNCHANGED <<queue, job, submitted, hasExc, exc>>

Catches(t, j) ==
    /\ Held(t, Len(stack[t]), "hasExc", j) /\ MovesOnly(j)
    /\ IF hasExc = 0 THEN After(t, j, "exc") ELSE Nowhere(j)'
    /\ hasExc' = hasExc + 1
    /\ UNCHANGED <<queue, job, submitted, finished, exc>>

Keeps(t, j) ==
    /\ Held(t, Len(stack[t]), "exc", j) /\ MovesOnly(j) /\ Nowhere(j)'
    /\ exc' = j
    /\ UNCHANGED <<queue, job, submitted, finished, hasExc>>

JobMoves(t, j) ==
    \/ Adds(t, j) \/ Submits(t, j) \/ Queues(t, j) \/ RunsItself(t, j) \/ Takes(t, j)
    \/ Stops(t, j) \/ Counts(t, j) \/ Catches(t, j) \/ Keeps(t, j)

\* The newest job taken off a queue.
LEMMA FrontRange ==
    ASSUME NEW q \in Seq(Jobs), q # <<>>
    PROVE  LET r == SubSeq(q, 1, Len(q) - 1) IN
           /\ q[Len(q)] \in Jobs /\ r \in Seq(Jobs)
           /\ Range(q) = Range(r) \cup {q[Len(q)]}
           /\ IsInjective(q) => IsInjective(r) /\ q[Len(q)] \notin Range(r)
<1> DEFINE r == SubSeq(q, 1, Len(q) - 1)
           n == Len(q)
<1>1. n \in Nat /\ n >= 1 /\ DOMAIN q = 1..n /\ \A k \in 1..n : q[k] \in Jobs
  BY LenProperties, ElementOfSeq, EmptySeq
<1>2. r \in Seq(Jobs) /\ Len(r) = n - 1 /\ \A k \in 1..(n - 1) : r[k] = q[k]
  <2>1. n \in 1..n
    BY <1>1
  <2>2. q[n] \in Jobs
    BY <1>1, <2>1
  <2>3. QED
    BY <1>1, <2>2, StackOps
<1>3. DOMAIN r = 1..(n - 1)
  BY <1>2, LenProperties
<1> HIDE DEF r, n
<1>4. \A k \in 1..n : k \in 1..(n - 1) \/ k = n
  BY <1>1
<1>5. (n \in 1..n) /\ \A k \in 1..(n - 1) : k \in 1..n /\ k # n
  BY <1>1
<1>6. Range(q) = Range(r) \cup {q[n]}
  <2>1. \A x : x \in Range(q) <=> \E k \in 1..n : q[k] = x
    BY <1>1, Zenon DEF Range
  <2>2. \A x : x \in Range(r) <=> \E k \in 1..(n - 1) : r[k] = x
    BY <1>3, Zenon DEF Range
  <2>3. \A x : x \in Range(q) <=> x \in Range(r) \/ x = q[n]
    BY <1>2, <1>4, <1>5, <2>1, <2>2
  <2>4. QED
    BY <2>3
<1>7. ASSUME IsInjective(q)
      PROVE  IsInjective(r) /\ q[n] \notin Range(r)
  <2>1. \A a, b \in 1..n : q[a] = q[b] => a = b
    BY <1>1, <1>7 DEF IsInjective
  <2>2. IsInjective(r)
    BY <1>2, <1>3, <1>5, <2>1 DEF IsInjective
  <2>3. q[n] \notin Range(r)
    BY <1>2, <1>3, <1>5, <2>1 DEF Range
  <2>4. QED
    BY <2>2, <2>3
<1>8. QED
  BY <1>1, <1>2, <1>5, <1>6, <1>7 DEF r, n

\* Waking a worker moves no job.
LEMMA QuietWake ==
    ASSUME PoolType, FrameInv, ShapeInv, NEW t \in Threads,
           \/ Top(t).at = "notify" /\ \E w \in Workers : Wakes(t, w)
           \/ Top(t).at = "notifyAll" /\ WakesAll(t)
    PROVE  Quiet
<1>1. SUFFICES ASSUME NEW u \in Threads, NEW k \in Nat, NEW l \in Owning, NEW j \in Jobs
               PROVE  /\ Held(u, k, l, j)' <=> Held(u, k, l, j)
                      /\ Held(u, k, l, j) => stack'[u][k] = stack[u][k]
  BY DEF Quiet
<1>2. /\ Frame("wake").at = "wake" /\ Frame("join").at = "join"
      /\ "wake" \notin Owning /\ "join" \notin Owning /\ "sleep" \notin Owning
      /\ "notify" \notin Owning /\ "notifyAll" \notin Owning
  BY DEF Frame, Owning, Adding
<1>3. \A v \in Threads : /\ Len(stack[v]) \in Nat /\ Len(stack[v]) >= 1
                         /\ Top(v) = stack[v][Len(stack[v])]
  BY TopFrame
<1>4. ASSUME NEW v \in Threads, Len(stack[v]) = 1, Len(stack'[v]) = 1,
             Top(v).at \notin Owning, stack'[v][1].at \notin Owning
      PROVE  ~Held(v, k, l, j) /\ ~Held(v, k, l, j)'
  BY <1>3, <1>4 DEF Held
<1>5. ASSUME NEW v \in Threads, stack'[v] = stack[v]
      PROVE  /\ Held(v, k, l, j)' <=> Held(v, k, l, j)
             /\ stack'[v][k] = stack[v][k]
  BY <1>5 DEF Held
<1>6. CASE Top(t).at = "notify" /\ \E w \in Workers : Wakes(t, w)
  <2>1. PICK w \in Workers : Wakes(t, w)
    BY <1>6
  <2>2. w \in Threads
    BY DEF Threads
  <2>3. CASE u = w
    BY <1>2, <1>4, <2>1, <2>2, <2>3 DEF Wakes
  <2>4. CASE u = t
    BY <1>2, <1>3, <1>6, <2>1, <2>4 DEF Wakes, Kept, Held
  <2>5. CASE u \notin {t, w}
    BY <1>5, <2>1, <2>5 DEF Wakes
  <2>6. QED
    BY <2>3, <2>4, <2>5
<1>7. CASE Top(t).at = "notifyAll" /\ WakesAll(t)
  <2>1. CASE u = t
    BY <1>2, <1>4, <1>7, <2>1 DEF WakesAll
  <2>2. CASE u # t
    BY <1>2, <1>4, <1>5, <1>7, <2>2 DEF WakesAll
  <2>3. QED
    BY <2>1, <2>2
<1>8. QED
  BY <1>6, <1>7

\* Every step is one of these.
LEMMA JobStep ==
    ASSUME PoolType, FrameInv, ShapeInv, OwnerInv, QueueInv, SpawnInv,
           NEW t \in Threads, ClientCalls(t) \/ Steps(t)
    PROVE  Idle \/ \E j \in Jobs : JobMoves(t, j)
<1>0. /\ \A l, j : Held(t, Len(stack[t]), l, j) <=> Top(t).at = l /\ Top(t).job = j
      /\ \A j \in Jobs : OwnerOK(j)
      /\ Len(stack[t]) \in Nat
  BY HeldTop DEF OwnerInv
<1>1. CASE clientAdd(t)
  <2>1. PICK j \in Jobs \ Spawned : /\ job[j] = "new" /\ job' = [job EXCEPT ![j] = "adding"]
                                    /\ PushesOn(t, "client", AddFrame(j))
    BY <1>1, AddFlows
  <2>2. Nowhere(j)
    BY <1>0, <2>1, Unowned
  <2>3. PICK f \in Frames : f.at = "client" /\ PushedOn(t, f, AddFrame(j))
    BY <2>1 DEF PushesOn
  <2>4. /\ AddFrame(j) \in Frames /\ AddFrame(j).at = "submit" /\ AddFrame(j).job = j
        /\ "submit" \in Owning /\ "client" \notin Owning
    BY JobFrames DEF Owning, Adding
  <2>5. Top(t).at = "client"
    BY <1>1, AddFlows
  <2>6. MovesOnly(j) /\ After(t, j, "submit")
    BY <1>0, <2>2, <2>3, <2>4, <2>5, JobCalled
  <2>7. UNCHANGED <<queue, submitted, finished, hasExc, exc>>
    BY <1>1 DEF clientAdd, counters, excVars, queueVars
  <2>8. Adds(t, j)
    BY <2>1, <2>2, <2>6, <2>7 DEF Adds
  <2>9. QED
    BY <2>8 DEF JobMoves
<1>2. CASE clientWait(t)
  <2>1. Quiet
    BY <1>2, ClientFlows, QuietFlow DEF Owning, Adding
  <2>2. QED
    BY <1>2, <2>1 DEF Idle, clientWait, counters, excVars, queueVars, StackOnly
<1>3. CASE clientWork(t)
  <2>1. Quiet
    BY <1>3, ClientFlows, QuietFlow DEF Owning, Adding
  <2>2. QED
    BY <1>3, <2>1 DEF Idle, clientWork, counters, excVars, queueVars, StackOnly
<1>4. CASE clientExit(t)
  <2>1. Quiet
    BY <1>4, ClientFlows, QuietFlow DEF Owning, Adding
  <2>2. QED
    BY <1>4, <2>1 DEF Idle, clientExit, counters, excVars, queueVars, StackOnly
<1>5. CASE destroy(t)
  <2>1. Quiet
    BY <1>5, ClientFlows, QuietFlow DEF Owning, Adding
  <2>2. QED
    BY <1>5, <2>1 DEF Idle, destroy, counters, excVars, queueVars, StackOnly
<1>6. CASE unpublishThread(t)
  <2>1. Quiet
    BY <1>6, ClientFlows, QuietFlow DEF Owning, Adding
  <2>2. QED
    BY <1>6, <2>1 DEF Idle, unpublishThread, counters, excVars, queueVars, StackOnly
<1>7. CASE notifyAll(t)
  <2>1. Quiet
    BY <1>7, NotifyFlows, QuietFlow, QuietWake DEF Owning, Adding
  <2>2. QED
    BY <1>7, <2>1 DEF Idle, notifyAll, counters, excVars, queueVars, StackOnly
<1>8. CASE join(t)
  <2>1. Quiet
    BY <1>8, ClientFlows, QuietFlow DEF Owning, Adding
  <2>2. QED
    BY <1>8, <2>1 DEF Idle, join, counters, excVars, queueVars, StackOnly
<1>9. CASE addSubmit(t)
  <2>0. Top(t).at = "submit" /\ ReplacesJob(t, "push") /\ Top(t).job \in Jobs
    BY <1>9, AddFlows, TopFrame DEF FrameOK, JobLabels
  <2>1. PICK j \in Jobs : j = Top(t).job
    BY <2>0
  <2>2. "submit" \in Owning /\ "push" \in Owning
    BY DEF Owning, Adding
  <2>3. MovesOnly(j) /\ After(t, j, "push") /\ Held(t, Len(stack[t]), "submit", j)
    BY <1>0, <2>0, <2>1, <2>2, JobGoes
  <2>4. Submits(t, j)
    BY <1>9, <2>3 DEF Submits, addSubmit, queueVars, excVars
  <2>5. QED
    BY <2>4 DEF JobMoves
<1>10. CASE addPush(t)
  <2>0. Top(t).at = "push" /\ Top(t).job \in Jobs
    BY <1>10, AddFlows
  <2>1. PICK j \in Jobs : j = Top(t).job
    BY <2>0
  <2>2. /\ "push" \in Owning /\ "body" \in Owning /\ "added" \notin Owning
        /\ "notify" \notin Owning
    BY DEF Owning, Adding
  <2>3. Held(t, Len(stack[t]), "push", j)
    BY <1>0, <2>0, <2>1
  <2>4. UNCHANGED <<submitted, finished, hasExc, exc>>
    BY <1>10, <2>1 DEF addPush, counters, excVars
  <2>5. CASE /\ PushesOn(t, "added", RunFrame(j)) /\ queue' = queue
             /\ job' = [job EXCEPT ![j] = "running"]
    <3>1. PICK f \in Frames : f.at = "added" /\ PushedOn(t, f, RunFrame(j))
      BY <2>5 DEF PushesOn
    <3>2. /\ RunFrame(j) \in Frames /\ RunFrame(j).at = "body" /\ RunFrame(j).job = j
          /\ RunFrame(j).left = Spawns[j]
      BY JobFrames
    <3>3. MovesOnly(j) /\ After(t, j, "body")
      BY <1>0, <2>0, <2>1, <2>2, <3>1, <3>2, JobCalled
    <3>4. RunsItself(t, j)
      BY <2>3, <2>4, <2>5, <3>3 DEF RunsItself
    <3>5. QED
      BY <3>4 DEF JobMoves
  <2>6. CASE /\ ReplacesJob(t, "notify")
             /\ queue' = [queue EXCEPT ![t] = Append(queue[t], j)]
             /\ job' = [job EXCEPT ![j] = "queued"]
    <3>1. Replaces(t, "notify")
      BY <2>6, JobPush
    <3>2. MovesOnly(j) /\ Nowhere(j)'
      BY <1>0, <2>0, <2>1, <2>2, <3>1, JobLeaves
    <3>3. Queues(t, j)
      BY <2>3, <2>4, <2>6, <3>2 DEF Queues
    <3>4. QED
      BY <3>3 DEF JobMoves
  <2>7. QED
    BY <1>10, <2>1, <2>5, <2>6, AddFlows
<1>11. CASE addReturn(t)
  <2>1. Quiet
    BY <1>11, AddFlows, QuietFlow DEF Owning, Adding
  <2>2. QED
    BY <1>11, <2>1 DEF Idle, addReturn, counters, excVars, queueVars, StackOnly
<1>12. CASE addNotify(t)
  <2>1. Quiet
    BY <1>12, NotifyFlows, QuietFlow, QuietWake DEF Owning, Adding
  <2>2. QED
    BY <1>12, <2>1 DEF Idle, addNotify, counters, excVars, queueVars, StackOnly
<1>13. CASE addParent(t)
  <2>1. Quiet
    BY <1>13, AddFlows, QuietFlow DEF Owning, Adding
  <2>2. QED
    BY <1>13, <2>1 DEF Idle, addParent, counters, excVars, queueVars, StackOnly
<1>14. CASE addParentUndo(t)
  <2>1. Quiet
    BY <1>14, AddFlows, QuietFlow DEF Owning, Adding
  <2>2. QED
    BY <1>14, <2>1 DEF Idle, addParentUndo, counters, excVars, queueVars, StackOnly
<1>15. CASE addParentJob(t)
  <2>1. Quiet
    BY <1>15, AddFlows, QuietFlow DEF Owning, Adding
  <2>2. QED
    BY <1>15, <2>1 DEF Idle, addParentJob, counters, excVars, queueVars, StackOnly
<1>16. CASE bodyAdd(t)
  <2>1. Top(t).at = "body" /\ Top(t).job \in Jobs
    BY <1>16, RunFlows
  <2>2. PICK j \in Top(t).left, f \in Frames :
                      /\ j \in Spawns[Top(t).job] /\ job' = [job EXCEPT ![j] = "adding"]
                      /\ f.at = "body" /\ f.job = Top(t).job /\ f.left = Top(t).left \ {j}
                      /\ PushedOn(t, f, AddFrame(j))
    BY <1>16, RunFlows
  <2>3. j \in Jobs
    BY <2>1, <2>2, ThreadPoolAssumption
  <2>4. Held(t, Len(stack[t]), "body", Top(t).job) /\ stack[t][Len(stack[t])] = Top(t)
    BY <1>0, <2>1, TopFrame
  <2>5. job[j] = "new"
    BY <2>1, <2>2, <2>4 DEF SpawnInv, Held
  <2>6. Nowhere(j)
    BY <1>0, <2>3, <2>5, Unowned
  <2>7. /\ AddFrame(j) \in Frames /\ AddFrame(j).at = "submit" /\ AddFrame(j).job = j
        /\ "submit" \in Owning
    BY <2>3, JobFrames DEF Owning, Adding
  <2>8. MovesOnly(j) /\ After(t, j, "submit")
    BY <1>0, <2>1, <2>2, <2>3, <2>6, <2>7, JobCalled
  <2>9. UNCHANGED <<queue, submitted, finished, hasExc, exc>>
    BY <1>16 DEF bodyAdd, counters, excVars, queueVars
  <2>10. j \notin stack'[t][Len(stack[t])].left
    BY <2>2 DEF PushedOn
  <2>11. Adds(t, j)
    BY <1>0, <2>1, <2>2, <2>4, <2>5, <2>6, <2>8, <2>9, <2>10 DEF Adds
  <2>12. QED
    BY <2>3, <2>11 DEF JobMoves
<1>17. CASE bodyEnd(t)
  <2>0. Top(t).at = "body" /\ ReplacesJob(t, "finish") /\ Top(t).job \in Jobs
    BY <1>17, RunFlows
  <2>1. PICK j \in Jobs : j = Top(t).job
    BY <2>0
  <2>2. "body" \in Owning /\ "finish" \in Owning
    BY DEF Owning
  <2>3. MovesOnly(j) /\ After(t, j, "finish") /\ Held(t, Len(stack[t]), "body", j)
    BY <1>0, <2>0, <2>1, <2>2, JobGoes
  <2>4. /\ job' = [job EXCEPT ![j] = IF j \in Throws THEN "threw" ELSE "done"]
        /\ UNCHANGED <<queue, submitted, finished, hasExc, exc>>
    BY <1>17, <2>1 DEF bodyEnd, Progress, counters, queueVars, excVars
  <2>5. Stops(t, j)
    BY <2>3, <2>4 DEF Stops
  <2>6. QED
    BY <2>5 DEF JobMoves
<1>18. CASE jobFinish(t)
  <2>0. /\ Top(t).at = "finish" /\ Top(t).job \in Jobs
        /\ IF Top(t).job \in Throws THEN ReplacesJob(t, "hasExc") ELSE Pops(t)
    BY <1>18, RunFlows
  <2>1. PICK j \in Jobs : j = Top(t).job
    BY <2>0
  <2>2. "finish" \in Owning /\ "hasExc" \in Owning
    BY DEF Owning
  <2>3. MovesOnly(j) /\ IF j \in Throws THEN After(t, j, "hasExc") ELSE Nowhere(j)'
    <3>1. CASE j \in Throws
      BY <1>0, <2>0, <2>1, <2>2, <3>1, JobGoes
    <3>2. CASE j \notin Throws
      BY <1>0, <2>0, <2>1, <2>2, <3>2, JobLeaves
    <3>3. QED
      BY <3>1, <3>2
  <2>4. Held(t, Len(stack[t]), "finish", j)
    BY <1>0, <2>0, <2>1
  <2>5. finished' = finished + 1 /\ UNCHANGED <<queue, job, submitted, hasExc, exc>>
    BY <1>18, <2>1 DEF jobFinish, queueVars, excVars
  <2>6. Counts(t, j)
    BY <2>3, <2>4, <2>5 DEF Counts
  <2>7. QED
    BY <2>6 DEF JobMoves
<1>19. CASE handleException(t)
  <2>0. PICK j \in Jobs : j = Top(t).job
    BY <1>19, RunFlows, TopFrame DEF FrameOK, JobLabels
  <2>1. \A l : At(t, l) <=> Top(t).at = l
    BY TopFrame
  <2>2. UNCHANGED <<queue, job, submitted, finished>>
    BY <1>19 DEF handleException, counters, queueVars
  <2>3. "hasExc" \in Owning /\ "exc" \in Owning
    BY DEF Owning
  <2>4. CASE Top(t).at = "hasExc"
    <3>1. hasExc' = hasExc + 1 /\ UNCHANGED exc
      BY <1>19, <2>1, <2>4 DEF handleException
    <3>2. IF hasExc = 0 THEN ReplacesJob(t, "exc") ELSE Pops(t)
      BY <1>19, <2>4, RunFlows
    <3>3. MovesOnly(j) /\ IF hasExc = 0 THEN After(t, j, "exc") ELSE Nowhere(j)'
      <4>1. CASE hasExc = 0
        BY <1>0, <2>0, <2>3, <2>4, <3>2, <4>1, JobGoes
      <4>2. CASE hasExc # 0
        BY <1>0, <2>0, <2>3, <2>4, <3>2, <4>2, JobLeaves
      <4>3. QED
        BY <4>1, <4>2
    <3>4. Held(t, Len(stack[t]), "hasExc", j)
      BY <1>0, <2>0, <2>4
    <3>5. Catches(t, j)
      BY <2>2, <3>1, <3>3, <3>4 DEF Catches
    <3>6. QED
      BY <3>5 DEF JobMoves
  <2>5. CASE Top(t).at = "exc"
    <3>1. exc' = j /\ UNCHANGED hasExc
      BY <1>19, <2>0, <2>1, <2>5 DEF handleException
    <3>2. Pops(t)
      BY <1>19, <2>5, RunFlows
    <3>3. MovesOnly(j) /\ Nowhere(j)'
      BY <1>0, <2>0, <2>3, <2>5, <3>2, JobLeaves
    <3>4. Held(t, Len(stack[t]), "exc", j)
      BY <1>0, <2>0, <2>5
    <3>5. Keeps(t, j)
      BY <2>2, <3>1, <3>3, <3>4 DEF Keeps
    <3>6. QED
      BY <3>5 DEF JobMoves
  <2>6. QED
    BY <1>19, <2>4, <2>5, RunFlows
<1>20. CASE runMine(t)
  <2>1. Top(t).at = "mine" /\ "mine" \notin Owning /\ "body" \in Owning
    BY <1>20, StealFlows DEF Owning, Adding
  <2>2. UNCHANGED <<submitted, finished, hasExc, exc>>
    BY <1>20 DEF runMine, counters, excVars
  <2>3. CASE queue[t] = <<>>
    <3>1. Quiet
      BY <1>20, <2>1, <2>3, StealFlows, QuietFlow
    <3>2. UNCHANGED <<queue, job>>
      BY <1>20, <2>3 DEF runMine
    <3>3. QED
      BY <2>2, <3>1, <3>2 DEF Idle
  <2>4. CASE queue[t] # <<>>
    <3>0. PICK j \in Jobs, r \in Seq(Jobs) : /\ j = queue[t][Len(queue[t])]
                                             /\ r = SubSeq(queue[t], 1, Len(queue[t]) - 1)
      BY <2>4, FrontRange DEF PoolType
    <3>1. queue' = [queue EXCEPT ![t] = r] /\ job' = [job EXCEPT ![j] = "running"]
      BY <1>20, <2>4, <3>0 DEF runMine, Progress
    <3>2. PushesOn(t, "mine", RunFrame(j))
      BY <1>20, <2>4, <3>0, StealFlows
    <3>3. TakesFrom(t, j, r)
      BY <2>4, <3>0, FrontRange DEF PoolType, TakesFrom
    <3>4. Nowhere(j)
      <4>1. j \in Range(queue[t])
        BY <3>3 DEF TakesFrom
      <4>2. job[j] = "queued"
        BY <4>1 DEF QueueInv
      <4>3. QED
        BY <1>0, <4>2, Unowned
    <3>5. PICK f \in Frames : f.at = "mine" /\ PushedOn(t, f, RunFrame(j))
      BY <3>2 DEF PushesOn
    <3>6. /\ RunFrame(j) \in Frames /\ RunFrame(j).at = "body" /\ RunFrame(j).job = j
          /\ RunFrame(j).left = Spawns[j]
      BY JobFrames
    <3>7. MovesOnly(j) /\ After(t, j, "body")
      BY <1>0, <2>1, <3>4, <3>5, <3>6, JobCalled
    <3>8. Takes(t, j)
      BY <2>2, <3>1, <3>3, <3>4, <3>7 DEF Takes
    <3>9. QED
      BY <3>8 DEF JobMoves
  <2>5. QED
    BY <2>3, <2>4
<1>21. CASE stealRefresh(t)
  <2>1. Quiet
    BY <1>21, StealFlows, QuietFlow DEF Owning, Adding
  <2>2. QED
    BY <1>21, <2>1 DEF Idle, stealRefresh, counters, excVars, queueVars, StackOnly
<1>22. CASE stealNext(t)
  <2>1. Quiet
    BY <1>22, StealFlows, QuietFlow DEF Owning, Adding
  <2>2. QED
    BY <1>22, <2>1 DEF Idle, stealNext, counters, excVars, queueVars, StackOnly
<1>23. CASE stealLook(t)
  <2>1. Quiet
    BY <1>23, StealFlows, QuietFlow DEF Owning, Adding
  <2>2. QED
    BY <1>23, <2>1 DEF Idle, stealLook, counters, excVars, queueVars, StackOnly
<1>24. CASE stealClaim(t)
  <2>1. /\ Top(t).at = "claim" /\ "claim" \notin Owning /\ "scan" \notin Owning
        /\ "stole" \notin Owning /\ "body" \in Owning
    BY <1>24, StealFlows DEF Owning, Adding
  <2>2. UNCHANGED <<submitted, finished, hasExc, exc>>
    BY <1>24 DEF stealClaim, counters, excVars
  <2>3. CASE Replaces(t, "scan") /\ UNCHANGED <<queue, job>>
    BY <2>1, <2>2, <2>3, QuietFlow DEF Idle
  <2>4. ASSUME NEW q \in Threads, NEW j \in Jobs, j = Top(t).job,
               queue[q] # <<>>, Head(queue[q]) = j,
               queue' = [queue EXCEPT ![q] = Tail(@)],
               job' = [job EXCEPT ![j] = "running"],
               PushesOn(t, "stole", RunFrame(j))
        PROVE  \E i \in Jobs : JobMoves(t, i)
    <3>1. TakesFrom(q, j, Tail(queue[q])) /\ Tail(queue[q]) \in Seq(Jobs)
      BY <2>4, TailRange DEF PoolType, TakesFrom
    <3>2. Nowhere(j)
      <4>1. j \in Range(queue[q])
        BY <3>1 DEF TakesFrom
      <4>2. job[j] = "queued"
        BY <4>1 DEF QueueInv
      <4>3. QED
        BY <1>0, <4>2, Unowned
    <3>3. PICK f \in Frames : f.at = "stole" /\ PushedOn(t, f, RunFrame(j))
      BY <2>4 DEF PushesOn
    <3>4. /\ RunFrame(j) \in Frames /\ RunFrame(j).at = "body" /\ RunFrame(j).job = j
          /\ RunFrame(j).left = Spawns[j]
      BY JobFrames
    <3>5. MovesOnly(j) /\ After(t, j, "body")
      BY <1>0, <2>1, <3>2, <3>3, <3>4, JobCalled
    <3>6. Takes(t, j)
      BY <2>2, <2>4, <3>1, <3>2, <3>5 DEF Takes
    <3>7. QED
      BY <3>6 DEF JobMoves
  <2>5. QED
    BY <1>24, <2>3, <2>4, StealFlows
<1>25. CASE stealMine(t)
  <2>1. Quiet
    BY <1>25, StealFlows, QuietFlow DEF Owning, Adding
  <2>2. QED
    BY <1>25, <2>1 DEF Idle, stealMine, counters, excVars, queueVars, StackOnly
<1>26. CASE waitSubmitted(t)
  <2>1. Quiet
    BY <1>26, WaitFlows, QuietFlow DEF Owning, Adding
  <2>2. QED
    BY <1>26, <2>1 DEF Idle, waitSubmitted, counters, excVars, queueVars, StackOnly
<1>27. CASE waitFinished(t)
  <2>1. Quiet
    BY <1>27, WaitFlows, QuietFlow DEF Owning, Adding
  <2>2. QED
    BY <1>27, <2>1 DEF Idle, waitFinished, counters, excVars, queueVars, StackOnly
<1>28. CASE waitWork(t)
  <2>1. Quiet
    BY <1>28, WaitFlows, QuietFlow DEF Owning, Adding
  <2>2. QED
    BY <1>28, <2>1 DEF Idle, waitWork, counters, excVars, queueVars, StackOnly
<1>29. CASE waitExc(t)
  <2>1. Quiet
    BY <1>29, WaitFlows, QuietFlow DEF Owning, Adding
  <2>2. QED
    BY <1>29, <2>1 DEF Idle, waitExc, counters, excVars, queueVars, StackOnly
<1>30. CASE waitReturn(t)
  <2>1. Quiet
    BY <1>30, WaitFlows, QuietFlow DEF Owning, Adding
  <2>2. QED
    BY <1>30, <2>1 DEF Idle, waitReturn, counters, excVars, queueVars, StackOnly
<1>31. CASE workerStart(t)
  <2>1. Quiet
    BY <1>31, WorkerFlows, QuietFlow DEF Owning, Adding
  <2>2. QED
    BY <1>31, <2>1 DEF Idle, workerStart, counters, excVars, queueVars, StackOnly
<1>32. CASE workerLoop(t)
  <2>1. Quiet
    BY <1>32, WorkerFlows, QuietFlow DEF Owning, Adding
  <2>2. QED
    BY <1>32, <2>1 DEF Idle, workerLoop, counters, excVars, queueVars, StackOnly
<1>33. CASE workerWork(t)
  <2>1. Quiet
    BY <1>33, WorkerFlows, QuietFlow DEF Owning, Adding
  <2>2. QED
    BY <1>33, <2>1 DEF Idle, workerWork, counters, excVars, queueVars, StackOnly
<1>34. CASE workerSleep(t)
  <2>1. Quiet
    BY <1>34, WorkerFlows, QuietFlow DEF Owning, Adding
  <2>2. QED
    BY <1>34, <2>1 DEF Idle, workerSleep, counters, excVars, queueVars, StackOnly
<1>35. CASE workerWait(t)
  <2>1. Quiet
    BY <1>35, WorkerFlows, QuietFlow DEF Owning, Adding
  <2>2. QED
    BY <1>35, <2>1 DEF Idle, workerWait, counters, excVars, queueVars, StackOnly
<1>36. CASE workerTimeout(t)
  <2>1. Quiet
    BY <1>36, WorkerFlows, QuietFlow DEF Owning, Adding
  <2>2. QED
    BY <1>36, <2>1 DEF Idle, workerTimeout, counters, excVars, queueVars, StackOnly
<1>37. CASE workerWake(t)
  <2>1. Quiet
    BY <1>37, WorkerFlows, QuietFlow DEF Owning, Adding
  <2>2. QED
    BY <1>37, <2>1 DEF Idle, workerWake, counters, excVars, queueVars, StackOnly
<1>38. CASE work(t)
  <2>1. Quiet
    BY <1>38, WaitFlows, QuietFlow DEF Owning, Adding
  <2>2. QED
    BY <1>38, <2>1 DEF Idle, work, counters, excVars, queueVars, StackOnly
<1>39. CASE parentBegin(t)
  <2>1. Quiet
    <3>1. CASE shutdown
      <4>1. stack' = stack
        BY <1>39, <3>1 DEF parentBegin
      <4>2. QED
        BY <4>1 DEF Quiet, Held
    <3>2. CASE ~shutdown
      BY <1>39, <3>2, ParentFlows, QuietFlow DEF Owning, Adding
    <3>3. QED
      BY <3>1, <3>2
  <2>2. QED
    BY <1>39, <2>1 DEF Idle, parentBegin, counters, excVars, queueVars, StackOnly
<1>40. CASE runParentWorker(t)
  <2>1. Quiet
    BY <1>40, ParentFlows, QuietFlow DEF Owning, Adding
  <2>2. QED
    BY <1>40, <2>1 DEF Idle, runParentWorker, counters, excVars, queueVars, StackOnly
<1>41. CASE parentEnd(t)
  <2>1. Quiet
    BY <1>41, ParentFlows, QuietFlow DEF Owning, Adding
  <2>2. QED
    BY <1>41, <2>1 DEF Idle, parentEnd, counters, excVars, queueVars, StackOnly
<1>42. QED
  BY <1>1, <1>2, <1>3, <1>4, <1>5, <1>6, <1>7, <1>8, <1>9, <1>10, <1>11, <1>12, <1>13, <1>14, <1>15, <1>16, <1>17, <1>18, <1>19, <1>20, <1>21, <1>22, <1>23, <1>24, <1>25, <1>26, <1>27, <1>28, <1>29, <1>30, <1>31, <1>32, <1>33, <1>34, <1>35, <1>36, <1>37, <1>38, <1>39, <1>40, <1>41
     DEF ClientCalls, Steps

-----------------------------------------------------------------------------
(* Every step keeps each job in one place.                                 *)

\* How far a job has come that is owned by a frame at label m.
Agrees(m, v) ==
    \/ m \in Adding /\ v = "adding"
    \/ m = "body" /\ v = "running"
    \/ m = "finish" /\ v \in {"done", "threw"}
    \/ m \in {"hasExc", "exc"} /\ v = "threw"

\* A job whose owner and state do not change keeps OwnerOK.
LEMMA OwnerSame ==
    ASSUME PoolType, PoolType', NEW i \in Jobs, OwnerOK(i), job'[i] = job[i],
           \A u \in Threads, k \in Nat, l \in Owning : Held(u, k, l, i)' <=> Held(u, k, l, i)
    PROVE  OwnerOK(i)'
<1>1. \A u \in Threads : Len(stack[u]) \in Nat /\ Len(stack'[u]) \in Nat
  BY LenProperties DEF PoolType
<1>2. \A u \in Threads : \A k, l : /\ Held(u, k, l, i) => k \in 1..Len(stack[u]) /\ k \in Nat
                                   /\ Held(u, k, l, i)' => k \in 1..Len(stack'[u]) /\ k \in Nat
  BY <1>1 DEF Held
<1>3. \A l \in {"submit", "push", "body", "finish", "hasExc", "exc"} : l \in Owning
  BY DEF Owning, Adding
<1>4. \A t, u \in Threads : \A k \in 1..Len(stack'[t]), m \in 1..Len(stack'[u]) :
          \A a, b \in Owning : Held(t, k, a, i)' /\ Held(u, m, b, i)' => t = u /\ k = m
  <2>1. ASSUME NEW t \in Threads, NEW u \in Threads, NEW k, NEW m, NEW a \in Owning, NEW b \in Owning,
               Held(t, k, a, i)', Held(u, m, b, i)'
        PROVE  t = u /\ k = m
    <3>1. k \in Nat /\ m \in Nat
      BY <1>2, <2>1
    <3>2. Held(t, k, a, i) /\ Held(u, m, b, i)
      BY <2>1, <3>1
    <3>3. k \in 1..Len(stack[t]) /\ m \in 1..Len(stack[u])
      BY <1>2, <3>2
    <3>4. QED
      BY <3>2, <3>3 DEF OwnerOK
  <2>2. QED
    BY <2>1
<1>5. \A t \in Threads : \A k \in 1..Len(stack'[t]) :
          /\ Held(t, k, "submit", i)' \/ Held(t, k, "push", i)' => job'[i] = "adding"
          /\ Held(t, k, "body", i)' => job'[i] = "running"
          /\ Held(t, k, "finish", i)' => job'[i] \in {"done", "threw"}
          /\ Held(t, k, "hasExc", i)' \/ Held(t, k, "exc", i)' => job'[i] = "threw"
  BY <1>2, <1>3 DEF OwnerOK
<1>6. job'[i] = "adding" => \E t \in Threads : \E k \in 1..Len(stack'[t]) :
                               Held(t, k, "submit", i)' \/ Held(t, k, "push", i)'
  BY <1>2, <1>3 DEF OwnerOK
<1>7. job'[i] = "running" =>
          \E t \in Threads : \E k \in 1..Len(stack'[t]) : Held(t, k, "body", i)'
  BY <1>2, <1>3 DEF OwnerOK
<1>8. QED
  BY <1>4, <1>5, <1>6, <1>7 DEF OwnerOK

\* A job that moves to one frame, whose label agrees with its new state, has that
\* frame as its only owner.
LEMMA OwnerNew ==
    ASSUME PoolType', NEW t \in Threads, NEW j \in Jobs, NEW m \in Owning, After(t, j, m),
           Agrees(m, job'[j])
    PROVE  OwnerOK(j)'
<1>1. PICK n \in Nat :
        /\ \A u \in Threads, k \in Nat, l \in Owning : Held(u, k, l, j)' <=> u = t /\ k = n /\ l = m
        /\ n \in 1..Len(stack'[t])
  BY DEF After
<1>2. \A u \in Threads : Len(stack'[u]) \in Nat
  BY LenProperties DEF PoolType
<1>3. \A u \in Threads : \A k \in 1..Len(stack'[u]) : k \in Nat
  BY <1>2
<1>4. \A l \in {"submit", "push", "body", "finish", "hasExc", "exc"} : l \in Owning
  BY DEF Owning, Adding
<1>5. \A u \in Threads : \A k \in 1..Len(stack'[u]) :
          /\ Held(u, k, "submit", j)' \/ Held(u, k, "push", j)' => job'[j] = "adding"
          /\ Held(u, k, "body", j)' => job'[j] = "running"
          /\ Held(u, k, "finish", j)' => job'[j] \in {"done", "threw"}
          /\ Held(u, k, "hasExc", j)' \/ Held(u, k, "exc", j)' => job'[j] = "threw"
  BY <1>1, <1>3, <1>4 DEF Agrees, Adding
<1>6. job'[j] = "adding" => m \in {"submit", "push"}
  BY DEF Agrees, Adding
<1>7. job'[j] = "running" => m = "body"
  BY DEF Agrees, Adding
<1>8. Held(t, n, m, j)'
  BY <1>1
<1>9. job'[j] = "adding" => \E u \in Threads : \E k \in 1..Len(stack'[u]) :
                               Held(u, k, "submit", j)' \/ Held(u, k, "push", j)'
  BY <1>1, <1>6, <1>8
<1>10. job'[j] = "running" =>
          \E u \in Threads : \E k \in 1..Len(stack'[u]) : Held(u, k, "body", j)'
  BY <1>1, <1>7, <1>8
<1>11. \A u, v \in Threads : \A k \in 1..Len(stack'[u]), x \in 1..Len(stack'[v]) :
          \A a, b \in Owning : Held(u, k, a, j)' /\ Held(v, x, b, j)' => u = v /\ k = x
  BY <1>1, <1>3
<1>12. QED
  BY <1>5, <1>9, <1>10, <1>11 DEF OwnerOK

\* A job that no frame holds needs no owner.
LEMMA OwnerNone ==
    ASSUME PoolType', NEW j \in Jobs, Nowhere(j)', job'[j] \notin {"adding", "running"}
    PROVE  OwnerOK(j)'
<1>1. \A u \in Threads : Len(stack'[u]) \in Nat
  BY LenProperties DEF PoolType
<1>2. \A u \in Threads : \A k \in 1..Len(stack'[u]), l \in Owning : ~Held(u, k, l, j)'
  BY <1>1 DEF Nowhere
<1>3. \A l \in {"submit", "push", "body", "finish", "hasExc", "exc"} : l \in Owning
  BY DEF Owning, Adding
<1>4. QED
  BY <1>2, <1>3 DEF OwnerOK

\* What a frame that owns a job says of the job.
LEMMA HeldJob ==
    ASSUME PoolType, NEW j \in Jobs, OwnerOK(j), NEW t \in Threads, NEW k \in Nat, NEW l \in Owning,
           Held(t, k, l, j)
    PROVE  /\ Agrees(l, job[j]) /\ k \in 1..Len(stack[t])
           /\ \A u \in Threads, n \in Nat, m \in Owning : Held(u, n, m, j) => m = l /\ u = t /\ n = k
<1>1. k \in 1..Len(stack[t])
  BY DEF Held
<1>2. l \in {"submit", "push", "body", "finish", "hasExc", "exc"}
  BY DEF Owning, Adding
<1>3. Agrees(l, job[j])
  BY <1>1, <1>2 DEF OwnerOK, Agrees, Adding
<1>4. ASSUME NEW u \in Threads, NEW n \in Nat, NEW m \in Owning, Held(u, n, m, j)
      PROVE  m = l /\ u = t /\ n = k
  <2>1. n \in 1..Len(stack[u])
    BY <1>4 DEF Held
  <2>2. u = t /\ n = k
    BY <1>1, <1>4, <2>1 DEF OwnerOK
  <2>3. QED
    BY <1>4, <2>2 DEF Held
<1>5. QED
  BY <1>1, <1>3, <1>4

\* How far the jobs have come.
LEMMA JobValues ==
    ASSUME PoolType, OwnerInv, QueueInv, NEW t \in Threads, NEW j \in Jobs, JobMoves(t, j),
           Len(stack[t]) \in Nat
    PROVE  /\ \A i \in Jobs \ {j} : job'[i] = job[i]
           /\ Adds(t, j) => job[j] = "new" /\ job'[j] = "adding"
           /\ Submits(t, j) => job[j] = "adding" /\ job'[j] = "adding"
           /\ Queues(t, j) => job[j] = "adding" /\ job'[j] = "queued"
           /\ RunsItself(t, j) => job[j] = "adding" /\ job'[j] = "running"
           /\ Takes(t, j) => job[j] = "queued" /\ job'[j] = "running"
           /\ Stops(t, j) => /\ job[j] = "running"
                             /\ job'[j] = IF j \in Throws THEN "threw" ELSE "done"
           /\ Counts(t, j) => job[j] \in {"done", "threw"} /\ job'[j] = job[j]
           /\ Catches(t, j) => job[j] = "threw" /\ job'[j] = "threw"
           /\ Keeps(t, j) => job[j] = "threw" /\ job'[j] = "threw"
<1>1. \A i \in Jobs \ {j} : job'[i] = job[i]
  BY DEF JobMoves, Adds, Submits, Queues, RunsItself, Takes, Stops, Counts, Catches, Keeps, PoolType
<1>2. \A l \in {"submit", "push", "body", "finish", "hasExc", "exc"} : l \in Owning
  BY DEF Owning, Adding
<1>3. \A l \in Owning : Held(t, Len(stack[t]), l, j) => Agrees(l, job[j])
  BY HeldJob DEF OwnerInv
<1>4. /\ Adds(t, j) => job[j] = "new" /\ job'[j] = "adding"
      /\ Submits(t, j) => job[j] = "adding" /\ job'[j] = "adding"
      /\ Queues(t, j) => job[j] = "adding" /\ job'[j] = "queued"
      /\ RunsItself(t, j) => job[j] = "adding" /\ job'[j] = "running"
  BY <1>2, <1>3 DEF Agrees, Adding, Adds, Submits, Queues, RunsItself, PoolType
<1>5. Takes(t, j) => job[j] = "queued" /\ job'[j] = "running"
  <2>1. ASSUME Takes(t, j)
        PROVE  job[j] = "queued" /\ job'[j] = "running"
    <3>1. \E q \in Threads : j \in Range(queue[q])
      BY <2>1 DEF Takes, TakesFrom
    <3>2. job[j] = "queued"
      BY <3>1 DEF QueueInv
    <3>3. QED
      BY <2>1, <3>2 DEF Takes, PoolType
  <2>2. QED
    BY <2>1
<1>6. /\ Stops(t, j) => /\ job[j] = "running"
                        /\ job'[j] = IF j \in Throws THEN "threw" ELSE "done"
      /\ Counts(t, j) => job[j] \in {"done", "threw"} /\ job'[j] = job[j]
      /\ Catches(t, j) => job[j] = "threw" /\ job'[j] = "threw"
      /\ Keeps(t, j) => job[j] = "threw" /\ job'[j] = "threw"
  BY <1>2, <1>3 DEF Agrees, Adding, Stops, Counts, Catches, Keeps, PoolType
<1>7. QED
  BY <1>1, <1>4, <1>5, <1>6

\* Every step keeps each job with one owner, however add, stealing, running and the
\* handling of an exception interleave.
LEMMA OwnerStep ==
    ASSUME PoolType, PoolType', FrameInv, ShapeInv, OwnerInv, QueueInv, ThrowInv, NEW t \in Threads,
           Idle \/ \E j \in Jobs : JobMoves(t, j)
    PROVE  OwnerInv'
<1>1. CASE Idle
  BY <1>1, OwnerSame DEF Idle, Quiet, OwnerInv
<1>2. ASSUME NEW j \in Jobs, JobMoves(t, j)
      PROVE  OwnerInv'
  <2>0. Len(stack[t]) \in Nat
    BY HeldTop
  <2>1. MovesOnly(j)
    BY <1>2 DEF JobMoves, Adds, Submits, Queues, RunsItself, Takes, Stops, Counts, Catches, Keeps
  <2>2. \A i \in Jobs \ {j} : OwnerOK(i)'
    <3>1. \A i \in Jobs \ {j} : job'[i] = job[i]
      BY <1>2, <2>0, JobValues
    <3>2. QED
      BY <2>1, <3>1, OwnerSame DEF MovesOnly, OwnerInv
  <2>3. \A l \in {"submit", "push", "body", "finish", "hasExc", "exc"} : l \in Owning
    BY DEF Owning, Adding
  <2>4. OwnerOK(j)'
    <3>1. CASE Adds(t, j)
      BY <1>2, <2>0, <2>3, <3>1, JobValues, OwnerNew DEF Adds, Agrees, Adding
    <3>2. CASE Submits(t, j)
      BY <1>2, <2>0, <2>3, <3>2, JobValues, OwnerNew DEF Submits, Agrees, Adding
    <3>3. CASE Queues(t, j)
      BY <1>2, <2>0, <3>3, JobValues, OwnerNone DEF Queues
    <3>4. CASE RunsItself(t, j)
      BY <1>2, <2>0, <2>3, <3>4, JobValues, OwnerNew DEF RunsItself, Agrees
    <3>5. CASE Takes(t, j)
      BY <1>2, <2>0, <2>3, <3>5, JobValues, OwnerNew DEF Takes, Agrees
    <3>6. CASE Stops(t, j)
      BY <1>2, <2>0, <2>3, <3>6, JobValues, OwnerNew DEF Stops, Agrees
    <3>7. CASE Counts(t, j)
      <4>1. job'[j] \in {"done", "threw"} /\ (j \in Throws => job'[j] = "threw")
        BY <1>2, <2>0, <3>7, JobValues DEF ThrowInv
      <4>2. QED
        BY <2>3, <3>7, <4>1, OwnerNew, OwnerNone DEF Counts, Agrees
    <3>8. CASE Catches(t, j)
      BY <1>2, <2>0, <2>3, <3>8, JobValues, OwnerNew, OwnerNone DEF Catches, Agrees
    <3>9. CASE Keeps(t, j)
      BY <1>2, <2>0, <3>9, JobValues, OwnerNone DEF Keeps
    <3>10. QED
      BY <1>2, <3>1, <3>2, <3>3, <3>4, <3>5, <3>6, <3>7, <3>8, <3>9 DEF JobMoves
  <2>5. QED
    BY <2>2, <2>4 DEF OwnerInv
<1>3. QED
  BY <1>1, <1>2

\* The queues hold the jobs that are queued, once each.
LEMMA QueueStep ==
    ASSUME PoolType, FrameInv, ShapeInv, OwnerInv, QueueInv, NEW t \in Threads,
           Idle \/ \E j \in Jobs : JobMoves(t, j)
    PROVE  QueueInv'
<1>1. ASSUME queue' = queue, \A i \in Jobs : job'[i] = "queued" <=> job[i] = "queued"
      PROVE  QueueInv'
  BY <1>1 DEF QueueInv
<1>2. CASE Idle
  BY <1>1, <1>2 DEF Idle
<1>3. ASSUME NEW j \in Jobs, JobMoves(t, j)
      PROVE  QueueInv'
  <2>0. Len(stack[t]) \in Nat
    BY HeldTop
  <2>1. \A i \in Jobs \ {j} : job'[i] = job[i]
    BY <1>3, <2>0, JobValues
  <2>2. CASE Adds(t, j) \/ Submits(t, j) \/ RunsItself(t, j)
    BY <1>1, <1>3, <2>0, <2>1, <2>2, JobValues DEF Adds, Submits, RunsItself
  <2>3. CASE Stops(t, j) \/ Counts(t, j) \/ Catches(t, j) \/ Keeps(t, j)
    BY <1>1, <1>3, <2>0, <2>1, <2>3, JobValues DEF Stops, Counts, Catches, Keeps
  <2>4. CASE Queues(t, j)
    <3>1. queue[t] \in Seq(Jobs) /\ queue \in [Threads -> Seq(Jobs)]
      BY DEF PoolType
    <3>2. job[j] = "adding" /\ job'[j] = "queued"
      BY <1>3, <2>0, <2>4, JobValues
    <3>3. \A u \in Threads : j \notin Range(queue[u])
      BY <3>2 DEF QueueInv
    <3>4. /\ queue'[t] = Append(queue[t], j)
          /\ \A u \in Threads \ {t} : queue'[u] = queue[u]
      BY <2>4, <3>1 DEF Queues
    <3>5. Range(queue'[t]) = Range(queue[t]) \cup {j} /\ IsInjective(queue'[t])
      BY <3>1, <3>3, <3>4, AppendRange DEF QueueInv
    <3>6. \A u \in Threads : IsInjective(queue'[u])
      BY <3>4, <3>5 DEF QueueInv
    <3>7. \A u, v \in Threads : u # v => Range(queue'[u]) \cap Range(queue'[v]) = {}
      <4>1. \A u, v \in Threads : u # v => Range(queue[u]) \cap Range(queue[v]) = {}
        BY DEF QueueInv
      <4>2. \A u \in Threads \ {t} : Range(queue'[t]) \cap Range(queue'[u]) = {}
        BY <3>3, <3>4, <3>5, <4>1
      <4>3. QED
        BY <3>4, <4>1, <4>2
    <3>8. \A i \in Jobs : job'[i] = "queued" <=> \E u \in Threads : i \in Range(queue'[u])
      <4>1. TAKE i \in Jobs
      <4>2. CASE i = j
        BY <3>2, <3>5, <4>2
      <4>3. CASE i # j
        <5>1. \A u \in Threads : i \in Range(queue'[u]) <=> i \in Range(queue[u])
          BY <3>4, <3>5, <4>3
        <5>2. QED
          BY <2>1, <4>3, <5>1 DEF QueueInv
      <4>4. QED
        BY <4>2, <4>3
    <3>9. QED
      BY <3>6, <3>7, <3>8 DEF QueueInv
  <2>5. CASE Takes(t, j)
    <3>1. job[j] = "queued" /\ job'[j] = "running"
      BY <1>3, <2>0, <2>5, JobValues
    <3>2. PICK q \in Threads, r \in Seq(Jobs) : TakesFrom(q, j, r) /\ queue' = [queue EXCEPT ![q] = r]
      BY <2>5 DEF Takes
    <3>3. queue'[q] = r /\ \A u \in Threads \ {q} : queue'[u] = queue[u]
      BY <3>2 DEF PoolType
    <3>4. Range(queue[q]) = Range(r) \cup {j} /\ IsInjective(r) /\ j \notin Range(r)
      BY <3>2 DEF TakesFrom, QueueInv
    <3>5. \A u \in Threads : IsInjective(queue'[u])
      BY <3>3, <3>4 DEF QueueInv
    <3>6. \A u, v \in Threads : u # v => Range(queue'[u]) \cap Range(queue'[v]) = {}
      BY <3>3, <3>4 DEF QueueInv
    <3>7. \A u \in Threads : j \notin Range(queue'[u])
      BY <3>3, <3>4 DEF QueueInv
    <3>8. \A i \in Jobs : job'[i] = "queued" <=> \E u \in Threads : i \in Range(queue'[u])
      <4>1. TAKE i \in Jobs
      <4>2. CASE i = j
        BY <3>1, <3>7, <4>2
      <4>3. CASE i # j
        <5>1. \A u \in Threads : i \in Range(queue'[u]) <=> i \in Range(queue[u])
          BY <3>3, <3>4, <4>3
        <5>2. QED
          BY <2>1, <4>3, <5>1 DEF QueueInv
      <4>4. QED
        BY <4>2, <4>3
    <3>9. QED
      BY <3>5, <3>6, <3>8 DEF QueueInv
  <2>6. QED
    BY <1>3, <2>2, <2>3, <2>4, <2>5 DEF JobMoves
<1>4. QED
  BY <1>2, <1>3

\* Where a job that moves was, and where it is.
LEMMA OldLabel ==
    ASSUME PoolType, OwnerInv, NEW t \in Threads, NEW j \in Jobs, Len(stack[t]) \in Nat
    PROVE  \A u \in Threads, k \in Nat, l \in Owning : Held(u, k, l, j) =>
               /\ ~Adds(t, j) /\ ~Takes(t, j)
               /\ Submits(t, j) => l = "submit"
               /\ Queues(t, j) \/ RunsItself(t, j) => l = "push"
               /\ Stops(t, j) => l = "body"
               /\ Counts(t, j) => l = "finish"
               /\ Catches(t, j) => l = "hasExc"
               /\ Keeps(t, j) => l = "exc"
<1>1. TAKE u \in Threads, k \in Nat, l \in Owning
<1>2. HAVE Held(u, k, l, j)
<1>3. ~Adds(t, j) /\ ~Takes(t, j)
  BY <1>2 DEF Adds, Takes, Nowhere
<1>4. \A m \in {"submit", "push", "body", "finish", "hasExc", "exc"} : m \in Owning
  BY DEF Owning, Adding
<1>5. \A m \in Owning : Held(t, Len(stack[t]), m, j) => l = m
  BY <1>2, HeldJob DEF OwnerInv
<1>6. QED
  BY <1>3, <1>4, <1>5 DEF Submits, Queues, RunsItself, Stops, Counts, Catches, Keeps

\* The label at which a step leaves the frame that owns the job it moves.
LEMMA NewLabel ==
    ASSUME PoolType, NEW t \in Threads, NEW j \in Jobs
    PROVE  \A u \in Threads, k \in Nat, l \in Owning : Held(u, k, l, j)' =>
               /\ ~Queues(t, j) /\ ~Keeps(t, j)
               /\ Adds(t, j) => l = "submit"
               /\ Submits(t, j) => l = "push"
               /\ RunsItself(t, j) \/ Takes(t, j) => l = "body"
               /\ Stops(t, j) => l = "finish"
               /\ Counts(t, j) => l = "hasExc"
               /\ Catches(t, j) => l = "exc"
<1>1. TAKE u \in Threads, k \in Nat, l \in Owning
<1>2. HAVE Held(u, k, l, j)'
<1>3. ~Nowhere(j)'
  BY <1>2 DEF Nowhere
<1>4. \A m : After(t, j, m) => l = m
  BY <1>2 DEF After
<1>5. QED
  BY <1>3, <1>4 DEF Adds, Submits, Queues, RunsItself, Takes, Stops, Counts, Catches, Keeps

\* The jobs that are to be added are new.
LEMMA SpawnStep ==
    ASSUME PoolType, PoolType', FrameInv, ShapeInv, OwnerInv, QueueInv, SpawnInv, NEW t \in Threads,
           Idle \/ \E j \in Jobs : JobMoves(t, j)
    PROVE  SpawnInv'
<1>1. \A u \in Threads : Len(stack[u]) \in Nat /\ Len(stack'[u]) \in Nat
  BY LenProperties DEF PoolType
<1>2. \A u \in Threads : \A k, l, p : /\ Held(u, k, l, p) => k \in 1..Len(stack[u]) /\ k \in Nat
                                      /\ Held(u, k, l, p)' => k \in 1..Len(stack'[u]) /\ k \in Nat
  BY <1>1 DEF Held
<1>3. "body" \in Owning
  BY DEF Owning
<1>4. \A p \in Jobs, u \in Threads : \A k : Held(u, k, "body", p) =>
          \A x \in stack[u][k].left : x \in Spawns[p] /\ job[x] = "new"
  <2>1. ASSUME NEW p \in Jobs, NEW u \in Threads, NEW k, Held(u, k, "body", p),
               NEW x \in stack[u][k].left
        PROVE  x \in Spawns[p] /\ job[x] = "new"
    <3>1. k \in 1..Len(stack[u]) /\ stack[u][k].at = "body" /\ stack[u][k].job = p
      BY <2>1 DEF Held
    <3>2. FrameOK(stack[u][k])
      BY <3>1 DEF FrameInv
    <3>3. QED
      BY <2>1, <3>1, <3>2 DEF SpawnInv, FrameOK
  <2>2. QED
    BY <2>1
<1>5. \A p \in Jobs : Spawns[p] \subseteq Jobs
  BY ThreadPoolAssumption
<1>6. CASE Idle
  BY <1>2, <1>3, <1>6 DEF Idle, Quiet, SpawnInv
<1>7. ASSUME NEW j \in Jobs, JobMoves(t, j)
      PROVE  SpawnInv'
  <2>1. \A i \in Jobs \ {j} : job'[i] = job[i]
    BY <1>1, <1>7, JobValues
  <2>2. MovesOnly(j)
    BY <1>7 DEF JobMoves, Adds, Submits, Queues, RunsItself, Takes, Stops, Counts, Catches, Keeps
  <2>3. job[j] = "new" => Adds(t, j)
    BY <1>1, <1>7, JobValues DEF JobMoves
  <2>4. ASSUME NEW p \in Jobs, j \in Spawns[p], job[j] = "new"
        PROVE  \E k \in Nat : Held(t, k, "body", p) /\ j \notin stack'[t][k].left
    <3>1. j \in Spawned
      BY <2>4 DEF Spawned
    <3>2. PICK q \in Jobs, k \in Nat : /\ Held(t, k, "body", q) /\ j \in Spawns[q]
                                       /\ j \notin stack'[t][k].left
      BY <2>3, <2>4, <3>1 DEF Adds
    <3>3. p = q
      BY <2>4, <3>2, ThreadPoolAssumption
    <3>4. QED
      BY <3>2, <3>3
  <2>5. ASSUME NEW p \in Jobs, NEW u \in Threads, NEW k \in 1..Len(stack'[u]), Held(u, k, "body", p)',
               NEW x \in stack'[u][k].left
        PROVE  job'[x] = "new"
    <3>1. CASE p # j
      <4>1. k \in Nat
        BY <1>2, <2>5
      <4>2. Held(u, k, "body", p) /\ x \in stack[u][k].left
        BY <1>3, <2>2, <2>5, <3>1, <4>1 DEF MovesOnly
      <4>3. x \in Spawns[p] /\ job[x] = "new" /\ x \in Jobs
        BY <1>4, <1>5, <4>2
      <4>4. x # j
        <5>1. SUFFICES ASSUME x = j PROVE FALSE
          OBVIOUS
        <5>2. PICK n \in Nat : Held(t, n, "body", p) /\ j \notin stack'[t][n].left
          BY <2>4, <4>3, <5>1
        <5>3. u = t /\ k = n
          BY <1>3, <4>1, <4>2, <5>2, HeldJob DEF OwnerInv
        <5>4. QED
          BY <2>5, <5>1, <5>2, <5>3
      <4>5. QED
        BY <2>1, <4>3, <4>4
    <3>2. CASE p = j
      <4>1. k \in Nat /\ Held(u, k, "body", j)'
        BY <1>2, <2>5, <3>2
      <4>2. RunsItself(t, j) \/ Takes(t, j)
        BY <1>3, <1>7, <4>1, NewLabel DEF JobMoves
      <4>3. After(t, j, "body") /\ job[j] \in {"adding", "queued"}
        BY <1>1, <1>7, <4>2, JobValues DEF RunsItself, Takes
      <4>4. stack'[u][k].left = Spawns[j]
        BY <1>3, <4>1, <4>3 DEF After
      <4>5. x \in Jobs /\ job[x] = "new"
        BY <1>5, <2>5, <4>3, <4>4 DEF SpawnInv
      <4>6. QED
        BY <2>1, <4>3, <4>5
    <3>3. QED
      BY <3>1, <3>2
  <2>6. ASSUME NEW p \in Jobs, job'[p] \in {"new", "adding", "queued"}, NEW x \in Spawns[p]
        PROVE  job'[x] = "new"
    <3>1. job[p] \in {"new", "adding", "queued"}
      BY <1>1, <1>7, <2>1, <2>6, JobValues DEF JobMoves
    <3>2. x \in Jobs /\ job[x] = "new"
      BY <1>5, <3>1 DEF SpawnInv
    <3>3. x # j
      <4>1. SUFFICES ASSUME x = j PROVE FALSE
        OBVIOUS
      <4>2. PICK n \in Nat : Held(t, n, "body", p)
        BY <2>4, <3>2, <4>1
      <4>3. job[p] = "running"
        BY <1>2, <4>2 DEF OwnerInv, OwnerOK
      <4>4. QED
        BY <3>1, <4>3
    <3>4. QED
      BY <2>1, <3>2, <3>3
  <2>7. QED
    BY <2>5, <2>6 DEF SpawnInv
<1>8. QED
  BY <1>6, <1>7

\* Exceptions.
LEMMA ThrowStep ==
    ASSUME PoolType, PoolType', FrameInv, ShapeInv, OwnerInv, QueueInv, ThrowInv, NEW t \in Threads,
           Idle \/ \E j \in Jobs : JobMoves(t, j)
    PROVE  ThrowInv'
<1>1. \A u \in Threads : Len(stack[u]) \in Nat /\ Len(stack'[u]) \in Nat
  BY LenProperties DEF PoolType
<1>2. \A u \in Threads : \A k, l, p : /\ Held(u, k, l, p) => k \in 1..Len(stack[u]) /\ k \in Nat
                                      /\ Held(u, k, l, p)' => k \in 1..Len(stack'[u]) /\ k \in Nat
  BY <1>1 DEF Held
<1>3. "finish" \in Owning /\ "hasExc" \in Owning /\ "exc" \in Owning
  BY DEF Owning
<1>4. hasExc \in Nat
  BY DEF PoolType
<1>5. CASE Idle
  BY <1>2, <1>3, <1>5 DEF Idle, Quiet, ThrowInv, FirstInv
<1>6. ASSUME NEW j \in Jobs, JobMoves(t, j)
      PROVE  ThrowInv'
  <2>1. \A i \in Jobs \ {j} : job'[i] = job[i]
    BY <1>1, <1>6, JobValues
  <2>2. MovesOnly(j)
    BY <1>6 DEF JobMoves, Adds, Submits, Queues, RunsItself, Takes, Stops, Counts, Catches, Keeps
  <2>3. /\ Catches(t, j) => hasExc' = hasExc + 1
        /\ ~Catches(t, j) => hasExc' = hasExc
        /\ Keeps(t, j) => exc' = j
        /\ ~Keeps(t, j) => exc' = exc
    BY <1>6 DEF JobMoves, Adds, Submits, Queues, RunsItself, Takes, Stops, Counts, Catches, Keeps
  <2>4. \A i \in Jobs : /\ job'[i] = "threw" => i \in Throws
                        /\ job'[i] = "done" => i \notin Throws
    BY <1>1, <1>6, <2>1, JobValues DEF JobMoves, ThrowInv
  <2>5. \A l \in Owning : After(t, j, l) => \E n \in 1..Len(stack'[t]) : Held(t, n, l, j)'
    BY DEF After
  <2>6. ASSUME NEW i \in Jobs, job'[i] = "threw", hasExc' = 0
        PROVE  \E u \in Threads : \E k \in 1..Len(stack'[u]) :
                   Held(u, k, "finish", i)' \/ Held(u, k, "hasExc", i)'
    <3>1. hasExc = 0 /\ ~Catches(t, j)
      BY <1>4, <2>3, <2>6
    <3>2. CASE i # j
      <4>1. PICK u \in Threads, k \in Nat : Held(u, k, "finish", i) \/ Held(u, k, "hasExc", i)
        BY <1>2, <2>1, <2>6, <3>1, <3>2 DEF ThrowInv
      <4>2. Held(u, k, "finish", i)' \/ Held(u, k, "hasExc", i)'
        BY <1>3, <2>2, <3>2, <4>1 DEF MovesOnly
      <4>3. QED
        BY <1>2, <4>2
    <3>3. CASE i = j
      <4>1. Stops(t, j) \/ Counts(t, j) \/ Keeps(t, j)
        BY <1>1, <1>6, <2>6, <3>1, <3>3, JobValues DEF JobMoves
      <4>2. CASE Stops(t, j)
        BY <1>3, <2>5, <3>3, <4>2 DEF Stops
      <4>3. CASE Counts(t, j)
        BY <1>3, <2>4, <2>5, <2>6, <3>3, <4>3 DEF Counts
      <4>4. CASE Keeps(t, j)
        <5>1. job[j] = "threw"
          BY <1>1, <1>6, <4>4, JobValues
        <5>2. PICK u \in Threads, k \in Nat : Held(u, k, "finish", j) \/ Held(u, k, "hasExc", j)
          BY <1>2, <3>1, <5>1 DEF ThrowInv
        <5>4. QED
          BY <1>1, <1>3, <4>4, <5>2, OldLabel
      <4>5. QED
        BY <4>1, <4>2, <4>3, <4>4
    <3>4. QED
      BY <3>2, <3>3
  <2>7. ASSUME hasExc' > 0, exc' = NoJob
        PROVE  \E i \in Jobs, u \in Threads : \E k \in 1..Len(stack'[u]) : Held(u, k, "exc", i)'
    <3>1. ~Keeps(t, j) /\ exc = NoJob
      BY <2>3, <2>7, ThreadPoolAssumption
    <3>2. CASE Catches(t, j) /\ hasExc = 0
      BY <1>3, <2>5, <3>2 DEF Catches
    <3>3. CASE ~(Catches(t, j) /\ hasExc = 0)
      <4>1. hasExc > 0
        BY <1>4, <2>3, <2>7, <3>3
      <4>2. PICK i \in Jobs, u \in Threads, k \in Nat : Held(u, k, "exc", i)
        BY <1>2, <3>1, <4>1 DEF ThrowInv
      <4>4. i # j
        BY <1>1, <1>3, <1>6, <3>1, <4>2, OldLabel DEF JobMoves
      <4>5. Held(u, k, "exc", i)'
        BY <1>3, <2>2, <4>2, <4>4 DEF MovesOnly
      <4>6. QED
        BY <1>2, <4>5
    <3>4. QED
      BY <3>2, <3>3
  \* A thread that is to assign exc was to before, or has just found hasExc at 0.
  <2>8. ASSUME NEW i \in Jobs, NEW u \in Threads, NEW k \in Nat, Held(u, k, "exc", i)'
        PROVE  /\ i # j => Held(u, k, "exc", i) /\ hasExc > 0 /\ exc = NoJob /\ ~Keeps(t, j)
               /\ i = j => Catches(t, j) /\ hasExc = 0 /\ exc = NoJob /\ ~Keeps(t, j)
    <3>1. CASE i # j
      <4>1. Held(u, k, "exc", i)
        BY <1>3, <2>2, <2>8, <3>1 DEF MovesOnly
      <4>2. hasExc > 0 /\ exc = NoJob
        BY <4>1 DEF ThrowInv, FirstInv
      <4>3. ~Keeps(t, j)
        BY <1>1, <3>1, <4>1 DEF Keeps, ThrowInv, FirstInv
      <4>4. QED
        BY <3>1, <4>1, <4>2, <4>3
    <3>2. CASE i = j
      <4>1. Catches(t, j) /\ ~Keeps(t, j)
        BY <1>3, <1>6, <2>8, <3>2, NewLabel DEF JobMoves
      <4>2. hasExc = 0
        BY <1>3, <2>8, <3>2, <4>1 DEF Catches, Nowhere
      <4>3. QED
        BY <3>2, <4>1, <4>2 DEF ThrowInv, FirstInv
    <3>3. QED
      BY <3>1, <3>2
  <2>9. FirstInv'
    <3>1. hasExc' = 0 => exc' = NoJob
      <4>1. ASSUME hasExc' = 0 PROVE hasExc = 0 /\ exc = NoJob /\ ~Keeps(t, j)
        <5>1. hasExc = 0
          BY <1>4, <2>3, <4>1
        <5>2. ~Keeps(t, j)
          BY <1>1, <5>1 DEF Keeps, ThrowInv, FirstInv
        <5>3. QED
          BY <5>1, <5>2 DEF ThrowInv, FirstInv
      <4>2. QED
        BY <2>3, <4>1
    <3>2. ASSUME NEW i \in Jobs, NEW u \in Threads, NEW k \in Nat, Held(u, k, "exc", i)'
          PROVE  hasExc' > 0 /\ exc' = NoJob
      BY <1>4, <2>3, <2>8, <3>2
    <3>3. ASSUME NEW i \in Jobs, NEW p \in Jobs, NEW u \in Threads, NEW v \in Threads,
                 NEW k \in Nat, NEW m \in Nat, Held(u, k, "exc", i)', Held(v, m, "exc", p)'
          PROVE  i = p
      <4>1. CASE i = j \/ p = j
        BY <1>4, <2>8, <3>3, <4>1
      <4>2. CASE i # j /\ p # j
        <5>1. Held(u, k, "exc", i) /\ Held(v, m, "exc", p)
          BY <2>8, <3>3, <4>2
        <5>2. QED
          BY <5>1 DEF ThrowInv, FirstInv
      <4>3. QED
        BY <4>1, <4>2
    <3>4. QED
      BY <3>1, <3>2, <3>3 DEF FirstInv
  <2>10. QED
    BY <2>4, <2>6, <2>7, <2>9 DEF ThrowInv
<1>7. QED
  BY <1>5, <1>6

\* The jobs in flight.
Flies(i) == \/ job[i] \in {"queued", "running"}
            \/ \E u \in Threads, k \in Nat : Held(u, k, "push", i) \/ Held(u, k, "finish", i)

\* A job is in flight when it is queued or running, or its frame has counted it as
\* submitted and not as finished.
LEMMA InFlightIs ==
    ASSUME PoolType, PoolType'
    PROVE  /\ \A i : i \in InFlight <=> i \in Jobs /\ Flies(i)
           /\ \A i : i \in InFlight' <=> i \in Jobs /\ Flies(i)'
<1>1. \A u \in Threads : /\ Len(stack[u]) \in Nat /\ DOMAIN stack[u] = 1..Len(stack[u])
                         /\ Len(stack'[u]) \in Nat /\ DOMAIN stack'[u] = 1..Len(stack'[u])
  BY LenProperties DEF PoolType
<1>2. ASSUME NEW i
      PROVE  i \in InFlight <=> i \in Jobs /\ Flies(i)
  BY <1>1 DEF InFlight, Flies, Held
<1>3. ASSUME NEW i
      PROVE  i \in InFlight' <=> i \in Jobs /\ Flies(i)'
  BY <1>1 DEF InFlight, Flies, Held
<1>4. QED
  BY <1>2, <1>3

\* add counts a job in before it is queued, and the end of a job counts it out: no
\* other step changes which jobs are in flight.
LEMMA FlightChange ==
    ASSUME PoolType, PoolType', FrameInv, ShapeInv, OwnerInv, QueueInv, NEW t \in Threads,
           NEW j \in Jobs, JobMoves(t, j)
    PROVE  /\ Submits(t, j) => j \notin InFlight /\ InFlight' = InFlight \cup {j}
           /\ Counts(t, j) => j \in InFlight /\ InFlight' = InFlight \ {j}
           /\ ~Submits(t, j) /\ ~Counts(t, j) => InFlight' = InFlight
<1>1. Len(stack[t]) \in Nat
  BY HeldTop
<1>2. MovesOnly(j) /\ \A i \in Jobs \ {j} : job'[i] = job[i]
  BY <1>1, JobValues DEF JobMoves, Adds, Submits, Queues, RunsItself, Takes, Stops, Counts,
     Catches, Keeps
<1>3. "push" \in Owning /\ "finish" \in Owning
  BY DEF Owning, Adding
<1>4. \A i \in Jobs \ {j} : Flies(i)' <=> Flies(i)
  BY <1>2, <1>3 DEF Flies, MovesOnly
<1>5. /\ Adds(t, j) \/ Submits(t, j) \/ Catches(t, j) \/ Keeps(t, j) => ~Flies(j)
      /\ Queues(t, j) \/ RunsItself(t, j) \/ Takes(t, j) \/ Stops(t, j) \/ Counts(t, j) => Flies(j)
  <2>1. Adds(t, j) \/ Submits(t, j) \/ Catches(t, j) \/ Keeps(t, j) => ~Flies(j)
    BY <1>1, <1>3, JobValues, OldLabel DEF Flies
  <2>2. Takes(t, j) \/ Stops(t, j) => Flies(j)
    BY <1>1, JobValues DEF Flies
  <2>3. Queues(t, j) \/ RunsItself(t, j) \/ Counts(t, j) => Flies(j)
    BY <1>1 DEF Flies, Queues, RunsItself, Counts
  <2>4. QED
    BY <2>1, <2>2, <2>3
<1>6. /\ Adds(t, j) \/ Counts(t, j) \/ Catches(t, j) \/ Keeps(t, j) => ~Flies(j)'
      /\ Submits(t, j) \/ Queues(t, j) \/ RunsItself(t, j) \/ Takes(t, j) \/ Stops(t, j) => Flies(j)'
  <2>1. Adds(t, j) \/ Counts(t, j) \/ Catches(t, j) \/ Keeps(t, j) => ~Flies(j)'
    BY <1>1, <1>3, JobValues, NewLabel DEF Flies
  <2>2. Queues(t, j) \/ RunsItself(t, j) \/ Takes(t, j) => Flies(j)'
    BY <1>1, JobValues DEF Flies
  <2>3. Submits(t, j) \/ Stops(t, j) => Flies(j)'
    BY <1>3 DEF Flies, Submits, Stops, After
  <2>4. QED
    BY <2>1, <2>2, <2>3
<1>7. Submits(t, j) => j \notin InFlight /\ InFlight' = InFlight \cup {j}
  BY <1>4, <1>5, <1>6, InFlightIs
<1>8. Counts(t, j) => j \in InFlight /\ InFlight' = InFlight \ {j}
  BY <1>4, <1>5, <1>6, InFlightIs
<1>9. ASSUME ~Submits(t, j), ~Counts(t, j)
      PROVE  InFlight' = InFlight
  <2>1. Flies(j)' <=> Flies(j)
    BY <1>5, <1>6, <1>9 DEF JobMoves
  <2>2. \A i : i \in InFlight' <=> i \in InFlight
    BY <1>4, <2>1, InFlightIs
  <2>3. QED
    BY <2>2
<1>10. QED
  BY <1>7, <1>8, <1>9

\* A step that moves no job changes nothing of it.
LEMMA IdleFlight ==
    ASSUME PoolType, PoolType', Idle
    PROVE  InFlight' = InFlight
<1>1. "push" \in Owning /\ "finish" \in Owning
  BY DEF Owning, Adding
<1>2. \A i \in Jobs : Flies(i)' <=> Flies(i)
  BY <1>1 DEF Idle, Quiet, Flies
<1>3. \A i : i \in InFlight' <=> i \in InFlight
  BY <1>2, InFlightIs
<1>4. QED
  BY <1>3

\* Every step keeps submitted - finished the number of jobs in flight.
LEMMA FlightStep ==
    ASSUME PoolType, PoolType', FrameInv, ShapeInv, OwnerInv, QueueInv, FlightInv, NEW t \in Threads,
           Idle \/ \E j \in Jobs : JobMoves(t, j)
    PROVE  FlightInv'
<1>1. CASE Idle
  BY <1>1, IdleFlight DEF Idle, FlightInv
<1>2. ASSUME NEW j \in Jobs, JobMoves(t, j)
      PROVE  FlightInv'
  <2>1. CASE Submits(t, j)
    <3>1. j \notin InFlight /\ InFlight' = InFlight \cup {j}
      BY <1>2, <2>1, FlightChange
    <3>2. IsFiniteSet(InFlight') /\ Cardinality(InFlight') = Cardinality(InFlight) + 1
      BY <3>1, FS_AddElement DEF FlightInv
    <3>3. submitted' = submitted + 1 /\ finished' = finished
      BY <2>1 DEF Submits
    <3>4. QED
      BY <3>2, <3>3 DEF FlightInv, PoolType
  <2>2. CASE Counts(t, j)
    <3>1. j \in InFlight /\ InFlight' = InFlight \ {j}
      BY <1>2, <2>2, FlightChange
    <3>2. IsFiniteSet(InFlight') /\ Cardinality(InFlight') = Cardinality(InFlight) - 1
      BY <3>1, FS_RemoveElement DEF FlightInv
    <3>3. finished' = finished + 1 /\ submitted' = submitted
      BY <2>2 DEF Counts
    <3>4. QED
      BY <3>2, <3>3, FS_CardinalityType DEF FlightInv, PoolType
  <2>3. CASE ~Submits(t, j) /\ ~Counts(t, j)
    <3>1. InFlight' = InFlight
      BY <1>2, <2>3, FlightChange
    <3>2. submitted' = submitted /\ finished' = finished
      BY <1>2, <2>3 DEF JobMoves, Adds, Queues, RunsItself, Takes, Stops, Catches, Keeps
    <3>3. QED
      BY <3>1, <3>2 DEF FlightInv
  <2>4. QED
    BY <2>1, <2>2, <2>3
<1>3. QED
  BY <1>1, <1>2

-----------------------------------------------------------------------------
(* The innermost and the lowest frame after a step.                        *)

\* Thread t comes to label m, its lowest frame to label b; nobody else moves.
Turns(t, b, m) ==
    /\ \A u \in Threads \ {t} : stack'[u] = stack[u]
    /\ \A l : At(t, l)' <=> l = m
    /\ Base(t)' = b

\* Where a thread is after a step, read off its stack.
LEMMA NextTop ==
    ASSUME NEW u \in Threads, stack' \in [Threads -> Seq(Frames)], Len(stack'[u]) >= 1
    PROVE  \A l : At(u, l)' <=> stack'[u][Len(stack'[u])].at = l
<1>1. stack'[u] # <<>>
  BY EmptySeq
<1>2. QED
  BY <1>1 DEF At, Top

\* Where the thread is at the bottom and at the top of its stack, and which of its frames
\* are parent jobs, after a move.
LEMMA TurnReplace ==
    ASSUME PoolType, FrameInv, ShapeInv, NEW t \in Threads, NEW b, Replaces(t, b)
    PROVE  /\ Turns(t, IF Top(t).at \in Bases THEN b ELSE Base(t), b)
           /\ (Top(t).at \in ParentLabels <=> b \in ParentLabels) => ParentFrames(t)' = ParentFrames(t)
<1> DEFINE n == Len(stack[t])
<1>1. PICK f \in Frames : f.at = b /\ ReplacedBy(t, f)
  BY DEF Replaces
<1>2. /\ n \in Nat /\ n >= 1 /\ Len(stack'[t]) = n /\ stack'[t][n] = f
      /\ \A k \in 1..(n - 1) : stack'[t][k] = stack[t][k]
      /\ stack' \in [Threads -> Seq(Frames)]
      /\ \A u \in Threads \ {t} : stack'[u] = stack[u]
      /\ Top(t) = stack[t][n]
  BY <1>1, TopFrame DEF ReplacedBy, Kept, Others
<1>3. \A l : At(t, l)' <=> l = b
  BY <1>1, <1>2, NextTop
<1>4. Base(t)' = IF Top(t).at \in Bases THEN b ELSE Base(t)
  <2>1. Base(t)' = stack'[t][1].at /\ Base(t) = stack[t][1].at
    BY DEF Base
  <2>2. CASE Top(t).at \in Bases
    BY <1>1, <1>2, <2>1, <2>2, BaseFrame
  <2>3. CASE Top(t).at \notin Bases
    <3>1. n >= 2
      BY <2>3, BaseFrame
    <3>2. 1 \in 1..(n - 1)
      BY <1>2, <3>1
    <3>3. QED
      BY <1>2, <2>1, <2>3, <3>2
  <2>4. QED
    BY <2>2, <2>3
<1>5. ASSUME Top(t).at \in ParentLabels <=> b \in ParentLabels
      PROVE  ParentFrames(t)' = ParentFrames(t)
  <2> HIDE DEF n
  <2>1. \A k \in 1..n : k \in 1..(n - 1) \/ k = n
    BY <1>2
  <2>2. \A k \in 1..n : stack'[t][k].at \in ParentLabels <=> stack[t][k].at \in ParentLabels
    BY <1>1, <1>2, <1>5, <2>1
  <2>3. QED
    BY <1>2, <2>2 DEF ParentFrames, n
<1>6. QED
  BY <1>2, <1>3, <1>4, <1>5 DEF Turns

\* The same after a call.
LEMMA TurnPush ==
    ASSUME PoolType, FrameInv, ShapeInv, NEW t \in Threads, NEW b, NEW c, Pushes(t, b, c)
    PROVE  /\ Turns(t, IF Top(t).at \in Bases THEN b ELSE Base(t), c)
           /\ c \notin ParentLabels /\ (Top(t).at \in ParentLabels <=> b \in ParentLabels) =>
                 ParentFrames(t)' = ParentFrames(t)
           /\ c \in ParentLabels /\ (Top(t).at \in ParentLabels <=> b \in ParentLabels) =>
                 /\ Len(stack[t]) + 1 \notin ParentFrames(t)
                 /\ ParentFrames(t)' = ParentFrames(t) \cup {Len(stack[t]) + 1}
<1> DEFINE n == Len(stack[t])
<1>1. PICK f, g \in Frames : f.at = b /\ g.at = c /\ PushedOn(t, f, g)
  BY DEF Pushes
<1>2. /\ n \in Nat /\ n >= 1 /\ Len(stack'[t]) = n + 1
      /\ stack'[t][n] = f /\ stack'[t][n + 1] = g
      /\ \A k \in 1..(n - 1) : stack'[t][k] = stack[t][k]
      /\ stack' \in [Threads -> Seq(Frames)]
      /\ \A u \in Threads \ {t} : stack'[u] = stack[u]
      /\ Top(t) = stack[t][n]
  BY <1>1, TopFrame DEF PushedOn, Kept, Others
<1>3. \A l : At(t, l)' <=> l = c
  BY <1>1, <1>2, NextTop
<1>4. Base(t)' = IF Top(t).at \in Bases THEN b ELSE Base(t)
  <2>1. Base(t)' = stack'[t][1].at /\ Base(t) = stack[t][1].at
    BY DEF Base
  <2>2. CASE Top(t).at \in Bases
    BY <1>1, <1>2, <2>1, <2>2, BaseFrame
  <2>3. CASE Top(t).at \notin Bases
    <3>1. n >= 2
      BY <2>3, BaseFrame
    <3>2. 1 \in 1..(n - 1)
      BY <1>2, <3>1
    <3>3. QED
      BY <1>2, <2>1, <2>3, <3>2
  <2>4. QED
    BY <2>2, <2>3
<1> HIDE DEF n
<1>5. ASSUME Top(t).at \in ParentLabels <=> b \in ParentLabels
      PROVE  \A k : k \in ParentFrames(t)' <=> k \in ParentFrames(t) \/ (k = n + 1 /\ c \in ParentLabels)
  <2>1. \A k \in 1..n : k \in 1..(n - 1) \/ k = n
    BY <1>2
  <2>2. \A k \in 1..n : stack'[t][k].at \in ParentLabels <=> stack[t][k].at \in ParentLabels
    BY <1>1, <1>2, <1>5, <2>1
  <2>3. \A k : k \in 1..(n + 1) <=> k \in 1..n \/ k = n + 1
    BY <1>2
  <2>4. QED
    BY <1>1, <1>2, <2>2, <2>3 DEF ParentFrames, n
<1>6. n + 1 \notin ParentFrames(t)
  BY <1>2 DEF ParentFrames, n
<1>7. QED
  BY <1>2, <1>3, <1>4, <1>5, <1>6 DEF Turns, n

\* The same after a return, which never leaves the bottom frame.
LEMMA TurnPop ==
    ASSUME PoolType, FrameInv, ShapeInv, NEW t \in Threads, Pops(t), Top(t).at \notin Bases
    PROVE  /\ \E m \in Calling : /\ Turns(t, Base(t), m)
                                 /\ m = "unpublishMine" => Top(t).at = "mine"
           /\ Top(t).at \notin ParentLabels => ParentFrames(t)' = ParentFrames(t)
           /\ Top(t).at \in ParentLabels =>
                 /\ Len(stack[t]) \in ParentFrames(t)
                 /\ ParentFrames(t)' = ParentFrames(t) \ {Len(stack[t])}
<1> DEFINE n == Len(stack[t])
           m == stack[t][n - 1].at
<1>1. /\ n \in Nat /\ n >= 2 /\ Len(stack'[t]) = n - 1
      /\ \A k \in 1..(n - 1) : stack'[t][k] = stack[t][k]
      /\ stack' \in [Threads -> Seq(Frames)]
      /\ \A u \in Threads \ {t} : stack'[u] = stack[u]
      /\ Top(t) = stack[t][n]
      /\ n - 1 \in 1..(n - 1) /\ 1 \in 1..(n - 1) /\ n \in 2..n
  BY TopFrame, BaseFrame DEF Pops, Kept, Others
<1>2. ShapeOK(t, stack[t])
  BY DEF ShapeInv
<1>3. m \in Calling /\ stack'[t][n - 1].at = m
  BY <1>1, <1>2 DEF ShapeOK
<1>4. \A l : At(t, l)' <=> l = m
  BY <1>1, <1>3, NextTop
<1>5. Base(t)' = Base(t)
  BY <1>1 DEF Base
<1>6. m = "unpublishMine" => Top(t).at = "mine"
  <2>1. SUFFICES ASSUME m = "unpublishMine" PROVE Top(t).at = "mine"
    OBVIOUS
  <2>2. m \in Bases
    BY <2>1 DEF Bases, ClientLabels
  <2>3. n - 1 = 1
    <3>0. n \in Nat /\ n >= 2
      BY <1>1
    <3>1. \A x \in Nat : x >= 2 => x - 1 = 1 \/ x - 1 \in 2..x
      OBVIOUS
    <3>2. \A k \in 2..n : stack[t][k].at \notin Bases
      BY <1>2 DEF ShapeOK
    <3>3. QED
      BY <2>2, <3>0, <3>1, <3>2
  <2>4. QED
    BY <1>1, <1>2, <2>1, <2>3 DEF ShapeOK
<1>7. \A k : k \in ParentFrames(t)' <=> k \in ParentFrames(t) /\ k # n
  <2> HIDE DEF n
  <2>1. \A k : k \in 1..(n - 1) <=> k \in 1..n /\ k # n
    BY <1>1
  <2>2. QED
    BY <1>1, <2>1 DEF ParentFrames, n
<1>8. n \in ParentFrames(t) <=> Top(t).at \in ParentLabels
  BY <1>1 DEF ParentFrames
<1>9. Turns(t, Base(t), m)
  BY <1>1, <1>4, <1>5 DEF Turns
<1>10. QED
  BY <1>3, <1>6, <1>7, <1>8, <1>9

\* Waking others.
LEMMA TurnWake ==
    ASSUME PoolType, FrameInv, ShapeInv, NEW t \in Threads, NEW w \in Workers, Wakes(t, w),
           Top(t).at = "notify"
    PROVE  /\ \A u \in Threads \ {t, w} : stack'[u] = stack[u]
           /\ w # t /\ At(w, "sleep") /\ \A l : At(w, l)' <=> l = "wake"
           /\ ParentFrames(w) = {} /\ ParentFrames(w)' = {}
           /\ \E m \in Calling : /\ \A l : At(t, l)' <=> l = m
                                 /\ m # "unpublishMine"
           /\ Base(t)' = Base(t) /\ ParentFrames(t)' = ParentFrames(t)
<1> DEFINE n == Len(stack[t])
           m == stack[t][n - 1].at
<1>0. w \in Threads
  BY DEF Threads
<1>1. /\ Frame("wake").at = "wake" /\ Len(stack[w]) = 1 /\ Len(stack'[w]) = 1
      /\ stack'[w][1] = Frame("wake") /\ stack[w][1].at = "sleep" /\ w # t
      /\ stack' \in [Threads -> Seq(Frames)]
      /\ \A u \in Threads \ {t, w} : stack'[u] = stack[u]
  BY <1>0, TopFrame DEF Wakes, Frame
<1>2. At(w, "sleep") /\ \A l : At(w, l)' <=> l = "wake"
  BY <1>0, <1>1, TopFrame, NextTop DEF Wakes
<1>3. ParentFrames(w) = {} /\ ParentFrames(w)' = {}
  BY <1>1 DEF ParentFrames, ParentLabels
<1>4. Top(t).at \notin Bases /\ Top(t).at \notin ParentLabels
  BY DEF Bases, ClientLabels, WorkerLabels, ParentLabels
<1>5. /\ n \in Nat /\ n >= 2 /\ Len(stack'[t]) = n - 1
      /\ \A k \in 1..(n - 1) : stack'[t][k] = stack[t][k]
      /\ Top(t) = stack[t][n]
      /\ n - 1 \in 1..(n - 1) /\ 1 \in 1..(n - 1) /\ n \in 2..n
  BY <1>4, TopFrame, BaseFrame DEF Wakes, Kept
<1>6. ShapeOK(t, stack[t])
  BY DEF ShapeInv
<1>7. m \in Calling /\ stack'[t][n - 1].at = m
  BY <1>5, <1>6 DEF ShapeOK
<1>8. \A l : At(t, l)' <=> l = m
  BY <1>1, <1>5, <1>7, NextTop
<1>9. m # "unpublishMine"
  <2>1. SUFFICES ASSUME m = "unpublishMine" PROVE FALSE
    OBVIOUS
  <2>2. m \in Bases
    BY <2>1 DEF Bases, ClientLabels
  <2>3. n - 1 = 1
    <3>0. n \in Nat /\ n >= 2
      BY <1>5
    <3>1. \A x \in Nat : x >= 2 => x - 1 = 1 \/ x - 1 \in 2..x
      OBVIOUS
    <3>2. \A k \in 2..n : stack[t][k].at \notin Bases
      BY <1>6 DEF ShapeOK
    <3>3. QED
      BY <2>2, <3>0, <3>1, <3>2
  <2>4. QED
    BY <1>5, <1>6, <2>1, <2>3 DEF ShapeOK
<1>10. Base(t)' = Base(t)
  BY <1>5 DEF Base
<1>11. ParentFrames(t)' = ParentFrames(t)
  <2> HIDE DEF n
  <2>1. \A k : k \in 1..n <=> k \in 1..(n - 1) \/ k = n
    BY <1>5
  <2>2. QED
    BY <1>4, <1>5, <2>1 DEF ParentFrames, n
<1>12. QED
  BY <1>1, <1>2, <1>3, <1>7, <1>8, <1>9, <1>10, <1>11

\* notify_all moves the sleeping workers to "wake" and the thread itself to the join.
LEMMA TurnWakeAll ==
    ASSUME PoolType, FrameInv, ShapeInv, NEW t \in Threads, WakesAll(t), Top(t).at = "notifyAll"
    PROVE  /\ \A l : At(t, l)' <=> l = "join"
           /\ Base(t) = "notifyAll" /\ Base(t)' = "join" /\ ParentFrames(t) = {} /\ ParentFrames(t)' = {}
           /\ \A u \in Threads \ {t} :
                \/ stack'[u] = stack[u]
                \/ /\ At(u, "sleep") /\ \A l : At(u, l)' <=> l = "wake"
                   /\ ParentFrames(u) = {} /\ ParentFrames(u)' = {}
                   /\ Base(u) = "sleep" /\ Base(u)' = "wake"
<1>1. Frame("wake").at = "wake" /\ Frame("join").at = "join"
  BY DEF Frame
<1>2. stack' \in [Threads -> Seq(Frames)]
  BY DEF WakesAll
<1>3. ASSUME NEW u \in Threads, NEW a, NEW b, a \notin ParentLabels, b \notin ParentLabels,
             Len(stack[u]) = 1, Len(stack'[u]) = 1, Top(u).at = a, stack'[u][1].at = b
      PROVE  /\ At(u, a) /\ \A l : At(u, l)' <=> l = b
             /\ ParentFrames(u) = {} /\ ParentFrames(u)' = {} /\ Base(u) = a /\ Base(u)' = b
  <2>1. stack[u][1].at = a /\ At(u, a)
    BY <1>3, TopFrame
  <2>2. \A l : At(u, l)' <=> l = b
    <3>1. stack'[u][Len(stack'[u])].at = b /\ Len(stack'[u]) >= 1
      BY <1>3
    <3>2. QED
      BY <1>2, <3>1, NextTop
  <2>3. QED
    BY <1>3, <2>1, <2>2 DEF ParentFrames, Base
<1>4. \A l \in {"sleep", "wake", "notifyAll", "join"} : l \notin ParentLabels
  BY DEF ParentLabels
<1>5. /\ \A l : At(t, l)' <=> l = "join"
      /\ Base(t) = "notifyAll" /\ Base(t)' = "join" /\ ParentFrames(t) = {} /\ ParentFrames(t)' = {}
  BY <1>1, <1>3, <1>4 DEF WakesAll
<1>6. ASSUME NEW u \in Threads \ {t}, stack'[u] # stack[u]
      PROVE  /\ At(u, "sleep") /\ \A l : At(u, l)' <=> l = "wake"
             /\ ParentFrames(u) = {} /\ ParentFrames(u)' = {}
             /\ Base(u) = "sleep" /\ Base(u)' = "wake"
  BY <1>1, <1>3, <1>4, <1>6 DEF WakesAll
<1>7. QED
  BY <1>5, <1>6

-----------------------------------------------------------------------------
(* The workers that sleep, and the parent jobs.                            *)

Asleep(u) == \E l \in SleepLabels : At(u, l)
Marks == SleepLabels \cup ParentLabels \cup {"parentAdd", "parentUndo"}

SameMarks(u) ==
    /\ Asleep(u)' <=> Asleep(u)
    /\ At(u, "parentAdd")' <=> At(u, "parentAdd")
    /\ At(u, "parentUndo")' <=> At(u, "parentUndo")
    /\ ParentFrames(u)' = ParentFrames(u)

\* The sets that are counted.
LEMMA CountedSets ==
    ASSUME PoolType, PoolType'
    PROVE  /\ \A u : u \in Sleepers <=> u \in Workers /\ Asleep(u)
           /\ \A u : u \in Sleepers' <=> u \in Workers /\ Asleep(u)'
           /\ \A u : u \in ToAdd <=> u \in Threads /\ At(u, "parentAdd")
           /\ \A u : u \in ToAdd' <=> u \in Threads /\ At(u, "parentAdd")'
           /\ \A u : u \in ToUndo <=> u \in Threads /\ At(u, "parentUndo")
           /\ \A u : u \in ToUndo' <=> u \in Threads /\ At(u, "parentUndo")'
<1>1. /\ \A u : u \in Sleepers <=> u \in Workers /\ Asleep(u)
      /\ \A u : u \in Sleepers' <=> u \in Workers /\ Asleep(u)'
  BY DEF Sleepers, Asleep
<1>2. /\ \A u : u \in ToAdd <=> u \in Threads /\ At(u, "parentAdd")
      /\ \A u : u \in ToAdd' <=> u \in Threads /\ At(u, "parentAdd")'
  BY DEF ToAdd
<1>3. /\ \A u : u \in ToUndo <=> u \in Threads /\ At(u, "parentUndo")
      /\ \A u : u \in ToUndo' <=> u \in Threads /\ At(u, "parentUndo")'
  BY DEF ToUndo
<1>4. QED
  BY <1>1, <1>2, <1>3

\* The parent jobs that run, when one thread begins or ends one.
LEMMA RunSets ==
    ASSUME NEW t \in Threads, NEW n \in Nat,
           \A u \in Threads \ {t} : ParentFrames(u)' = ParentFrames(u)
    PROVE  /\ ParentFrames(t)' = ParentFrames(t) => ParentRuns' = ParentRuns
           /\ n \notin ParentFrames(t) /\ ParentFrames(t)' = ParentFrames(t) \cup {n} =>
                 <<t, n>> \notin ParentRuns /\ ParentRuns' = ParentRuns \cup {<<t, n>>}
           /\ n \in ParentFrames(t) /\ ParentFrames(t)' = ParentFrames(t) \ {n} =>
                 <<t, n>> \in ParentRuns /\ ParentRuns' = ParentRuns \ {<<t, n>>}
<1>1. /\ \A p : p \in ParentRuns <=> p \in Threads \X Nat /\ p[2] \in ParentFrames(p[1])
      /\ \A p : p \in ParentRuns' <=> p \in Threads \X Nat /\ p[2] \in ParentFrames(p[1])'
  BY DEF ParentRuns
<1>2. /\ <<t, n>> \in Threads \X Nat /\ <<t, n>>[1] = t /\ <<t, n>>[2] = n
      /\ \A p \in Threads \X Nat : /\ p[1] \in Threads
                                   /\ p = <<t, n>> <=> p[1] = t /\ p[2] = n
  OBVIOUS
<1>3. \A p \in Threads \X Nat : p[1] # t => ParentFrames(p[1])' = ParentFrames(p[1])
  BY <1>2
<1>4. ASSUME ParentFrames(t)' = ParentFrames(t)
      PROVE  ParentRuns' = ParentRuns
  <2>1. \A p : p \in ParentRuns' <=> p \in ParentRuns
    BY <1>1, <1>3, <1>4
  <2>2. QED
    BY <2>1
<1>5. ASSUME n \notin ParentFrames(t), ParentFrames(t)' = ParentFrames(t) \cup {n}
      PROVE  <<t, n>> \notin ParentRuns /\ ParentRuns' = ParentRuns \cup {<<t, n>>}
  <2>1. \A p : p \in ParentRuns' <=> p \in ParentRuns \/ p = <<t, n>>
    BY <1>1, <1>2, <1>3, <1>5
  <2>2. <<t, n>> \notin ParentRuns
    BY <1>1, <1>2, <1>5
  <2>3. QED
    BY <2>1, <2>2
<1>6. ASSUME n \in ParentFrames(t), ParentFrames(t)' = ParentFrames(t) \ {n}
      PROVE  <<t, n>> \in ParentRuns /\ ParentRuns' = ParentRuns \ {<<t, n>>}
  <2>1. \A p : p \in ParentRuns' <=> p \in ParentRuns /\ p # <<t, n>>
    BY <1>1, <1>2, <1>3, <1>6
  <2>2. <<t, n>> \in ParentRuns
    BY <1>1, <1>2, <1>6
  <2>3. QED
    BY <2>1, <2>2
<1>7. QED
  BY <1>4, <1>5, <1>6

\* Threads whose marks stay the same leave the counted sets the same.
LEMMA SameSets ==
    ASSUME PoolType, PoolType', \A u \in Threads : SameMarks(u)
    PROVE  /\ Sleepers' = Sleepers /\ ToAdd' = ToAdd /\ ToUndo' = ToUndo
           /\ ParentRuns' = ParentRuns
<1>1. \A u \in Workers : u \in Threads
  BY DEF Threads
<1>2. /\ \A u : u \in Sleepers' <=> u \in Sleepers
      /\ \A u : u \in ToAdd' <=> u \in ToAdd
      /\ \A u : u \in ToUndo' <=> u \in ToUndo
  BY <1>1, CountedSets DEF SameMarks
<1>3. ParentRuns' = ParentRuns
  <2>1. Creator \in Threads /\ 0 \in Nat
    BY ThreadPoolAssumption DEF Threads
  <2>2. QED
    BY <2>1, RunSets DEF SameMarks
<1>4. QED
  BY <1>2, <1>3

\* A thread that does not move is in the sets it was in.
LEMMA StillMarks ==
    ASSUME NEW u \in Threads, stack'[u] = stack[u]
    PROVE  SameMarks(u)
  BY DEF SameMarks, Asleep, At, Top, ParentFrames

\* Only the thread that takes the step changes its marks, and its label tells how.
LEMMA TurnMarks ==
    ASSUME PoolType, FrameInv, ShapeInv, NEW t \in Threads, NEW b, NEW m, Turns(t, b, m)
    PROVE  /\ \A u \in Threads \ {t} : SameMarks(u)
           /\ Asleep(t)' <=> m \in SleepLabels
           /\ Asleep(t) <=> Top(t).at \in SleepLabels
           /\ \A l : At(t, l) <=> Top(t).at = l
           /\ At(t, "parentAdd")' <=> m = "parentAdd"
           /\ At(t, "parentUndo")' <=> m = "parentUndo"
<1>1. \A u \in Threads \ {t} : SameMarks(u)
  BY StillMarks DEF Turns
<1>2. \A l : At(t, l) <=> Top(t).at = l
  BY TopFrame
<1>3. QED
  BY <1>1, <1>2 DEF Turns, Asleep

\* A step between labels that are not marks changes none.
LEMMA MarkFlow ==
    ASSUME PoolType, FrameInv, ShapeInv, NEW t \in Threads, Top(t).at \notin Marks
    PROVE  /\ \A b : b \notin Marks /\ Replaces(t, b) => \A u \in Threads : SameMarks(u)
           /\ \A b, c : b \notin Marks /\ c \notin Marks /\ Pushes(t, b, c) =>
                 \A u \in Threads : SameMarks(u)
           /\ Pops(t) /\ Top(t).at \notin Bases => \A u \in Threads : SameMarks(u)
<1>1. ASSUME NEW b, NEW m, Turns(t, b, m), m \notin Marks \ ParentLabels,
             ParentFrames(t)' = ParentFrames(t)
      PROVE  \A u \in Threads : SameMarks(u)
  <2>1. SameMarks(t)
    BY <1>1, TurnMarks DEF SameMarks, Marks, ParentLabels, SleepLabels
  <2>2. QED
    BY <1>1, <2>1, TurnMarks
<1>2. ASSUME NEW b, b \notin Marks, Replaces(t, b)
      PROVE  \A u \in Threads : SameMarks(u)
  BY <1>1, <1>2, TurnReplace DEF Marks
<1>3. ASSUME NEW b, NEW c, b \notin Marks, c \notin Marks, Pushes(t, b, c)
      PROVE  \A u \in Threads : SameMarks(u)
  BY <1>1, <1>3, TurnPush DEF Marks
<1>4. ASSUME Pops(t), Top(t).at \notin Bases
      PROVE  \A u \in Threads : SameMarks(u)
  <2>1. \A m \in Calling : m \notin Marks \ ParentLabels
    BY DEF Calling, Marks, ParentLabels, SleepLabels
  <2>2. QED
    BY <1>1, <1>4, <2>1, TurnPop DEF Marks
<1>5. QED
  BY <1>2, <1>3, <1>4

\* All steps but seven change none of the sets.
Marking(t) == \/ workerSleep(t) \/ workerWake(t) \/ addParent(t) \/ addParentUndo(t)
              \/ addParentJob(t) \/ parentBegin(t) \/ parentEnd(t)

\* Only falling asleep, waking, and entering or leaving the parent's queue change which
\* threads threadsSleeping and parentJobs count.
LEMMA MarkStep ==
    ASSUME PoolType, FrameInv, ShapeInv, NEW t \in Threads, ClientCalls(t) \/ Steps(t), ~Marking(t)
    PROVE  \A u \in Threads : SameMarks(u)
<1>1. CASE clientAdd(t)
  <2>1. Top(t).at = "client" /\ Pushes(t, "client", "submit")
    BY <1>1, AddFlows, JobPush
  <2>2. QED
    BY <2>1, MarkFlow DEF Marks, ParentLabels, SleepLabels
<1>2. CASE clientWait(t)
  BY <1>2, ClientFlows, MarkFlow DEF Marks, ParentLabels, SleepLabels, Bases, ClientLabels,
     WorkerLabels
<1>3. CASE clientWork(t)
  BY <1>3, ClientFlows, MarkFlow DEF Marks, ParentLabels, SleepLabels, Bases, ClientLabels,
     WorkerLabels
<1>4. CASE clientExit(t)
  BY <1>4, ClientFlows, MarkFlow DEF Marks, ParentLabels, SleepLabels, Bases, ClientLabels,
     WorkerLabels
<1>5. CASE destroy(t)
  BY <1>5, ClientFlows, MarkFlow DEF Marks, ParentLabels, SleepLabels, Bases, ClientLabels,
     WorkerLabels
<1>6. CASE unpublishThread(t)
  BY <1>6, ClientFlows, MarkFlow DEF Marks, ParentLabels, SleepLabels, Bases, ClientLabels,
     WorkerLabels
<1>7. CASE notifyAll(t)
  <2>1. Top(t).at = "notifyAll" /\ WakesAll(t)
    BY <1>7, NotifyFlows
  <2>2. SameMarks(t)
    BY <2>1, TurnWakeAll, TopFrame DEF SameMarks, Asleep, SleepLabels
  <2>3. ASSUME NEW u \in Threads \ {t}
        PROVE  SameMarks(u)
    <3>1. CASE stack'[u] = stack[u]
      BY <3>1, StillMarks
    <3>2. CASE stack'[u] # stack[u]
      <4>1. /\ At(u, "sleep") /\ \A l : At(u, l)' <=> l = "wake"
            /\ ParentFrames(u) = {} /\ ParentFrames(u)' = {}
        BY <2>1, <3>2, TurnWakeAll
      <4>2. \A l : At(u, l) <=> l = "sleep"
        BY <4>1, TopFrame
      <4>3. QED
        BY <4>1, <4>2 DEF SameMarks, Asleep, SleepLabels
    <3>3. QED
      BY <3>1, <3>2
  <2>4. QED
    BY <2>2, <2>3
<1>8. CASE join(t)
  BY <1>8, ClientFlows, MarkFlow DEF Marks, ParentLabels, SleepLabels, Bases, ClientLabels,
     WorkerLabels
<1>9. CASE addSubmit(t)
  BY <1>9, AddFlows, JobPush, MarkFlow DEF Marks, ParentLabels, SleepLabels, Bases, ClientLabels,
     WorkerLabels
<1>10. CASE addPush(t)
  BY <1>10, AddFlows, JobPush, MarkFlow DEF Marks, ParentLabels, SleepLabels, Bases, ClientLabels,
     WorkerLabels
<1>11. CASE addReturn(t)
  BY <1>11, AddFlows, JobPush, MarkFlow DEF Marks, ParentLabels, SleepLabels, Bases, ClientLabels,
     WorkerLabels
<1>12. CASE addNotify(t)
  <2>1. Top(t).at = "notify"
    BY <1>12, NotifyFlows
  <2>2. CASE Pops(t)
    BY <2>1, <2>2, MarkFlow DEF Marks, ParentLabels, SleepLabels, Bases, ClientLabels, WorkerLabels
  <2>3. ASSUME NEW w \in Workers, Wakes(t, w)
        PROVE  \A u \in Threads : SameMarks(u)
    <3>1. \A u \in Threads \ {t, w} : SameMarks(u)
      BY <2>1, <2>3, TurnWake, StillMarks
    <3>2. SameMarks(w)
      <4>1. w \in Threads
        BY DEF Threads
      <4>2. \A l : At(w, l) <=> l = "sleep"
        BY <2>1, <2>3, <4>1, TurnWake, TopFrame
      <4>3. \A l : At(w, l)' <=> l = "wake"
        BY <2>1, <2>3, TurnWake
      <4>4. QED
        BY <2>1, <2>3, <4>2, <4>3, TurnWake DEF SameMarks, Asleep, SleepLabels
    <3>3. SameMarks(t)
      <4>1. PICK m \in Calling : \A l : At(t, l)' <=> l = m
        BY <2>1, <2>3, TurnWake
      <4>2. \A l : At(t, l) <=> l = "notify"
        BY <2>1, TopFrame
      <4>3. ParentFrames(t)' = ParentFrames(t)
        BY <2>1, <2>3, TurnWake
      <4>4. m \notin SleepLabels /\ m # "parentAdd" /\ m # "parentUndo"
        BY DEF Calling, SleepLabels
      <4>5. QED
        BY <4>1, <4>2, <4>3, <4>4 DEF SameMarks, Asleep, SleepLabels
    <3>4. QED
      BY <3>1, <3>2, <3>3
  <2>4. QED
    BY <1>12, <2>2, <2>3, NotifyFlows
<1>13. CASE bodyAdd(t)
  <2>1. Top(t).at = "body" /\ Pushes(t, "body", "submit")
    BY <1>13, RunFlows, JobFrames, ThreadPoolAssumption DEF Pushes
  <2>2. QED
    BY <2>1, MarkFlow DEF Marks, ParentLabels, SleepLabels
<1>14. CASE bodyEnd(t)
  BY <1>14, RunFlows, JobPush, MarkFlow DEF Marks, ParentLabels, SleepLabels, Bases, ClientLabels,
     WorkerLabels
<1>15. CASE jobFinish(t)
  BY <1>15, RunFlows, JobPush, MarkFlow DEF Marks, ParentLabels, SleepLabels, Bases, ClientLabels,
     WorkerLabels
<1>16. CASE handleException(t)
  BY <1>16, RunFlows, JobPush, MarkFlow DEF Marks, ParentLabels, SleepLabels, Bases, ClientLabels,
     WorkerLabels
<1>17. CASE runMine(t)
  <2>1. Top(t).at = "mine" /\ (Pops(t) \/ Pushes(t, "mine", "body"))
    BY <1>17, StealFlows, JobPush
  <2>2. QED
    BY <2>1, MarkFlow DEF Marks, ParentLabels, SleepLabels, Bases, ClientLabels, WorkerLabels
<1>18. CASE stealRefresh(t)
  BY <1>18, StealFlows, JobPush, MarkFlow DEF Marks, ParentLabels, SleepLabels, Bases, ClientLabels,
     WorkerLabels
<1>19. CASE stealNext(t)
  BY <1>19, StealFlows, JobPush, MarkFlow DEF Marks, ParentLabels, SleepLabels, Bases, ClientLabels,
     WorkerLabels
<1>20. CASE stealLook(t)
  BY <1>20, StealFlows, JobPush, MarkFlow DEF Marks, ParentLabels, SleepLabels, Bases, ClientLabels,
     WorkerLabels
<1>21. CASE stealClaim(t)
  BY <1>21, StealFlows, JobPush, MarkFlow DEF Marks, ParentLabels, SleepLabels, Bases, ClientLabels,
     WorkerLabels
<1>22. CASE stealMine(t)
  BY <1>22, StealFlows, JobPush, MarkFlow DEF Marks, ParentLabels, SleepLabels, Bases, ClientLabels,
     WorkerLabels
<1>23. CASE waitSubmitted(t)
  BY <1>23, WaitFlows, MarkFlow DEF Marks, ParentLabels, SleepLabels, Bases, ClientLabels,
     WorkerLabels
<1>24. CASE waitFinished(t)
  BY <1>24, WaitFlows, MarkFlow DEF Marks, ParentLabels, SleepLabels, Bases, ClientLabels,
     WorkerLabels
<1>25. CASE waitWork(t)
  BY <1>25, WaitFlows, MarkFlow DEF Marks, ParentLabels, SleepLabels, Bases, ClientLabels,
     WorkerLabels
<1>26. CASE waitExc(t)
  BY <1>26, WaitFlows, MarkFlow DEF Marks, ParentLabels, SleepLabels, Bases, ClientLabels,
     WorkerLabels
<1>27. CASE waitReturn(t)
  BY <1>27, WaitFlows, MarkFlow DEF Marks, ParentLabels, SleepLabels, Bases, ClientLabels,
     WorkerLabels
<1>28. CASE workerStart(t)
  BY <1>28, WorkerFlows, MarkFlow DEF Marks, ParentLabels, SleepLabels, Bases, ClientLabels,
     WorkerLabels
<1>29. CASE workerLoop(t)
  BY <1>29, WorkerFlows, MarkFlow DEF Marks, ParentLabels, SleepLabels, Bases, ClientLabels,
     WorkerLabels
<1>30. CASE workerWork(t)
  BY <1>30, WorkerFlows, MarkFlow DEF Marks, ParentLabels, SleepLabels, Bases, ClientLabels,
     WorkerLabels
<1>31. CASE workerWait(t)
  <2>1. Top(t).at = "doze" /\ Replaces(t, "sleep")
    BY <1>31, WorkerFlows
  <2>2. \E b : Turns(t, b, "sleep")
    BY <2>1, TurnReplace
  <2>3. ParentFrames(t)' = ParentFrames(t)
    BY <2>1, TurnReplace DEF ParentLabels
  <2>4. SameMarks(t) /\ \A u \in Threads \ {t} : SameMarks(u)
    BY <2>1, <2>2, <2>3, TurnMarks DEF SameMarks, SleepLabels
  <2>5. QED
    BY <2>4
<1>32. CASE workerTimeout(t)
  <2>1. Top(t).at = "sleep" /\ Replaces(t, "wake")
    BY <1>32, WorkerFlows
  <2>2. \E b : Turns(t, b, "wake")
    BY <2>1, TurnReplace
  <2>3. ParentFrames(t)' = ParentFrames(t)
    BY <2>1, TurnReplace DEF ParentLabels
  <2>4. SameMarks(t) /\ \A u \in Threads \ {t} : SameMarks(u)
    BY <2>1, <2>2, <2>3, TurnMarks DEF SameMarks, SleepLabels
  <2>5. QED
    BY <2>4
<1>33. CASE work(t)
  BY <1>33, WaitFlows, MarkFlow DEF Marks, ParentLabels, SleepLabels, Bases, ClientLabels,
     WorkerLabels
<1>34. CASE runParentWorker(t)
  <2>1. CASE Top(t).at = "parentLoop" /\ Pushes(t, "parentWorked", "work")
    <3>1. \E b : Turns(t, b, "work")
      BY <2>1, TurnPush
    <3>2. ParentFrames(t)' = ParentFrames(t)
      BY <2>1, TurnPush DEF ParentLabels
    <3>3. SameMarks(t) /\ \A u \in Threads \ {t} : SameMarks(u)
      BY <2>1, <3>1, <3>2, TurnMarks DEF SameMarks, SleepLabels
    <3>4. QED
      BY <3>3
  <2>2. CASE Top(t).at = "parentWorked" /\ Replaces(t, "parentLoop")
    <3>1. \E b : Turns(t, b, "parentLoop")
      BY <2>2, TurnReplace
    <3>2. ParentFrames(t)' = ParentFrames(t)
      BY <2>2, TurnReplace DEF ParentLabels
    <3>3. SameMarks(t) /\ \A u \in Threads \ {t} : SameMarks(u)
      BY <2>2, <3>1, <3>2, TurnMarks DEF SameMarks, SleepLabels
    <3>4. QED
      BY <3>3
  <2>3. QED
    BY <1>34, <2>1, <2>2, ParentFlows
<1>35. QED
  BY <1>1, <1>2, <1>3, <1>4, <1>5, <1>6, <1>7, <1>8, <1>9, <1>10, <1>11, <1>12, <1>13, <1>14, <1>15, <1>16, <1>17, <1>18, <1>19, <1>20, <1>21, <1>22, <1>23, <1>24, <1>25, <1>26, <1>27, <1>28, <1>29, <1>30, <1>31, <1>32, <1>33, <1>34
     DEF ClientCalls, Steps, Marking

\* Workers are at the labels of workers.
LEMMA IsWorker ==
    ASSUME PoolType, FrameInv, ShapeInv, NEW t \in Threads,
           Top(t).at \in {"workerStole", "wake", "loop", "sleep", "parent"}
    PROVE  t \in Workers
<1>1. SUFFICES ASSUME t \in Clients PROVE FALSE
  BY DEF Threads
<1>2. QED
  BY <1>1, BaseFrame DEF Bases, BaseOf, ClientLabels, WorkerLabels

\* Nor the counts of those sets.
LEMMA CountStep ==
    ASSUME NEW t \in Threads, ClientCalls(t) \/ Steps(t), ~Marking(t)
    PROVE  UNCHANGED <<threadsSleeping, parentJobs, parentQueue, strong>>
<1>1. CASE clientAdd(t) \/ clientWait(t) \/ clientWork(t) \/ clientExit(t) \/ destroy(t) \/ unpublishThread(t)
  BY <1>1 DEF clientAdd, clientWait, clientWork, clientExit, destroy, unpublishThread,
     parentVars, StackOnly
<1>2. CASE notifyAll(t) \/ join(t) \/ addSubmit(t) \/ addPush(t) \/ addReturn(t) \/ addNotify(t)
  BY <1>2 DEF notifyAll, join, addSubmit, addPush, addReturn, addNotify,
     parentVars, StackOnly
<1>3. CASE bodyAdd(t) \/ bodyEnd(t) \/ jobFinish(t) \/ handleException(t) \/ runMine(t) \/ stealRefresh(t)
  BY <1>3 DEF bodyAdd, bodyEnd, jobFinish, handleException, runMine, stealRefresh,
     parentVars, StackOnly
<1>4. CASE stealNext(t) \/ stealLook(t) \/ stealClaim(t) \/ stealMine(t) \/ waitSubmitted(t) \/ waitFinished(t)
  BY <1>4 DEF stealNext, stealLook, stealClaim, stealMine, waitSubmitted, waitFinished,
     parentVars, StackOnly
<1>5. CASE waitWork(t) \/ waitExc(t) \/ waitReturn(t) \/ workerStart(t) \/ workerLoop(t) \/ workerWork(t)
  BY <1>5 DEF waitWork, waitExc, waitReturn, workerStart, workerLoop, workerWork,
     parentVars, StackOnly
<1>6. CASE workerWait(t) \/ workerTimeout(t) \/ work(t) \/ runParentWorker(t)
  BY <1>6 DEF workerWait, workerTimeout, work, runParentWorker,
     parentVars, StackOnly
<1>7. QED
  BY <1>1, <1>2, <1>3, <1>4, <1>5, <1>6 DEF ClientCalls, Steps, Marking

\* Every step keeps threadsSleeping the number of workers in their sleep.
LEMMA SleepStep ==
    ASSUME PoolType, PoolType', FrameInv, ShapeInv, SleepInv, NEW t \in Threads,
           ClientCalls(t) \/ Steps(t)
    PROVE  SleepInv'
<1>0. \A u \in Workers : u \in Threads
  BY DEF Threads
<1>1. CASE ~Marking(t)
  <2>1. Sleepers' = Sleepers
    BY <1>1, MarkStep, SameSets
  <2>2. threadsSleeping' = threadsSleeping
    BY <1>1, CountStep
  <2>3. QED
    BY <2>1, <2>2 DEF SleepInv
<1>2. ASSUME threadsSleeping' = threadsSleeping, Asleep(t)' <=> Asleep(t),
             \A u \in Threads \ {t} : SameMarks(u)
      PROVE  SleepInv'
  <2>1. \A u : u \in Sleepers' <=> u \in Sleepers
    BY <1>0, <1>2, CountedSets DEF SameMarks
  <2>2. Sleepers' = Sleepers
    BY <2>1
  <2>3. QED
    BY <1>2, <2>2 DEF SleepInv
<1>3. CASE workerSleep(t)
  <2>1. Top(t).at = "workerStole" /\ Replaces(t, "doze")
    BY <1>3, WorkerFlows
  <2>2. \E b : Turns(t, b, "doze")
    BY <2>1, TurnReplace
  <2>3. ~Asleep(t) /\ Asleep(t)' /\ \A u \in Threads \ {t} : SameMarks(u)
    BY <2>1, <2>2, TurnMarks DEF SleepLabels
  <2>4. t \in Workers
    BY <2>1, IsWorker
  <2>5. t \notin Sleepers /\ \A u : u \in Sleepers' <=> u \in Sleepers \/ u = t
    BY <1>0, <2>3, <2>4, CountedSets DEF SameMarks
  <2>6. Sleepers' = Sleepers \cup {t}
    BY <2>5
  <2>7. IsFiniteSet(Sleepers') /\ Cardinality(Sleepers') = Cardinality(Sleepers) + 1
    BY <2>5, <2>6, FS_AddElement DEF SleepInv
  <2>8. QED
    BY <1>3, <2>7 DEF SleepInv, workerSleep
<1>4. CASE workerWake(t)
  <2>1. Top(t).at = "wake" /\ Replaces(t, "loop")
    BY <1>4, WorkerFlows
  <2>2. \E b : Turns(t, b, "loop")
    BY <2>1, TurnReplace
  <2>3. Asleep(t) /\ ~Asleep(t)' /\ \A u \in Threads \ {t} : SameMarks(u)
    BY <2>1, <2>2, TurnMarks DEF SleepLabels
  <2>4. t \in Workers
    BY <2>1, IsWorker
  <2>5. t \in Sleepers /\ \A u : u \in Sleepers' <=> u \in Sleepers /\ u # t
    BY <1>0, <2>3, <2>4, CountedSets DEF SameMarks
  <2>6. Sleepers' = Sleepers \ {t}
    BY <2>5
  <2>7. IsFiniteSet(Sleepers') /\ Cardinality(Sleepers') = Cardinality(Sleepers) - 1
    BY <2>5, <2>6, FS_RemoveElement DEF SleepInv
  <2>8. QED
    BY <1>4, <2>7 DEF SleepInv, workerWake
<1>5. CASE addParent(t)
  <2>1. Top(t).at = "notify" /\ (Replaces(t, "parentUndo") \/ Replaces(t, "parentAdd"))
    BY <1>5, AddFlows
  <2>2. \E b : Turns(t, b, "parentUndo") \/ Turns(t, b, "parentAdd")
    BY <2>1, TurnReplace
  <2>3. ~Asleep(t) /\ ~Asleep(t)' /\ \A u \in Threads \ {t} : SameMarks(u)
    BY <2>1, <2>2, TurnMarks DEF SleepLabels
  <2>4. QED
    BY <1>2, <1>5, <2>3 DEF addParent
<1>6. ASSUME Pops(t), Top(t).at \notin Bases, threadsSleeping' = threadsSleeping,
             Top(t).at \notin SleepLabels
      PROVE  SleepInv'
  <2>1. \E b, m : m \in Calling /\ Turns(t, b, m)
    BY <1>6, TurnPop
  <2>2. ~Asleep(t) /\ ~Asleep(t)' /\ \A u \in Threads \ {t} : SameMarks(u)
    BY <1>6, <2>1, TurnMarks DEF SleepLabels, Calling
  <2>3. QED
    BY <1>2, <1>6, <2>2
<1>7. CASE addParentUndo(t)
  BY <1>6, <1>7, AddFlows DEF addParentUndo, Bases, ClientLabels, WorkerLabels, SleepLabels
<1>8. CASE addParentJob(t)
  <2>1. Top(t).at = "parentAdd" /\ threadsSleeping' = threadsSleeping
    BY <1>8, AddFlows DEF addParentJob
  <2>2. CASE Pops(t)
    BY <1>6, <2>1, <2>2 DEF Bases, ClientLabels, WorkerLabels, SleepLabels
  <2>3. CASE Pushes(t, "added", "parentLoop")
    <3>1. \E b : Turns(t, b, "parentLoop")
      BY <2>3, TurnPush
    <3>2. ~Asleep(t) /\ ~Asleep(t)' /\ \A u \in Threads \ {t} : SameMarks(u)
      BY <2>1, <3>1, TurnMarks DEF SleepLabels
    <3>3. QED
      BY <1>2, <2>1, <3>2
  <2>4. QED
    BY <1>8, <2>2, <2>3, AddFlows
<1>9. CASE parentBegin(t)
  <2>1. CASE shutdown
    <3>1. stack' = stack
      BY <1>9, <2>1 DEF parentBegin
    <3>2. \A u \in Threads : SameMarks(u)
      BY <3>1, StillMarks
    <3>3. QED
      BY <1>2, <1>9, <3>2 DEF parentBegin, SameMarks
  <2>2. CASE ~shutdown
    <3>1. Top(t).at = "parent" /\ Pushes(t, "parent", "parentLoop")
      BY <1>9, <2>2, ParentFlows
    <3>2. \E b : Turns(t, b, "parentLoop")
      BY <3>1, TurnPush
    <3>3. ~Asleep(t) /\ ~Asleep(t)' /\ \A u \in Threads \ {t} : SameMarks(u)
      BY <3>1, <3>2, TurnMarks DEF SleepLabels
    <3>4. QED
      BY <1>2, <1>9, <3>3 DEF parentBegin
  <2>3. QED
    BY <2>1, <2>2
<1>10. CASE parentEnd(t)
  BY <1>6, <1>10, ParentFlows DEF parentEnd, Bases, ClientLabels, WorkerLabels, SleepLabels
<1>11. QED
  BY <1>1, <1>3, <1>4, <1>5, <1>7, <1>8, <1>9, <1>10 DEF Marking

\* Every step keeps the slots of the parent pool: what is queued, running or about to
\* be counted never exceeds maxParentJobs, nor what parentJobs says.
LEMMA ParentStep ==
    ASSUME PoolType, PoolType', FrameInv, ShapeInv, ParentInv, NEW t \in Threads,
           ClientCalls(t) \/ Steps(t)
    PROVE  ParentInv'
<1>0. /\ \A u \in Workers : u \in Threads
      /\ maxParentJobs \in Nat
  BY ThreadPoolAssumption DEF Threads
<1> DEFINE W == ParentRuns
<1>1. /\ IsFiniteSet(ToAdd) /\ IsFiniteSet(ToUndo) /\ IsFiniteSet(W)
      /\ Cardinality(ToAdd) \in Nat /\ Cardinality(ToUndo) \in Nat /\ Cardinality(W) \in Nat
      /\ parentQueue \in Nat /\ parentJobs \in Int /\ strong = Cardinality(W)
      /\ parentQueue + Cardinality(ToAdd) + strong <= maxParentJobs
      /\ parentQueue + Cardinality(ToAdd) + Cardinality(ToUndo) + strong <= parentJobs
  BY FS_CardinalityType DEF ParentInv, PoolType
<1>2. ParentInv' <=>
      /\ IsFiniteSet(ToAdd') /\ IsFiniteSet(ToUndo') /\ IsFiniteSet(W')
      /\ strong' = Cardinality(W')
      /\ parentQueue' + Cardinality(ToAdd') + strong' <= maxParentJobs
      /\ parentQueue' + Cardinality(ToAdd') + Cardinality(ToUndo') + strong' <= parentJobs'
  BY DEF ParentInv
<1>3. /\ \A u : u \in ToAdd <=> u \in Threads /\ At(u, "parentAdd")
      /\ \A u : u \in ToAdd' <=> u \in Threads /\ At(u, "parentAdd")'
      /\ \A u : u \in ToUndo <=> u \in Threads /\ At(u, "parentUndo")
      /\ \A u : u \in ToUndo' <=> u \in Threads /\ At(u, "parentUndo")'
  BY CountedSets
<1> HIDE DEF W
<1>4. CASE ~Marking(t)
  <2>1. ToAdd' = ToAdd /\ ToUndo' = ToUndo /\ W' = W
    BY <1>4, MarkStep, SameSets DEF W
  <2>2. UNCHANGED <<parentJobs, parentQueue, strong>>
    BY <1>4, CountStep
  <2>3. QED
    BY <1>1, <1>2, <2>1, <2>2
\* Who is in which set, but for thread t, does not change.
<1>5. ASSUME \A u \in Threads \ {t} : SameMarks(u)
      PROVE  /\ (At(t, "parentAdd")' <=> At(t, "parentAdd")) => ToAdd' = ToAdd
             /\ ~At(t, "parentAdd") /\ At(t, "parentAdd")' => t \notin ToAdd /\ ToAdd' = ToAdd \cup {t}
             /\ At(t, "parentAdd") /\ ~At(t, "parentAdd")' => t \in ToAdd /\ ToAdd' = ToAdd \ {t}
             /\ (At(t, "parentUndo")' <=> At(t, "parentUndo")) => ToUndo' = ToUndo
             /\ ~At(t, "parentUndo") /\ At(t, "parentUndo")' =>
                   t \notin ToUndo /\ ToUndo' = ToUndo \cup {t}
             /\ At(t, "parentUndo") /\ ~At(t, "parentUndo")' => t \in ToUndo /\ ToUndo' = ToUndo \ {t}
             /\ ParentFrames(t)' = ParentFrames(t) => W' = W
  <2>1. \A u : u \in Threads /\ u # t => /\ u \in ToAdd' <=> u \in ToAdd
                                         /\ u \in ToUndo' <=> u \in ToUndo
    BY <1>0, <1>3, <1>5 DEF SameMarks
  <2>2. \A u : u \in ToAdd \/ u \in ToAdd' \/ u \in ToUndo \/ u \in ToUndo' => u \in Threads
    BY <1>0, <1>3
  <2>3. /\ t \in ToAdd <=> At(t, "parentAdd")
        /\ t \in ToAdd' <=> At(t, "parentAdd")'
        /\ t \in ToUndo <=> At(t, "parentUndo")
        /\ t \in ToUndo' <=> At(t, "parentUndo")'
    BY <1>3
  <2>4. /\ (At(t, "parentAdd")' <=> At(t, "parentAdd")) => ToAdd' = ToAdd
        /\ ~At(t, "parentAdd") /\ At(t, "parentAdd")' => t \notin ToAdd /\ ToAdd' = ToAdd \cup {t}
        /\ At(t, "parentAdd") /\ ~At(t, "parentAdd")' => t \in ToAdd /\ ToAdd' = ToAdd \ {t}
    BY <2>1, <2>2, <2>3
  <2>5. /\ (At(t, "parentUndo")' <=> At(t, "parentUndo")) => ToUndo' = ToUndo
        /\ ~At(t, "parentUndo") /\ At(t, "parentUndo")' =>
              t \notin ToUndo /\ ToUndo' = ToUndo \cup {t}
        /\ At(t, "parentUndo") /\ ~At(t, "parentUndo")' => t \in ToUndo /\ ToUndo' = ToUndo \ {t}
    BY <2>1, <2>2, <2>3
  <2>6. ParentFrames(t)' = ParentFrames(t) => W' = W
    <3>1. 0 \in Nat
      OBVIOUS
    <3>2. QED
      BY <1>5, <3>1, RunSets DEF SameMarks, W
  <2>7. QED
    BY <2>4, <2>5, <2>6
\* A parent job begins or ends as frame n of t.
<1>5a. ASSUME \A u \in Threads \ {t} : SameMarks(u), NEW n \in Nat
       PROVE  /\ n \notin ParentFrames(t) /\ ParentFrames(t)' = ParentFrames(t) \cup {n} =>
                    IsFiniteSet(W') /\ Cardinality(W') = Cardinality(W) + 1
              /\ n \in ParentFrames(t) /\ ParentFrames(t)' = ParentFrames(t) \ {n} =>
                    IsFiniteSet(W') /\ Cardinality(W') = Cardinality(W) - 1
  <2>1. \A u \in Threads \ {t} : ParentFrames(u)' = ParentFrames(u)
    BY <1>5a DEF SameMarks
  <2>2. ASSUME n \notin ParentFrames(t), ParentFrames(t)' = ParentFrames(t) \cup {n}
        PROVE  IsFiniteSet(W') /\ Cardinality(W') = Cardinality(W) + 1
    <3>1. <<t, n>> \notin W /\ W' = W \cup {<<t, n>>}
      BY <1>5a, <2>1, <2>2, RunSets DEF W
    <3>2. QED
      BY <1>1, <3>1, FS_AddElement
  <2>3. ASSUME n \in ParentFrames(t), ParentFrames(t)' = ParentFrames(t) \ {n}
        PROVE  IsFiniteSet(W') /\ Cardinality(W') = Cardinality(W) - 1
    <3>1. <<t, n>> \in W /\ W' = W \ {<<t, n>>}
      BY <1>5a, <2>1, <2>3, RunSets DEF W
    <3>2. QED
      BY <1>1, <3>1, FS_RemoveElement
  <2>4. QED
    BY <2>2, <2>3
<1>6. CASE workerSleep(t) \/ workerWake(t)
  <2>1. /\ Top(t).at \in {"workerStole", "wake"}
        /\ Replaces(t, "doze") \/ Replaces(t, "loop")
    BY <1>6, WorkerFlows
  <2>2. PICK m : m \in {"doze", "loop"} /\ Replaces(t, m)
    BY <2>1
  <2>3. \E b : Turns(t, b, m)
    BY <2>2, TurnReplace
  <2>4. ParentFrames(t)' = ParentFrames(t)
    BY <2>1, <2>2, TurnReplace DEF ParentLabels
  <2>5. /\ \A u \in Threads \ {t} : SameMarks(u)
        /\ At(t, "parentAdd")' <=> At(t, "parentAdd")
        /\ At(t, "parentUndo")' <=> At(t, "parentUndo")
    BY <2>1, <2>2, <2>3, TurnMarks
  <2>6. ToAdd' = ToAdd /\ ToUndo' = ToUndo /\ W' = W
    BY <1>5, <2>4, <2>5
  <2>7. UNCHANGED <<parentJobs, parentQueue, strong>>
    BY <1>6 DEF workerSleep, workerWake, parentVars
  <2>8. QED
    BY <1>1, <1>2, <2>6, <2>7
<1>7. CASE addParent(t)
  <2>1. parentJobs' = parentJobs + 1 /\ parentQueue' = parentQueue /\ strong' = strong
    BY <1>7 DEF addParent
  <2>2. CASE parentJobs >= maxParentJobs
    <3>1. Top(t).at = "notify" /\ Replaces(t, "parentUndo")
      BY <1>7, <2>2, AddFlows
    <3>2. /\ \E b : Turns(t, b, "parentUndo")
          /\ ParentFrames(t)' = ParentFrames(t)
      BY <3>1, TurnReplace DEF ParentLabels
    <3>3. /\ \A u \in Threads \ {t} : SameMarks(u)
          /\ At(t, "parentAdd")' <=> At(t, "parentAdd")
          /\ ~At(t, "parentUndo") /\ At(t, "parentUndo")'
      BY <3>1, <3>2, TurnMarks
    <3>4. ToAdd' = ToAdd /\ W' = W /\ t \notin ToUndo /\ ToUndo' = ToUndo \cup {t}
      BY <1>5, <3>2, <3>3
    <3>5. IsFiniteSet(ToUndo') /\ Cardinality(ToUndo') = Cardinality(ToUndo) + 1
      BY <1>1, <3>4, FS_AddElement
    <3>6. QED
      BY <1>1, <1>2, <2>1, <3>4, <3>5
  <2>3. CASE ~(parentJobs >= maxParentJobs)
    <3>1. Top(t).at = "notify" /\ Replaces(t, "parentAdd")
      BY <1>7, <2>3, AddFlows
    <3>2. /\ \E b : Turns(t, b, "parentAdd")
          /\ ParentFrames(t)' = ParentFrames(t)
      BY <3>1, TurnReplace DEF ParentLabels
    <3>3. /\ \A u \in Threads \ {t} : SameMarks(u)
          /\ At(t, "parentUndo")' <=> At(t, "parentUndo")
          /\ ~At(t, "parentAdd") /\ At(t, "parentAdd")'
      BY <3>1, <3>2, TurnMarks
    <3>4. ToUndo' = ToUndo /\ W' = W /\ t \notin ToAdd /\ ToAdd' = ToAdd \cup {t}
      BY <1>5, <3>2, <3>3
    <3>5. IsFiniteSet(ToAdd') /\ Cardinality(ToAdd') = Cardinality(ToAdd) + 1
      BY <1>1, <3>4, FS_AddElement
    <3>6. QED
      BY <1>0, <1>1, <1>2, <2>1, <2>3, <3>4, <3>5
  <2>4. QED
    BY <2>2, <2>3
<1>8. CASE addParentUndo(t)
  <2>1. parentJobs' = parentJobs - 1 /\ parentQueue' = parentQueue /\ strong' = strong
    BY <1>8 DEF addParentUndo
  <2>2. Top(t).at = "parentUndo" /\ Pops(t)
    BY <1>8, AddFlows
  <2>3. /\ \E b, m : m \in Calling /\ Turns(t, b, m)
        /\ ParentFrames(t)' = ParentFrames(t)
    BY <2>2, TurnPop DEF ParentLabels, Bases, ClientLabels, WorkerLabels
  <2>4. /\ \A u \in Threads \ {t} : SameMarks(u)
        /\ At(t, "parentAdd")' <=> At(t, "parentAdd")
        /\ At(t, "parentUndo") /\ ~At(t, "parentUndo")'
    BY <2>2, <2>3, TurnMarks DEF Calling
  <2>5. ToAdd' = ToAdd /\ W' = W /\ t \in ToUndo /\ ToUndo' = ToUndo \ {t}
    BY <1>5, <2>3, <2>4
  <2>6. IsFiniteSet(ToUndo') /\ Cardinality(ToUndo') = Cardinality(ToUndo) - 1
    BY <1>1, <2>5, FS_RemoveElement
  <2>7. QED
    BY <1>1, <1>2, <2>1, <2>5, <2>6
<1>9. CASE addParentJob(t)
  <2>1. parentJobs' = parentJobs /\ Top(t).at = "parentAdd"
    BY <1>9, AddFlows DEF addParentJob
  <2>2. CASE Pops(t) /\ parentQueue' = parentQueue + 1 /\ strong' = strong
    <3>1. /\ \E b, m : m \in Calling /\ Turns(t, b, m)
          /\ ParentFrames(t)' = ParentFrames(t)
      BY <2>1, <2>2, TurnPop DEF ParentLabels, Bases, ClientLabels, WorkerLabels
    <3>2. /\ \A u \in Threads \ {t} : SameMarks(u)
          /\ At(t, "parentUndo")' <=> At(t, "parentUndo")
          /\ At(t, "parentAdd") /\ ~At(t, "parentAdd")'
      BY <2>1, <3>1, TurnMarks DEF Calling
    <3>3. ToUndo' = ToUndo /\ W' = W /\ t \in ToAdd /\ ToAdd' = ToAdd \ {t}
      BY <1>5, <3>1, <3>2
    <3>4. IsFiniteSet(ToAdd') /\ Cardinality(ToAdd') = Cardinality(ToAdd) - 1
      BY <1>1, <3>3, FS_RemoveElement
    <3>5. QED
      BY <1>0, <1>1, <1>2, <2>1, <2>2, <3>3, <3>4
  <2>3. CASE /\ Pushes(t, "added", "parentLoop")
             /\ parentQueue' = parentQueue /\ strong' = strong + 1
    <3>1. Len(stack[t]) + 1 \in Nat
      BY TopFrame
    <3>2. /\ \E b : Turns(t, b, "parentLoop")
          /\ Len(stack[t]) + 1 \notin ParentFrames(t)
          /\ ParentFrames(t)' = ParentFrames(t) \cup {Len(stack[t]) + 1}
      BY <2>1, <2>3, TurnPush DEF ParentLabels
    <3>3. /\ \A u \in Threads \ {t} : SameMarks(u)
          /\ At(t, "parentUndo")' <=> At(t, "parentUndo")
          /\ At(t, "parentAdd") /\ ~At(t, "parentAdd")'
      BY <2>1, <3>2, TurnMarks
    <3>4. ToUndo' = ToUndo /\ t \in ToAdd /\ ToAdd' = ToAdd \ {t}
      BY <1>5, <3>3
    <3>5. IsFiniteSet(ToAdd') /\ Cardinality(ToAdd') = Cardinality(ToAdd) - 1
      BY <1>1, <3>4, FS_RemoveElement
    <3>6. IsFiniteSet(W') /\ Cardinality(W') = Cardinality(W) + 1
      BY <1>5a, <3>1, <3>2, <3>3
    <3>7. QED
      BY <1>0, <1>1, <1>2, <2>1, <2>3, <3>4, <3>5, <3>6
  <2>4. QED
    BY <1>9, <2>2, <2>3, AddFlows
<1>10. CASE parentBegin(t)
  <2>1. parentJobs' = parentJobs /\ parentQueue' = parentQueue - 1
    BY <1>10 DEF parentBegin
  <2>2. CASE shutdown
    <3>1. stack' = stack /\ strong' = strong
      BY <1>10, <2>2 DEF parentBegin
    <3>2. \A u \in Threads : SameMarks(u)
      BY <3>1, StillMarks
    <3>3. ToAdd' = ToAdd /\ ToUndo' = ToUndo /\ W' = W
      BY <3>2, SameSets DEF W
    <3>4. QED
      BY <1>0, <1>1, <1>2, <2>1, <3>1, <3>3
  <2>3. CASE ~shutdown
    <3>1. Top(t).at = "parent" /\ Pushes(t, "parent", "parentLoop") /\ strong' = strong + 1
      BY <1>10, <2>3, ParentFlows DEF parentBegin
    <3>2. Len(stack[t]) + 1 \in Nat
      BY TopFrame
    <3>3. /\ \E b : Turns(t, b, "parentLoop")
          /\ Len(stack[t]) + 1 \notin ParentFrames(t)
          /\ ParentFrames(t)' = ParentFrames(t) \cup {Len(stack[t]) + 1}
      BY <3>1, TurnPush DEF ParentLabels
    <3>4. /\ \A u \in Threads \ {t} : SameMarks(u)
          /\ At(t, "parentAdd")' <=> At(t, "parentAdd")
          /\ At(t, "parentUndo")' <=> At(t, "parentUndo")
      BY <3>1, <3>3, TurnMarks
    <3>5. ToAdd' = ToAdd /\ ToUndo' = ToUndo
      BY <1>5, <3>4
    <3>6. IsFiniteSet(W') /\ Cardinality(W') = Cardinality(W) + 1
      BY <1>5a, <3>2, <3>3, <3>4
    <3>7. QED
      BY <1>0, <1>1, <1>2, <2>1, <3>1, <3>5, <3>6
  <2>4. QED
    BY <2>2, <2>3
<1>11. CASE parentEnd(t)
  <2>1. parentJobs' = parentJobs - 1 /\ parentQueue' = parentQueue /\ strong' = strong - 1
    BY <1>11 DEF parentEnd
  <2>2. Top(t).at = "parentWorked" /\ Pops(t)
    BY <1>11, ParentFlows
  <2>3. Len(stack[t]) \in Nat
    BY TopFrame
  <2>4. /\ \E b, m : m \in Calling /\ Turns(t, b, m)
        /\ Len(stack[t]) \in ParentFrames(t)
        /\ ParentFrames(t)' = ParentFrames(t) \ {Len(stack[t])}
    BY <2>2, TurnPop DEF ParentLabels, Bases, ClientLabels, WorkerLabels
  <2>5. /\ \A u \in Threads \ {t} : SameMarks(u)
        /\ At(t, "parentAdd")' <=> At(t, "parentAdd")
        /\ At(t, "parentUndo")' <=> At(t, "parentUndo")
    BY <2>2, <2>4, TurnMarks DEF Calling
  <2>6. ToAdd' = ToAdd /\ ToUndo' = ToUndo
    BY <1>5, <2>5
  <2>7. IsFiniteSet(W') /\ Cardinality(W') = Cardinality(W) - 1
    BY <1>5a, <2>3, <2>4, <2>5
  <2>8. QED
    BY <1>0, <1>1, <1>2, <2>1, <2>6, <2>7
<1>12. QED
  BY <1>4, <1>6, <1>7, <1>8, <1>9, <1>10, <1>11 DEF Marking

-----------------------------------------------------------------------------
(* Destruction, and the queues of threads that are gone.                   *)

\* A queue that was empty is empty, unless its thread has just pushed a job.
LEMMA QueueGrows ==
    ASSUME PoolType, NEW t \in Threads, ClientCalls(t) \/ Steps(t),
           NEW u \in Threads, queue[u] = <<>>
    PROVE  queue'[u] = <<>> \/ (u = t /\ addPush(t))
<1>1. CASE \/ clientAdd(t) \/ clientWait(t) \/ clientWork(t) \/ clientExit(t)
           \/ destroy(t) \/ notifyAll(t) \/ join(t)
  <2>1. queue' = queue
    BY <1>1 DEF clientAdd, clientWait, clientWork, clientExit, destroy, notifyAll, join,
       queueVars, StackOnly
  <2>2. QED
    BY <2>1
<1>2. CASE \/ unpublishThread(t) \/ addSubmit(t) \/ addReturn(t) \/ addNotify(t)
           \/ addParent(t) \/ addParentUndo(t) \/ addParentJob(t)
  <2>1. queue' = queue
    BY <1>2 DEF unpublishThread, addSubmit, addReturn, addNotify, addParent, addParentUndo, addParentJob,
       queueVars, StackOnly
  <2>2. QED
    BY <2>1
<1>3. CASE \/ bodyAdd(t) \/ bodyEnd(t) \/ jobFinish(t) \/ handleException(t)
           \/ stealRefresh(t) \/ stealNext(t) \/ stealLook(t) \/ stealMine(t)
  <2>1. queue' = queue
    BY <1>3 DEF bodyAdd, bodyEnd, jobFinish, handleException, stealRefresh, stealNext, stealLook, stealMine,
       queueVars, StackOnly
  <2>2. QED
    BY <2>1
<1>4. CASE \/ waitSubmitted(t) \/ waitFinished(t) \/ waitWork(t)
           \/ waitExc(t) \/ waitReturn(t) \/ workerStart(t)
  <2>1. queue' = queue
    BY <1>4 DEF waitSubmitted, waitFinished, waitWork, waitExc, waitReturn, workerStart,
       queueVars, StackOnly
  <2>2. QED
    BY <2>1
<1>5. CASE \/ workerLoop(t) \/ workerWork(t) \/ workerSleep(t)
           \/ workerWait(t) \/ workerTimeout(t) \/ workerWake(t)
  <2>1. queue' = queue
    BY <1>5 DEF workerLoop, workerWork, workerSleep, workerWait, workerTimeout, workerWake,
       queueVars, StackOnly
  <2>2. QED
    BY <2>1
<1>6. CASE \/ work(t) \/ parentBegin(t)
           \/ runParentWorker(t) \/ parentEnd(t)
  <2>1. queue' = queue
    BY <1>6 DEF work, parentBegin, runParentWorker, parentEnd,
       queueVars, StackOnly
  <2>2. QED
    BY <2>1
<1>7. CASE addPush(t)
  <2>1. u # t => queue'[u] = queue[u]
    BY <1>7 DEF addPush, PoolType
  <2>2. QED
    BY <1>7, <2>1
<1>8. CASE runMine(t)
  <2>1. queue'[u] = queue[u]
    BY <1>8 DEF runMine, PoolType
  <2>2. QED
    BY <2>1
<1>9. CASE stealClaim(t)
  <2>1. queue'[u] = queue[u]
    BY <1>9 DEF stealClaim, PoolType
  <2>2. QED
    BY <2>1
<1>10. QED
  BY <1>1, <1>2, <1>3, <1>4, <1>5, <1>6, <1>7, <1>8, <1>9 DEF ClientCalls, Steps

\* Queues are published for as long as their threads live.
LEMMA PublishStep ==
    ASSUME PoolType, NEW t \in Threads, ClientCalls(t) \/ Steps(t)
    PROVE  /\ unpublishThread(t) \/ queues \subseteq queues'
           /\ addPush(t) => shutdown \/ t \in queues'
           /\ destroy(t) \/ parentEnd(t) \/ shutdown' = shutdown
<1> DEFINE Goal == /\ unpublishThread(t) \/ queues \subseteq queues'
                   /\ destroy(t) \/ parentEnd(t) \/ shutdown' = shutdown
<1>1. ASSUME clientAdd(t) \/ clientWait(t) \/ clientWork(t) \/ clientExit(t) \/ notifyAll(t)
      PROVE  Goal
  BY <1>1 DEF clientAdd, clientWait, clientWork, clientExit, notifyAll,
     queueVars, getEntry, StackOnly
<1>2. ASSUME join(t) \/ addSubmit(t) \/ addPush(t) \/ addReturn(t) \/ addNotify(t) \/ addParent(t)
      PROVE  Goal
  BY <1>2 DEF join, addSubmit, addPush, addReturn, addNotify, addParent,
     queueVars, getEntry, StackOnly
<1>3. ASSUME addParentUndo(t) \/ addParentJob(t) \/ bodyAdd(t) \/ bodyEnd(t) \/ jobFinish(t) \/ handleException(t)
      PROVE  Goal
  BY <1>3 DEF addParentUndo, addParentJob, bodyAdd, bodyEnd, jobFinish, handleException,
     queueVars, getEntry, StackOnly
<1>4. ASSUME runMine(t) \/ stealRefresh(t) \/ stealNext(t) \/ stealLook(t) \/ stealClaim(t) \/ stealMine(t)
      PROVE  Goal
  BY <1>4 DEF runMine, stealRefresh, stealNext, stealLook, stealClaim, stealMine,
     queueVars, getEntry, StackOnly
<1>5. ASSUME waitSubmitted(t) \/ waitFinished(t) \/ waitWork(t) \/ waitExc(t) \/ waitReturn(t) \/ workerStart(t)
      PROVE  Goal
  BY <1>5 DEF waitSubmitted, waitFinished, waitWork, waitExc, waitReturn, workerStart,
     queueVars, getEntry, StackOnly
<1>6. ASSUME workerLoop(t) \/ workerWork(t) \/ workerSleep(t) \/ workerWait(t) \/ workerTimeout(t) \/ workerWake(t)
      PROVE  Goal
  BY <1>6 DEF workerLoop, workerWork, workerSleep, workerWait, workerTimeout, workerWake,
     queueVars, getEntry, StackOnly
<1>7. ASSUME work(t) \/ parentBegin(t) \/ runParentWorker(t)
      PROVE  Goal
  BY <1>7 DEF work, parentBegin, runParentWorker,
     queueVars, getEntry, StackOnly
<1>8. ASSUME destroy(t)
      PROVE  Goal
  BY <1>8 DEF destroy, queueVars
<1>9. ASSUME parentEnd(t)
      PROVE  Goal
  BY <1>9 DEF parentEnd, queueVars
<1>10. ASSUME unpublishThread(t)
       PROVE  Goal
  BY <1>10 DEF unpublishThread
<1>11. addPush(t) => shutdown \/ t \in queues'
  BY DEF addPush, getEntry
<1> HIDE DEF Goal
<1>12. Goal
  BY <1>1, <1>2, <1>3, <1>4, <1>5, <1>6, <1>7, <1>8, <1>9, <1>10 DEF ClientCalls, Steps
<1>13. QED
  BY <1>11, <1>12 DEF Goal

\* A thread at a label of the clients is a client, with nothing called.
LEMMA IsClient ==
    ASSUME PoolType, FrameInv, ShapeInv, NEW t \in Threads,
           Top(t).at \in ClientLabels \ {"gone"}
    PROVE  t \in Clients /\ t \notin Workers /\ Base(t) = Top(t).at
<1>1. Top(t).at \in BaseOf(t) /\ Len(stack[t]) = 1
  BY BaseFrame DEF Bases
<1>2. t \in Clients
  BY <1>1, ThreadPoolAssumption DEF BaseOf, ClientLabels, WorkerLabels
<1>3. QED
  BY <1>1, <1>2, TopFrame, ThreadPoolAssumption DEF Base

\* Nothing ends.
EndSame ==
    /\ \A u \in Clients : Base(u)' = Base(u)
    /\ \A u \in Threads : At(u, "gone")' <=> At(u, "gone")
    /\ \A u \in Threads : At(u, "unpublishMine")' => At(u, "unpublishMine") \/ queue'[u] = <<>>

LoopLabels == (WorkerLabels \ {"gone"}) \cup {"parent"}

\* A step that stays away from the labels of the shutdown leaves the bottom frames of
\* the clients, and which threads are gone or withdraw a queue, alone.
LEMMA EndFlow ==
    ASSUME PoolType, FrameInv, ShapeInv, NEW t \in Threads, Top(t).at # "gone"
    PROVE  /\ \A b : /\ Replaces(t, b) /\ b \notin {"gone", "unpublishMine"}
                     /\ Top(t).at \notin Bases \/ Top(t).at \in LoopLabels
                     => EndSame
           /\ \A b, c : /\ Pushes(t, b, c) /\ c \notin {"gone", "unpublishMine"}
                        /\ Top(t).at \notin Bases \/ Top(t).at \in LoopLabels \/ Top(t).at = b
                        => EndSame
           /\ Pops(t) /\ Top(t).at \notin Bases /\ (Top(t).at # "mine" \/ queue'[t] = <<>>) => EndSame
<1>1. ASSUME NEW b, NEW m, Turns(t, b, m), t \in Clients => b = Base(t), m # "gone",
             m # "unpublishMine" \/ queue'[t] = <<>>
      PROVE  EndSame
  <2>1. \A u \in Threads \ {t} : /\ Base(u)' = Base(u)
                                 /\ \A l : At(u, l)' <=> At(u, l)
    BY <1>1 DEF Turns, Base, At, Top
  <2>2. ~At(t, "gone") /\ ~At(t, "gone")' /\ (At(t, "unpublishMine")' => m = "unpublishMine")
    BY <1>1, TopFrame DEF Turns
  <2>3. t \in Clients => Base(t)' = Base(t)
    BY <1>1 DEF Turns
  <2>4. \A u \in Clients : u \in Threads
    BY DEF Threads
  <2>5. QED
    BY <1>1, <2>1, <2>2, <2>3, <2>4 DEF EndSame
<1>2. Top(t).at \in LoopLabels => t \notin Clients
  BY BaseFrame DEF Bases, BaseOf, ClientLabels, WorkerLabels, LoopLabels
<1>3. Top(t).at \in Bases => Base(t) = Top(t).at
  BY BaseFrame, TopFrame DEF Base
<1>4. ASSUME NEW b, Replaces(t, b), b \notin {"gone", "unpublishMine"},
             Top(t).at \notin Bases \/ Top(t).at \in LoopLabels
      PROVE  EndSame
  <2>1. PICK x : /\ x = IF Top(t).at \in Bases THEN b ELSE Base(t)
                 /\ Turns(t, x, b)
    BY <1>4, TurnReplace
  <2>2. t \in Clients => x = Base(t)
    BY <1>2, <1>4, <2>1
  <2>3. QED
    BY <1>1, <1>4, <2>1, <2>2
<1>5. ASSUME NEW b, NEW c, Pushes(t, b, c), c \notin {"gone", "unpublishMine"},
             Top(t).at \notin Bases \/ Top(t).at \in LoopLabels \/ Top(t).at = b
      PROVE  EndSame
  <2>1. PICK x : /\ x = IF Top(t).at \in Bases THEN b ELSE Base(t)
                 /\ Turns(t, x, c)
    BY <1>5, TurnPush
  <2>2. t \in Clients => x = Base(t)
    BY <1>2, <1>3, <1>5, <2>1
  <2>3. QED
    BY <1>1, <1>5, <2>1, <2>2
<1>6. ASSUME Pops(t), Top(t).at \notin Bases, Top(t).at # "mine" \/ queue'[t] = <<>>
      PROVE  EndSame
  <2>1. PICK m \in Calling : /\ Turns(t, Base(t), m)
                             /\ m = "unpublishMine" => Top(t).at = "mine"
    BY <1>6, TurnPop
  <2>2. PICK x : x = Base(t) /\ Turns(t, x, m)
    BY <2>1
  <2>3. m # "gone"
    BY DEF Calling
  <2>4. QED
    BY <1>1, <1>6, <2>1, <2>2, <2>3
<1>7. QED
  BY <1>4, <1>5, <1>6

\* Steps that end something.
Ending(t) == \/ clientExit(t) \/ destroy(t) \/ unpublishThread(t) \/ notifyAll(t) \/ join(t)
             \/ parentEnd(t) \/ (workerLoop(t) /\ shutdown)

\* Only the actions of a client or a worker that leaves, and of the destructor, change
\* those.
LEMMA EndSameStep ==
    ASSUME PoolType, FrameInv, ShapeInv, NEW t \in Threads, ClientCalls(t) \/ Steps(t), ~Ending(t)
    PROVE  EndSame
<1>1. CASE clientAdd(t)
  <2>1. Top(t).at = "client" /\ Pushes(t, "client", "submit")
    BY <1>1, AddFlows, JobPush
  <2>2. QED
    BY <2>1, EndFlow
<1>2. CASE clientWait(t)
  BY <1>2, ClientFlows, EndFlow DEF LoopLabels, Bases, ClientLabels, WorkerLabels
<1>3. CASE clientWork(t)
  BY <1>3, ClientFlows, EndFlow DEF LoopLabels, Bases, ClientLabels, WorkerLabels
<1>4. CASE addSubmit(t)
  BY <1>4, AddFlows, JobPush, EndFlow DEF LoopLabels, Bases, ClientLabels, WorkerLabels
<1>5. CASE addPush(t)
  BY <1>5, AddFlows, JobPush, EndFlow DEF LoopLabels, Bases, ClientLabels, WorkerLabels
<1>6. CASE addReturn(t)
  BY <1>6, AddFlows, JobPush, EndFlow DEF LoopLabels, Bases, ClientLabels, WorkerLabels
<1>7. CASE addNotify(t)
  <2>1. Top(t).at = "notify"
    BY <1>7, NotifyFlows
  <2>2. CASE Pops(t)
    BY <2>1, <2>2, EndFlow DEF Bases, ClientLabels, WorkerLabels
  <2>3. ASSUME NEW w \in Workers, Wakes(t, w)
        PROVE  EndSame
    <3>1. \A u \in Threads \ {t, w} : /\ Base(u)' = Base(u)
                                      /\ \A l : At(u, l)' <=> At(u, l)
      BY <2>1, <2>3, TurnWake DEF Base, At, Top
    <3>2. w \in Threads /\ w \notin Clients
      BY ThreadPoolAssumption DEF Threads
    <3>3. (\A l : At(w, l)' <=> l = "wake") /\ \A l : At(w, l) <=> l = "sleep"
      BY <2>1, <2>3, <3>2, TurnWake, TopFrame
    <3>4. Base(t)' = Base(t)
      BY <2>1, <2>3, TurnWake
    <3>5. ~At(t, "gone") /\ ~At(t, "gone")' /\ ~At(t, "unpublishMine")'
      BY <2>1, <2>3, TurnWake, TopFrame DEF Calling
    <3>6. \A u \in Clients : u \in Threads
      BY DEF Threads
    <3>7. \A u \in Clients : Base(u)' = Base(u)
      BY <3>1, <3>2, <3>4, <3>6
    <3>8. \A u \in Threads : At(u, "gone")' <=> At(u, "gone")
      BY <3>1, <3>3, <3>5
    <3>9. \A u \in Threads : At(u, "unpublishMine")' => At(u, "unpublishMine")
      BY <3>1, <3>3, <3>5
    <3>10. QED
      BY <3>7, <3>8, <3>9 DEF EndSame
  <2>4. QED
    BY <1>7, <2>2, <2>3, NotifyFlows
<1>8. CASE addParent(t)
  BY <1>8, AddFlows, JobPush, EndFlow DEF LoopLabels, Bases, ClientLabels, WorkerLabels
<1>9. CASE addParentUndo(t)
  BY <1>9, AddFlows, JobPush, EndFlow DEF LoopLabels, Bases, ClientLabels, WorkerLabels
<1>10. CASE addParentJob(t)
  BY <1>10, AddFlows, JobPush, EndFlow DEF LoopLabels, Bases, ClientLabels, WorkerLabels
<1>11. CASE bodyAdd(t)
  <2>1. Top(t).at = "body" /\ Pushes(t, "body", "submit")
    BY <1>11, RunFlows, JobFrames, ThreadPoolAssumption DEF Pushes
  <2>2. QED
    BY <2>1, EndFlow DEF LoopLabels, Bases, ClientLabels, WorkerLabels
<1>12. CASE bodyEnd(t)
  BY <1>12, RunFlows, JobPush, EndFlow DEF LoopLabels, Bases, ClientLabels, WorkerLabels
<1>13. CASE jobFinish(t)
  BY <1>13, RunFlows, JobPush, EndFlow DEF LoopLabels, Bases, ClientLabels, WorkerLabels
<1>14. CASE handleException(t)
  BY <1>14, RunFlows, JobPush, EndFlow DEF LoopLabels, Bases, ClientLabels, WorkerLabels
<1>15. CASE runMine(t)
  <2>1. Top(t).at = "mine" /\ ((Pops(t) /\ queue[t] = <<>>) \/ Pushes(t, "mine", "body"))
    BY <1>15, StealFlows, JobPush
  <2>2. queue[t] = <<>> => queue'[t] = <<>>
    BY <1>15 DEF runMine
  <2>3. QED
    BY <2>1, <2>2, EndFlow DEF LoopLabels, Bases, ClientLabels, WorkerLabels
<1>16. CASE stealRefresh(t)
  BY <1>16, StealFlows, JobPush, EndFlow DEF LoopLabels, Bases, ClientLabels, WorkerLabels
<1>17. CASE stealNext(t)
  BY <1>17, StealFlows, JobPush, EndFlow DEF LoopLabels, Bases, ClientLabels, WorkerLabels
<1>18. CASE stealLook(t)
  BY <1>18, StealFlows, JobPush, EndFlow DEF LoopLabels, Bases, ClientLabels, WorkerLabels
<1>19. CASE stealClaim(t)
  BY <1>19, StealFlows, JobPush, EndFlow DEF LoopLabels, Bases, ClientLabels, WorkerLabels
<1>20. CASE stealMine(t)
  BY <1>20, StealFlows, JobPush, EndFlow DEF LoopLabels, Bases, ClientLabels, WorkerLabels
<1>21. CASE waitSubmitted(t)
  BY <1>21, WaitFlows, EndFlow DEF LoopLabels, Bases, ClientLabels, WorkerLabels
<1>22. CASE waitFinished(t)
  BY <1>22, WaitFlows, EndFlow DEF LoopLabels, Bases, ClientLabels, WorkerLabels
<1>23. CASE waitWork(t)
  BY <1>23, WaitFlows, EndFlow DEF LoopLabels, Bases, ClientLabels, WorkerLabels
<1>24. CASE waitExc(t)
  BY <1>24, WaitFlows, EndFlow DEF LoopLabels, Bases, ClientLabels, WorkerLabels
<1>25. CASE waitReturn(t)
  BY <1>25, WaitFlows, EndFlow DEF LoopLabels, Bases, ClientLabels, WorkerLabels
<1>26. CASE workerStart(t)
  BY <1>26, WorkerFlows, EndFlow DEF LoopLabels, Bases, ClientLabels, WorkerLabels
<1>27. CASE workerLoop(t)
  <2>1. CASE shutdown
    BY <1>27, <2>1 DEF Ending
  <2>2. CASE ~shutdown
    <3>1. Top(t).at = "loop" /\ Call(t, "workerMine", Frame("mine"))
      BY <1>27, <2>2, TopFrame DEF workerLoop
    <3>2. Pushes(t, "workerMine", "mine")
      BY <3>1, PlainFlow DEF Plain, Labels, JobLabels
    <3>3. QED
      BY <3>1, <3>2, EndFlow DEF LoopLabels, WorkerLabels
  <2>3. QED
    BY <2>1, <2>2
<1>28. CASE workerWork(t)
  BY <1>28, WorkerFlows, EndFlow DEF LoopLabels, Bases, ClientLabels, WorkerLabels
<1>29. CASE workerSleep(t)
  BY <1>29, WorkerFlows, EndFlow DEF LoopLabels, Bases, ClientLabels, WorkerLabels
<1>30. CASE workerWait(t)
  BY <1>30, WorkerFlows, EndFlow DEF LoopLabels, Bases, ClientLabels, WorkerLabels
<1>31. CASE workerTimeout(t)
  BY <1>31, WorkerFlows, EndFlow DEF LoopLabels, Bases, ClientLabels, WorkerLabels
<1>32. CASE workerWake(t)
  BY <1>32, WorkerFlows, EndFlow DEF LoopLabels, Bases, ClientLabels, WorkerLabels
<1>33. CASE work(t)
  BY <1>33, WaitFlows, EndFlow DEF LoopLabels, Bases, ClientLabels, WorkerLabels
<1>34. CASE parentBegin(t)
  <2>1. CASE shutdown
    <3>1. stack' = stack
      BY <1>34, <2>1 DEF parentBegin
    <3>2. QED
      BY <3>1 DEF EndSame, Base, At, Top
  <2>2. CASE ~shutdown
    BY <1>34, <2>2, ParentFlows, EndFlow DEF LoopLabels
  <2>3. QED
    BY <2>1, <2>2
<1>35. CASE runParentWorker(t)
  BY <1>35, ParentFlows, EndFlow DEF LoopLabels, Bases, ClientLabels, WorkerLabels
<1>36. /\ ~clientExit(t) /\ ~destroy(t) /\ ~unpublishThread(t) /\ ~notifyAll(t) /\ ~join(t)
       /\ ~parentEnd(t)
  BY DEF Ending
<1>37. QED
  BY <1>1, <1>2, <1>3, <1>4, <1>5, <1>6, <1>7, <1>8, <1>9, <1>10, <1>11, <1>12, <1>13, <1>14, <1>15, <1>16, <1>17, <1>18, <1>19, <1>20, <1>21, <1>22, <1>23, <1>24, <1>25, <1>26, <1>27, <1>28, <1>29, <1>30, <1>31, <1>32, <1>33, <1>34, <1>35, <1>36
     DEF ClientCalls, Steps


\* Only the thread that takes the step moves.
LEMMA TurnOthers ==
    ASSUME NEW t \in Threads, NEW b, NEW m, Turns(t, b, m)
    PROVE  /\ \A u \in Threads \ {t} : Base(u)' = Base(u) /\ \A l : At(u, l)' <=> At(u, l)
           /\ \A l : At(t, l)' <=> l = m
           /\ Base(t)' = b
<1>1. \A u \in Threads \ {t} : Base(u)' = Base(u) /\ \A l : At(u, l)' <=> At(u, l)
  BY DEF Turns, Base, At, Top
<1>2. QED
  BY <1>1 DEF Turns

\* A thread that is gone does nothing else.
LEMMA GoneBase ==
    ASSUME PoolType, FrameInv, ShapeInv, NEW u \in Threads, NEW l \in Bases, At(u, l)
    PROVE  Base(u) = l
  BY TopFrame, BaseFrame DEF Base

\* Steps that leave the queues as they are.
LEMMA EndTurn ==
    ASSUME PoolType, PoolType', FrameInv, ShapeInv, EndInv, NEW t \in Threads, NEW b, NEW m,
           Turns(t, b, m), UNCHANGED <<queue, shutdown>>,
           queues' = queues \/ (queues' = queues \ {t} /\ queue[t] = <<>>),
           m # "unpublishMine",
           m = "gone" => shutdown \/ (t \in Clients /\ queue[t] = <<>>),
           t \in Clients => /\ b # "client" /\ Base(t) # "gone"
                            /\ b \in {"notifyAll", "join", "destroyed"} =>
                                  Base(t) \in {"notifyAll", "join", "destroyed"}
                            /\ ~At(t, "gone")
    PROVE  EndInv'
<1>1. /\ \A u \in Threads \ {t} : Base(u)' = Base(u) /\ \A l : At(u, l)' <=> At(u, l)
      /\ \A l : At(t, l)' <=> l = m
      /\ Base(t)' = b
  BY TurnOthers
<1>2. (\A u \in Clients : u \in Threads) /\ (\A u \in Workers : u \in Threads)
  BY DEF Threads
<1>3. LastClient'
  <2>1. SUFFICES ASSUME NEW c \in Clients, Base(c)' \in {"notifyAll", "join", "destroyed"},
                        NEW u \in Clients \ {c}
                 PROVE  At(u, "gone")'
    BY DEF LastClient
  <2>2. Base(c) \in {"notifyAll", "join", "destroyed"}
    BY <1>1, <1>2, <2>1
  <2>3. At(u, "gone")
    BY <2>2 DEF EndInv, LastClient
  <2>4. u # t
    BY <2>3
  <2>5. QED
    BY <1>1, <1>2, <2>3, <2>4
<1>4. ShutOK'
  <2>1. SUFFICES ASSUME shutdown
                 PROVE  \A c \in Clients : Base(c)' # "client"
    BY DEF ShutOK
  <2>2. \A c \in Clients : Base(c) # "client"
    BY <2>1 DEF EndInv, ShutOK
  <2>3. QED
    BY <1>1, <1>2, <2>2
<1>5. WithdrawnEmpty'
  BY DEF EndInv, WithdrawnEmpty
<1>6. WithdrawingEmpty'
  BY <1>1 DEF EndInv, WithdrawingEmpty
<1>7. WorkersLast'
  BY <1>1, <1>2, ThreadPoolAssumption DEF EndInv, WorkersLast
<1>8. NoOrphanedJobs'
  BY <1>1 DEF EndInv, NoOrphanedJobs
<1>9. QED
  BY <1>3, <1>4, <1>5, <1>6, <1>7, <1>8 DEF EndInv

\* Steps that end nothing.
LEMMA EndCalm ==
    ASSUME PoolType, PoolType', FrameInv, ShapeInv, EndInv, NEW t \in Threads,
           ClientCalls(t) \/ Steps(t), ~Ending(t)
    PROVE  EndInv'
<1>1. EndSame
  BY EndSameStep
<1>2. ~unpublishThread(t) /\ ~destroy(t) /\ ~parentEnd(t)
  BY DEF Ending
<1>3. /\ queues \subseteq queues' /\ shutdown' = shutdown
      /\ addPush(t) => shutdown \/ t \in queues'
  BY <1>2, PublishStep
<1>4. \A u \in Threads : queue[u] = <<>> => queue'[u] = <<>> \/ (u = t /\ addPush(t))
  BY QueueGrows
<1>5. addPush(t) => \A l : At(t, l) <=> l = "push"
  BY AddFlows, TopFrame
<1>6. (\A u \in Clients : u \in Threads) /\ (\A u \in Workers : u \in Threads)
  BY DEF Threads
<1>7. LastClient'
  BY <1>1, <1>6 DEF EndSame, EndInv, LastClient
<1>8. ShutOK'
  <2>1. SUFFICES ASSUME shutdown
                 PROVE  \A c \in Clients : Base(c)' # "client"
    BY <1>3 DEF ShutOK
  <2>2. \A c \in Clients : Base(c) # "client"
    BY <2>1 DEF EndInv, ShutOK
  <2>3. QED
    BY <1>1, <2>2 DEF EndSame
<1>9. WithdrawnEmpty'
  BY <1>3, <1>4 DEF EndInv, WithdrawnEmpty
<1>10. WithdrawingEmpty'
  BY <1>1, <1>4, <1>5 DEF EndSame, EndInv, WithdrawingEmpty
<1>11. WorkersLast'
  BY <1>1, <1>3, <1>6 DEF EndSame, EndInv, WorkersLast
<1>12. NoOrphanedJobs'
  BY <1>1, <1>3, <1>4, <1>5 DEF EndSame, EndInv, NoOrphanedJobs
<1>13. QED
  BY <1>7, <1>8, <1>9, <1>10, <1>11, <1>12 DEF EndInv

\* Every step keeps EndInv: a queue is withdrawn only when its thread has found it
\* empty, and the pool shuts down only when its last client destroys it.
LEMMA EndStep ==
    ASSUME PoolType, PoolType', FrameInv, ShapeInv, EndInv, NEW t \in Threads,
           ClientCalls(t) \/ Steps(t)
    PROVE  EndInv'
<1>0. /\ \A u \in Clients : u \in Threads /\ u \notin Workers
      /\ \A u \in Workers : u \in Threads
  BY ThreadPoolAssumption DEF Threads
<1>1. \A u \in Threads, l \in Bases : At(u, l) => Base(u) = l
  BY GoneBase
<1>3. \A l : At(t, l) <=> Top(t).at = l
  BY TopFrame
<1>4. ASSUME Top(t).at \in ClientLabels \ {"gone"}
      PROVE  t \in Clients /\ Base(t) = Top(t).at /\ ~At(t, "gone") /\ Base(t) # "gone"
  BY <1>3, <1>4, IsClient
<1>5. CASE ~Ending(t)
  BY <1>5, EndCalm
<1>6. CASE clientExit(t)
  <2>1. Top(t).at = "client"
    BY <1>6, ClientFlows
  <2>2. t \in Clients /\ Base(t) = "client" /\ ~At(t, "gone")
    BY <1>4, <2>1 DEF ClientLabels
  <2>3. ~shutdown
    BY <2>2 DEF EndInv, ShutOK
  <2>4. UNCHANGED <<queue, shutdown, queues>>
    BY <1>6 DEF clientExit, StackOnly, queueVars
  <2>5. CASE t \in queues
    <3>1. Replaces(t, "unpublish")
      BY <1>6, <2>5, PlainFlow DEF clientExit, Plain, Labels, JobLabels
    <3>2. Turns(t, "unpublish", "unpublish")
      BY <2>1, <3>1, TurnReplace DEF Bases, ClientLabels
    <3>3. QED
      BY <2>2, <2>4, <3>2, EndTurn
  <2>6. CASE t \notin queues
    <3>1. Replaces(t, "gone")
      BY <1>6, <2>6, PlainFlow DEF clientExit, Plain, Labels, JobLabels
    <3>2. Turns(t, "gone", "gone")
      BY <2>1, <3>1, TurnReplace DEF Bases, ClientLabels
    <3>3. queue[t] = <<>>
      BY <2>3, <2>6 DEF EndInv, WithdrawnEmpty
    <3>4. QED
      BY <2>2, <2>4, <3>2, <3>3, EndTurn
  <2>7. QED
    BY <2>5, <2>6
<1>7. CASE unpublishThread(t)
  <2>1. Top(t).at \in {"unpublish", "unpublishMine"}
    BY <1>7, ClientFlows
  <2>2. t \in Clients /\ Base(t) = Top(t).at /\ ~At(t, "gone") /\ Base(t) # "gone"
    BY <1>4, <2>1 DEF ClientLabels
  <2>3. UNCHANGED <<queue, shutdown>>
    BY <1>7 DEF unpublishThread
  <2>4. Top(t).at \in Bases
    BY <2>1 DEF Bases, ClientLabels
  <2>5. CASE At(t, "unpublish")
    <3>1. Top(t).at = "unpublish"
      BY <1>3, <2>5
    <3>2. Pushes(t, "unpublishMine", "mine")
      BY <1>7, <3>1, ClientFlows
    <3>3. Turns(t, "unpublishMine", "mine")
      BY <2>4, <3>2, TurnPush
    <3>4. queues' = queues
      BY <1>3, <1>7, <3>1 DEF unpublishThread
    <3>5. QED
      BY <2>2, <2>3, <3>3, <3>4, EndTurn
  <2>6. CASE At(t, "unpublishMine")
    <3>1. Top(t).at = "unpublishMine"
      BY <1>3, <2>6
    <3>2. queue[t] = <<>>
      BY <2>6 DEF EndInv, WithdrawingEmpty
    <3>3. queues' = queues \/ queues' = queues \ {t}
      BY <1>7 DEF unpublishThread
    <3>4. Replaces(t, "unpublish") \/ Replaces(t, "gone")
      BY <1>7, <3>1, ClientFlows
    <3>5. Turns(t, "unpublish", "unpublish") \/ Turns(t, "gone", "gone")
      BY <2>4, <3>4, TurnReplace
    <3>6. QED
      BY <2>2, <2>3, <3>2, <3>3, <3>5, EndTurn
  <2>7. QED
    BY <1>7, <2>5, <2>6 DEF unpublishThread
<1>8. CASE destroy(t)
  <2>1. Top(t).at = "client" /\ \A u \in Clients \ {t} : At(u, "gone")
    BY <1>8, ClientFlows DEF destroy
  <2>2. t \in Clients /\ Base(t) = "client" /\ ~At(t, "gone")
    BY <1>4, <2>1 DEF ClientLabels
  <2>3. ~shutdown
    BY <2>2 DEF EndInv, ShutOK
  <2>4. UNCHANGED <<queue, queues>>
    BY <1>8 DEF destroy, queueVars
  <2>5. PICK b \in {"destroyed", "notifyAll"} : Replaces(t, b)
    BY <1>8, ClientFlows
  <2>6. Turns(t, b, b)
    BY <2>1, <2>5, TurnReplace DEF Bases, ClientLabels
  <2>7. /\ \A u \in Threads \ {t} : Base(u)' = Base(u) /\ \A l : At(u, l)' <=> At(u, l)
        /\ \A l : At(t, l)' <=> l = b
        /\ Base(t)' = b
    BY <2>6, TurnOthers
  <2>8. \A u \in Clients \ {t} : At(u, "gone")' /\ Base(u)' = "gone"
    BY <1>0, <1>1, <2>1, <2>7 DEF Bases, ClientLabels
  <2>9. LastClient'
    BY <2>8 DEF LastClient
  <2>10. ShutOK'
    <3>1. \A u \in Clients : Base(u)' # "client"
      BY <2>5, <2>7, <2>8
    <3>2. QED
      BY <3>1 DEF ShutOK
  <2>11. WithdrawnEmpty'
    BY <2>3, <2>4 DEF EndInv, WithdrawnEmpty
  <2>12. WithdrawingEmpty'
    BY <2>4, <2>5, <2>7 DEF EndInv, WithdrawingEmpty
  <2>13. WorkersLast'
    BY <1>0, <2>2, <2>3, <2>7 DEF EndInv, WorkersLast
  <2>14. NoOrphanedJobs'
    BY <2>3, <2>4, <2>5, <2>7 DEF EndInv, NoOrphanedJobs
  <2>15. QED
    BY <2>9, <2>10, <2>11, <2>12, <2>13, <2>14 DEF EndInv
<1>9. CASE notifyAll(t)
  <2>1. Top(t).at = "notifyAll" /\ WakesAll(t)
    BY <1>9, NotifyFlows
  <2>2. t \in Clients /\ Base(t) = "notifyAll"
    BY <1>4, <2>1 DEF ClientLabels
  <2>3. UNCHANGED <<queue, shutdown, queues>>
    BY <1>9 DEF notifyAll, StackOnly, queueVars
  <2>4. Base(t)' = "join" /\ \A l : At(t, l)' <=> l = "join"
    BY <2>1, TurnWakeAll
  <2>5. \A u \in Threads \ {t} : \/ stack'[u] = stack[u]
                                 \/ /\ \A l : At(u, l)' <=> l = "wake"
                                    /\ At(u, "sleep") /\ Base(u) = "sleep"
    BY <2>1, TurnWakeAll
  <2>6. \A u \in Threads \ {t} : \A l : l # "wake" => (At(u, l)' => At(u, l))
    BY <2>5 DEF At, Top
  <2>7. \A u \in Clients \ {t} : stack'[u] = stack[u]
    <3>1. \A u \in Clients : Base(u) # "sleep"
      BY <1>0 DEF ShapeInv, ShapeOK, BaseOf, ClientLabels, Base
    <3>2. QED
      BY <1>0, <2>5, <3>1
  <2>8. \A u \in Clients \ {t} : At(u, "gone") /\ At(u, "gone")' /\ Base(u)' = "gone"
    <3>1. \A u \in Clients \ {t} : At(u, "gone")
      BY <2>2 DEF EndInv, LastClient
    <3>2. \A u \in Clients \ {t} : At(u, "gone")' /\ Base(u)' = Base(u)
      BY <2>7, <3>1 DEF At, Top, Base
    <3>3. \A u \in Clients \ {t} : Base(u) = "gone"
      BY <1>0, <1>1, <3>1 DEF Bases, ClientLabels
    <3>4. QED
      BY <3>1, <3>2, <3>3
  <2>9. LastClient'
    BY <2>8 DEF LastClient
  <2>10. ShutOK'
    <3>1. \A u \in Clients : Base(u)' # "client"
      BY <2>4, <2>8
    <3>2. QED
      BY <2>2, <2>3, <3>1 DEF EndInv, ShutOK
  <2>11. WithdrawnEmpty'
    BY <2>3 DEF EndInv, WithdrawnEmpty
  <2>12. WithdrawingEmpty'
    BY <2>3, <2>4, <2>6 DEF EndInv, WithdrawingEmpty
  <2>13. WorkersLast'
    BY <1>0, <2>3, <2>4, <2>6 DEF EndInv, WorkersLast
  <2>14. NoOrphanedJobs'
    BY <2>3, <2>4, <2>6 DEF EndInv, NoOrphanedJobs
  <2>15. QED
    BY <2>9, <2>10, <2>11, <2>12, <2>13, <2>14 DEF EndInv
<1>10. CASE join(t)
  <2>1. Top(t).at = "join" /\ Replaces(t, "destroyed")
    BY <1>10, ClientFlows
  <2>2. t \in Clients /\ Base(t) = "join" /\ ~At(t, "gone")
    BY <1>4, <2>1 DEF ClientLabels
  <2>3. UNCHANGED <<queue, shutdown, queues>>
    BY <1>10 DEF join, StackOnly, queueVars
  <2>4. Turns(t, "destroyed", "destroyed")
    BY <2>1, TurnReplace DEF Bases, ClientLabels
  <2>5. QED
    BY <2>2, <2>3, <2>4, EndTurn
<1>11. CASE workerLoop(t) /\ shutdown
  <2>1. Top(t).at = "loop" /\ Replaces(t, "gone")
    BY <1>3, <1>11, PlainFlow DEF workerLoop, Plain, Labels, JobLabels
  <2>2. t \notin Clients
    BY <1>0, <2>1, IsWorker
  <2>3. UNCHANGED <<queue, shutdown, queues>>
    BY <1>11 DEF workerLoop, StackOnly, queueVars
  <2>4. Turns(t, "gone", "gone")
    BY <2>1, TurnReplace DEF Bases, WorkerLabels
  <2>5. QED
    BY <1>11, <2>2, <2>3, <2>4, EndTurn
<1>12. CASE parentEnd(t)
  <2>1. Top(t).at = "parentWorked" /\ Pops(t)
    BY <1>12, ParentFlows
  <2>2. Top(t).at \notin Bases /\ Top(t).at # "mine"
    BY <2>1 DEF Bases, ClientLabels, WorkerLabels
  <2>3. PICK m \in Calling : Turns(t, Base(t), m) /\ m # "unpublishMine"
    BY <2>1, <2>2, TurnPop
  <2>4. /\ \A u \in Threads \ {t} : Base(u)' = Base(u) /\ \A l : At(u, l)' <=> At(u, l)
        /\ \A l : At(t, l)' <=> l = m
        /\ Base(t)' = Base(t)
    BY <2>3, TurnOthers
  <2>5. m # "gone" /\ ~At(t, "gone")
    BY <1>3, <2>1 DEF Calling
  <2>6. /\ \A u \in Threads : Base(u)' = Base(u) /\ (At(u, "gone")' <=> At(u, "gone"))
        /\ \A u \in Threads : At(u, "unpublishMine")' => At(u, "unpublishMine")
    BY <2>3, <2>4, <2>5
  <2>7. UNCHANGED <<queue, queues>> /\ (shutdown => shutdown')
    BY <1>12 DEF parentEnd, queueVars, PoolType
  <2>8. LastClient'
    BY <1>0, <2>6 DEF EndInv, LastClient
  <2>9. ShutOK'
    <3>1. SUFFICES ASSUME shutdown'
                   PROVE  \A c \in Clients : Base(c)' # "client"
      BY DEF ShutOK
    <3>2. CASE shutdown
      BY <1>0, <2>6, <3>2 DEF EndInv, ShutOK
    <3>3. CASE ~shutdown
      <4>1. PICK u \in Clients : At(u, "destroyed")
        BY <1>12, <3>1, <3>3 DEF parentEnd
      <4>2. Base(u) = "destroyed" /\ \A c \in Clients \ {u} : At(c, "gone")
        BY <1>0, <1>1, <4>1 DEF EndInv, LastClient, Bases, ClientLabels
      <4>3. \A c \in Clients : Base(c) \in {"destroyed", "gone"}
        BY <1>0, <1>1, <4>2 DEF Bases, ClientLabels
      <4>4. QED
        BY <1>0, <2>6, <4>3
    <3>4. QED
      BY <3>2, <3>3
  <2>10. WithdrawnEmpty'
    BY <2>7 DEF EndInv, WithdrawnEmpty
  <2>11. WithdrawingEmpty'
    BY <2>6, <2>7 DEF EndInv, WithdrawingEmpty
  <2>12. WorkersLast'
    BY <1>0, <2>6, <2>7 DEF EndInv, WorkersLast
  <2>13. NoOrphanedJobs'
    BY <2>6, <2>7 DEF EndInv, NoOrphanedJobs
  <2>14. QED
    BY <2>8, <2>9, <2>10, <2>11, <2>12, <2>13 DEF EndInv
<1>13. QED
  BY <1>5, <1>6, <1>7, <1>8, <1>9, <1>10, <1>11, <1>12 DEF Ending

-----------------------------------------------------------------------------
(* The invariant is inductive.                                             *)

\* The pool starts in the invariant.
LEMMA InitInv == Init => IInv
<1> SUFFICES ASSUME Init PROVE IInv
  OBVIOUS
<1>0. /\ \A t \in Clients : t \in Threads
      /\ \A t \in Workers : t \in Threads /\ t \notin Clients
      /\ maxParentJobs \in Nat /\ QueueSize \in Nat /\ Creator \in Threads
  BY ThreadPoolAssumption DEF Threads
<1> DEFINE first(t) == IF t \in Clients THEN "client" ELSE IF HasParent THEN "parent" ELSE "start"
<1>1. \A t \in Threads : first(t) \in {"client", "parent", "start"} /\ first(t) \in BaseOf(t)
  BY DEF BaseOf, ClientLabels, WorkerLabels
<1>2. \A l \in {"client", "parent", "start"} : /\ l \in Labels /\ l \notin JobLabels /\ l \in Bases
                                               /\ l \notin Owning /\ l \notin ParentLabels
                                               /\ l \notin {"look", "scan", "claim", "stole"}
  BY DEF Labels, JobLabels, Bases, ClientLabels, WorkerLabels, Owning, Adding, ParentLabels
<1>3. \A t \in Threads : Frame(first(t)) \in Frames /\ Frame(first(t)).at = first(t)
  BY <1>1, <1>2, FrameFacts
<1>4. \A t \in Threads : stack[t] = <<Frame(first(t))>>
  BY DEF Init
<1> HIDE DEF first
<1>5. \A t \in Threads : /\ Len(stack[t]) = 1 /\ stack[t][1] = Frame(first(t))
                         /\ stack[t] \in Seq(Frames)
                         /\ \A k \in 1..Len(stack[t]) : k = 1
  <2>1. \A f \in Frames : /\ Len(<<f>>) = 1 /\ <<f>>[1] = f /\ <<f>> \in Seq(Frames)
                          /\ \A k \in 1..1 : k = 1
    OBVIOUS
  <2>2. QED
    BY <1>3, <1>4, <2>1
<1>6. \A t \in Threads : \A k \in 1..Len(stack[t]) :
          stack[t][k].at \in {"client", "parent", "start"} /\ stack[t][k].at \in BaseOf(t)
  BY <1>1, <1>3, <1>5
<1>7. \A t \in Threads : \A l : At(t, l) => l \in {"client", "parent", "start"}
  BY <1>5, <1>6 DEF At, Top
<1>8. PoolType
  <2>1. /\ queue \in [Threads -> Seq(Jobs)]
        /\ \A t \in Threads : Len(queue[t]) <= QueueSize
    BY <1>0 DEF Init
  <2>2. stack \in [Threads -> Seq(Frames)]
    BY <1>5 DEF Init
  <2>3. /\ submitted \in Nat /\ finished \in Nat /\ hasExc \in Nat
        /\ exc \in Jobs \cup {NoJob}
        /\ parentQueue \in Nat /\ parentJobs \in Int /\ strong \in Int /\ threadsSleeping \in Int
    BY DEF Init
  <2>4. shutdown \in BOOLEAN /\ queues \in SUBSET Threads
    BY <1>0 DEF Init
  <2>5. /\ known \in [Threads -> SUBSET Threads]
        /\ result \in [Threads -> BOOLEAN]
        /\ job \in [Jobs -> {"new", "adding", "queued", "running", "done", "threw"}]
    BY DEF Init
  <2>6. QED
    BY <2>1, <2>2, <2>3, <2>4, <2>5 DEF PoolType
<1>9. FrameInv
  BY <1>2, <1>6 DEF FrameInv, FrameOK, JobLabels
<1>10. ShapeInv
  <2>1. ASSUME NEW t \in Threads
        PROVE  ShapeOK(t, stack[t])
    BY <1>5, <1>6 DEF ShapeOK
  <2>2. QED
    BY <2>1 DEF ShapeInv
<1>11. \A t \in Threads : \A k, j : \A l \in Owning : ~Held(t, k, l, j)
  BY <1>2, <1>6 DEF Held
<1>12. /\ \A j \in Jobs : job[j] = "new"
       /\ \A t \in Threads : queue[t] = <<>>
  BY DEF Init
<1>13. \A l \in {"submit", "push", "body", "finish", "hasExc", "exc"} : l \in Owning
  BY DEF Owning, Adding
<1>14. OwnerInv
  BY <1>11, <1>12, <1>13 DEF OwnerInv, OwnerOK
<1>15. QueueInv
  <2>1. \A t \in Threads : Range(queue[t]) = {} /\ IsInjective(queue[t])
    BY <1>12, EmptyRange DEF IsInjective
  <2>2. QED
    BY <1>12, <2>1 DEF QueueInv
<1>16. SpawnInv
  <2>1. \A p \in Jobs : Spawns[p] \subseteq Jobs
    BY ThreadPoolAssumption
  <2>2. QED
    BY <1>11, <1>12, <1>13, <2>1 DEF SpawnInv
<1>17. ThrowInv
  BY <1>11, <1>12, <1>13 DEF ThrowInv, FirstInv, Init
<1>18. FlightInv
  <2>1. InFlight = {}
    <3>1. \A t \in Threads : DOMAIN stack[t] = 1..Len(stack[t])
      BY <1>5, LenProperties
    <3>2. QED
      BY <1>6, <1>12, <3>1 DEF InFlight
  <2>2. QED
    BY <2>1, FS_EmptySet DEF FlightInv, Init
<1>19. SleepInv
  <2>1. Sleepers = {}
    BY <1>0, <1>7 DEF Sleepers, SleepLabels
  <2>2. QED
    BY <2>1, FS_EmptySet DEF SleepInv, Init
<1>20. ParentRuns = {}
  <2>1. \A t \in Threads : ParentFrames(t) = {}
    BY <1>2, <1>6 DEF ParentFrames
  <2>2. \A p \in Threads \X Nat : p[1] \in Threads
    OBVIOUS
  <2>3. QED
    BY <2>1, <2>2 DEF ParentRuns
<1>21. ParentInv
  <2>1. ToAdd = {} /\ ToUndo = {}
    BY <1>7 DEF ToAdd, ToUndo
  <2>2. IsFiniteSet({}) /\ Cardinality({}) = 0
    BY FS_EmptySet
  <2>3. parentQueue = 0 /\ parentJobs = 0 /\ strong = 0
    BY DEF Init
  <2>4. QED
    BY <1>0, <1>20, <2>1, <2>2, <2>3 DEF ParentInv
<1>22. EndInv
  <2>1. LastClient
    BY <1>0, <1>5, <1>6 DEF LastClient, Base
  <2>2. ShutOK /\ WithdrawnEmpty /\ WithdrawingEmpty /\ NoOrphanedJobs
    BY <1>12 DEF Init, ShutOK, WithdrawnEmpty, WithdrawingEmpty, NoOrphanedJobs
  <2>3. WorkersLast
    BY <1>0, <1>7 DEF WorkersLast
  <2>4. QED
    BY <2>1, <2>2, <2>3 DEF EndInv
<1>23. QED
  BY <1>8, <1>9, <1>10, <1>14, <1>15, <1>16, <1>17, <1>18, <1>19, <1>21, <1>22 DEF IInv

\* Every step stays in the invariant.
LEMMA NextInv == IInv /\ [Next]_vars => IInv'
<1>1. ASSUME IInv, NEW t \in Threads, ClientCalls(t) \/ Steps(t)
      PROVE  IInv'
  <2>1. /\ PoolType /\ FrameInv /\ ShapeInv /\ OwnerInv /\ QueueInv /\ SpawnInv
        /\ ThrowInv /\ FlightInv /\ SleepInv /\ ParentInv /\ EndInv
    BY <1>1 DEF IInv
  <2>2. StructOK' /\ FrameInv' /\ ShapeInv'
    BY <1>1, <2>1, StructStep DEF StructOK
  <2>3. PoolType'
    BY <1>1, <2>1, TypeStep
  <2>4. Idle \/ \E j \in Jobs : JobMoves(t, j)
    BY <1>1, <2>1, JobStep
  <2>5. OwnerInv'
    BY <2>1, <2>3, <2>4, OwnerStep
  <2>6. QueueInv'
    BY <2>1, <2>4, QueueStep
  <2>7. SpawnInv'
    BY <2>1, <2>3, <2>4, SpawnStep
  <2>8. ThrowInv'
    BY <2>1, <2>3, <2>4, ThrowStep
  <2>9. FlightInv'
    BY <2>1, <2>3, <2>4, FlightStep
  <2>10. SleepInv'
    BY <1>1, <2>1, <2>3, SleepStep
  <2>11. ParentInv'
    BY <1>1, <2>1, <2>3, ParentStep
  <2>12. EndInv'
    BY <1>1, <2>1, <2>3, EndStep
  <2>13. QED
    BY <2>2, <2>3, <2>5, <2>6, <2>7, <2>8, <2>9, <2>10, <2>11, <2>12 DEF IInv
<1>2. ASSUME IInv, UNCHANGED vars
      PROVE  IInv'
  <2>0. /\ UNCHANGED <<submitted, finished, hasExc, exc, shutdown, threadsSleeping, parentJobs,
                       parentQueue, strong, queue, queues, known, stack, result, job>>
        /\ PoolType /\ FrameInv /\ ShapeInv /\ OwnerInv /\ QueueInv /\ SpawnInv
        /\ ThrowInv /\ FlightInv /\ SleepInv /\ ParentInv /\ EndInv
    BY <1>2 DEF IInv, vars, counters, excVars, parentVars, queueVars
  <2>1. PoolType' /\ FrameInv' /\ ShapeInv'
    BY <2>0 DEF PoolType, FrameInv, ShapeInv
  <2>2. OwnerInv' /\ SpawnInv' /\ ThrowInv'
    BY <2>0 DEF OwnerInv, OwnerOK, SpawnInv, ThrowInv, FirstInv, Held
  <2>3. QueueInv'
    BY <2>0 DEF QueueInv
  <2>4. FlightInv'
    BY <2>0 DEF FlightInv, InFlight
  <2>5. SleepInv'
    BY <2>0 DEF SleepInv, Sleepers, At, Top
  <2>6. ParentInv'
    BY <2>0 DEF ParentInv, ToAdd, ToUndo, ParentRuns, ParentFrames, At, Top
  <2>7. EndInv'
    BY <2>0 DEF EndInv, LastClient, ShutOK, WithdrawnEmpty, WithdrawingEmpty, WorkersLast,
       NoOrphanedJobs, Base, At, Top
  <2>8. QED
    BY <2>1, <2>2, <2>3, <2>4, <2>5, <2>6, <2>7 DEF IInv
<1>3. QED
  BY <1>1, <1>2 DEF Next

\* Every reachable state of the pool is in the invariant.
THEOREM PoolInvariant == Spec => []IInv
<1>1. QED
  BY InitInv, NextInv, PTL DEF Spec


-----------------------------------------------------------------------------
(* What the invariant says of the pool.                                    *)

\* The counters are counts: in particular neither parentJobs nor
\* threadsSleeping becomes negative, and no more workers sleep than there are
\* (base/thread_pool.cc:321-335, 545-561).
THEOREM TypeCorrect ==
    ASSUME IsFiniteSet(Workers)
    PROVE  Spec => []TypeOK
<1>1. IInv => TypeOK
  <2> SUFFICES ASSUME IInv PROVE TypeOK
    OBVIOUS
  <2>1. PoolType /\ FrameInv /\ ShapeInv /\ SleepInv /\ ParentInv
    BY DEF IInv
  <2>2. threadsSleeping \in 0..Cardinality(Workers)
    <3>1. Sleepers \subseteq Workers
      BY DEF Sleepers
    <3>2. Cardinality(Sleepers) <= Cardinality(Workers) /\ Cardinality(Sleepers) \in Nat
      BY <2>1, <3>1, FS_Subset, FS_CardinalityType DEF SleepInv
    <3>3. Cardinality(Workers) \in Nat
      BY FS_CardinalityType
    <3>4. QED
      BY <2>1, <3>2, <3>3 DEF SleepInv
  <2>3. parentJobs \in Nat /\ strong \in Nat
    <3>1. /\ Cardinality(ToAdd) \in Nat /\ Cardinality(ToUndo) \in Nat
          /\ Cardinality(ParentRuns) \in Nat
      BY <2>1, FS_CardinalityType DEF ParentInv
    <3>2. QED
      BY <2>1, <3>1 DEF PoolType, ParentInv
  <2>4. ASSUME NEW t \in Threads
        PROVE  /\ \A k \in DOMAIN queue[t] : queue[t][k] \in Jobs
               /\ Len(queue[t]) <= QueueSize
               /\ known[t] \subseteq Threads
               /\ FramesAt(t, Labels) = DOMAIN stack[t]
    <3>1. queue[t] \in Seq(Jobs) /\ stack[t] \in Seq(Frames)
      BY <2>1 DEF PoolType
    <3>2. DOMAIN queue[t] = 1..Len(queue[t]) /\ DOMAIN stack[t] = 1..Len(stack[t])
      BY <3>1, LenProperties
    <3>3. /\ \A k \in 1..Len(queue[t]) : queue[t][k] \in Jobs
          /\ \A k \in 1..Len(stack[t]) : stack[t][k] \in Frames
      BY <3>1, ElementOfSeq
    <3>4. \A f \in Frames : f.at \in Labels
      BY DEF Frames
    <3>5. FramesAt(t, Labels) = DOMAIN stack[t]
      BY <3>2, <3>3, <3>4 DEF FramesAt
    <3>6. QED
      BY <2>1, <3>2, <3>3, <3>5 DEF PoolType
  <2>5. QED
    BY <2>1, <2>2, <2>3, <2>4 DEF PoolType, TypeOK
<1>2. QED
  BY <1>1, PoolInvariant, PTL

\* A set whose elements are all equal.
LEMMA AtMostOne ==
    ASSUME NEW Q, \A x, y \in Q : x = y
    PROVE  Cardinality(Q) = IF Q = {} THEN 0 ELSE 1
<1>1. CASE Q = {}
  BY <1>1, FS_EmptySet
<1>2. CASE Q # {}
  <2>1. PICK x : Q = {x}
    BY <1>2
  <2>2. QED
    BY <1>2, <2>1, FS_Singleton
<1>3. QED
  BY <1>1, <1>2

\* No job is run twice or dropped: runMine, stealWork, which claims what it
\* has seen in another thread's queue, and the overflow of add hand every job
\* to exactly one frame (base/thread_pool.cc:310-447).
THEOREM JobInOnePlaceCorrect == Spec => []JobInOnePlace
<1>1. IInv => JobInOnePlace
  <2> SUFFICES ASSUME IInv, NEW j \in Jobs
               PROVE  LET queued  == UNION {{<<t, k>> : k \in {i \in DOMAIN queue[t] :
                                                queue[t][i] = j}} : t \in Threads}
                          held(ls) == UNION {{<<t, k>> : k \in {i \in FramesAt(t, ls) :
                                                 stack[t][i].job = j}} : t \in Threads}
                      IN  /\ Cardinality(queued) = IF job[j] = "queued" THEN 1 ELSE 0
                          /\ Cardinality(held({"body"})) = IF job[j] = "running" THEN 1 ELSE 0
                          /\ Cardinality(held({"submit", "push"})) =
                                IF job[j] = "adding" THEN 1 ELSE 0
    BY DEF JobInOnePlace
  <2> DEFINE queued  == UNION {{<<t, k>> : k \in {i \in DOMAIN queue[t] :
                                   queue[t][i] = j}} : t \in Threads}
             held(ls) == UNION {{<<t, k>> : k \in {i \in FramesAt(t, ls) :
                                    stack[t][i].job = j}} : t \in Threads}
  <2>1. PoolType /\ QueueInv /\ OwnerOK(j)
    BY DEF IInv, OwnerInv
  <2>2. Cardinality(queued) = IF job[j] = "queued" THEN 1 ELSE 0
    <3>1. ASSUME NEW t \in Threads, NEW u \in Threads, NEW k \in DOMAIN queue[t],
                 NEW m \in DOMAIN queue[u], queue[t][k] = j, queue[u][m] = j
          PROVE  t = u /\ k = m
      <4>1. j \in Range(queue[t]) /\ j \in Range(queue[u])
        BY <3>1 DEF Range
      <4>2. t = u
        BY <2>1, <4>1 DEF QueueInv
      <4>3. QED
        BY <2>1, <3>1, <4>2 DEF QueueInv, IsInjective
    <3>2. \A x : x \in queued <=> \E t \in Threads : \E k \in DOMAIN queue[t] :
                                      queue[t][k] = j /\ x = <<t, k>>
      OBVIOUS
    <3> HIDE DEF queued
    <3>3. \A x, y \in queued : x = y
      BY <3>1, <3>2
    <3>4. queued # {} <=> \E t \in Threads : \E k \in DOMAIN queue[t] : queue[t][k] = j
      BY <3>2
    <3>5. queued # {} <=> job[j] = "queued"
      BY <2>1, <3>4 DEF QueueInv, Range
    <3>6. QED
      BY <3>3, <3>5, AtMostOne
  <2>3. ASSUME NEW ls, ls \subseteq Owning, NEW c,
               c <=> \E t \in Threads : \E k \in 1..Len(stack[t]) : \E l \in ls : Held(t, k, l, j)
        PROVE  Cardinality(held(ls)) = IF c THEN 1 ELSE 0
    <3>1. \A t \in Threads : DOMAIN stack[t] = 1..Len(stack[t])
      BY <2>1, LenProperties DEF PoolType
    <3>2. \A t \in Threads : \A k : k \in FramesAt(t, ls) /\ stack[t][k].job = j <=>
              k \in 1..Len(stack[t]) /\ \E l \in ls : Held(t, k, l, j)
      BY <3>1 DEF FramesAt, Held
    <3>3. \A x : x \in held(ls) <=> \E t \in Threads : \E k \in FramesAt(t, ls) :
                                        stack[t][k].job = j /\ x = <<t, k>>
      OBVIOUS
    <3> DEFINE H == held(ls)
    <3>4. \A x : x \in H <=> \E t \in Threads : \E k \in 1..Len(stack[t]) :
                                 (\E l \in ls : Held(t, k, l, j)) /\ x = <<t, k>>
      BY <3>2, <3>3
    <3> HIDE DEF H
    <3>5. \A x, y \in H : x = y
      <4>1. \A t, u \in Threads : \A k \in 1..Len(stack[t]), m \in 1..Len(stack[u]) :
              \A a, b \in ls : Held(t, k, a, j) /\ Held(u, m, b, j) => t = u /\ k = m
        BY <2>1, <2>3 DEF OwnerOK
      <4>2. QED
        BY <3>4, <4>1
    <3>6. H # {} <=> c
      BY <2>3, <3>4
    <3>7. Cardinality(H) = IF c THEN 1 ELSE 0
      BY <3>5, <3>6, AtMostOne
    <3>8. QED
      BY <3>7 DEF H
  <2>4. Cardinality(held({"body"})) = IF job[j] = "running" THEN 1 ELSE 0
    <3>1. {"body"} \subseteq Owning
      BY DEF Owning
    <3>2. job[j] = "running" <=> \E t \in Threads : \E k \in 1..Len(stack[t]) :
                                     \E l \in {"body"} : Held(t, k, l, j)
      BY <2>1 DEF OwnerOK
    <3> HIDE DEF held
    <3>3. QED
      BY <2>3, <3>1, <3>2
  <2>5. Cardinality(held({"submit", "push"})) = IF job[j] = "adding" THEN 1 ELSE 0
    <3>1. {"submit", "push"} \subseteq Owning
      BY DEF Owning, Adding
    <3>2. job[j] = "adding" <=> \E t \in Threads : \E k \in 1..Len(stack[t]) :
                                    \E l \in {"submit", "push"} : Held(t, k, l, j)
      BY <2>1 DEF OwnerOK
    <3> HIDE DEF held
    <3>3. QED
      BY <2>3, <3>1, <3>2
  <2>6. QED
    BY <2>2, <2>4, <2>5
<1>2. QED
  BY <1>1, PoolInvariant, PTL


\* The two counters that waitForAll compares are exact: their difference is
\* the number of jobs submitted and not yet counted as ended, and the count of
\* sleepers that add trusts before it notifies anyone is that of the workers
\* on their way to sleep, asleep or woken
\* (base/thread_pool.cc:187-193, 312, 353, 454-456).
THEOREM CountersExactCorrect == Spec => []CountersExact
<1>1. IInv => CountersExact
  BY DEF IInv, FlightInv, SleepInv, Sleepers, SleepLabels, CountersExact
<1>2. QED
  BY <1>1, PoolInvariant, PTL

\* Whichever of several jobs that throw comes first, and whatever the threads
\* do between the steps of handleException, an exception is kept or a thread
\* is on its way to keep one, and one thread at most assigns it, once
\* (base/thread_pool.cc:177-178, 456-477).
THEOREM ThrowRecordedCorrect == Spec => []ThrowRecorded
<1>1. IInv => ThrowRecorded
  <2> SUFFICES ASSUME IInv PROVE ThrowRecorded
    OBVIOUS
  <2>1. PoolType /\ FrameInv /\ ShapeInv /\ ThrowInv /\ FirstInv /\ OwnerInv
    BY DEF IInv, ThrowInv
  \* These labels call nobody, so their frames are innermost.
  <2>2. ASSUME NEW t \in Threads, NEW k \in 1..Len(stack[t]), NEW l \in {"finish", "hasExc", "exc"},
               NEW j, Held(t, k, l, j)
        PROVE  At(t, l) /\ Top(t).job = j
    <3>1. Len(stack[t]) \in Nat /\ Top(t) = stack[t][Len(stack[t])] /\ ShapeOK(t, stack[t])
      BY <2>1, TopFrame DEF ShapeInv
    <3>2. k \notin 1..(Len(stack[t]) - 1)
      BY <2>2, <3>1 DEF ShapeOK, Held, Calling
    <3>3. k = Len(stack[t])
      BY <3>1, <3>2
    <3>4. QED
      BY <2>1, <2>2, <3>1, <3>3, TopFrame DEF Held
  <2>3. ASSUME NEW j \in Jobs, job[j] = "threw", ~(hasExc > 0)
        PROVE  \E t \in Threads : (At(t, "finish") \/ At(t, "hasExc")) /\ Top(t).job = j
    <3>1. hasExc = 0
      BY <2>1, <2>3 DEF PoolType
    <3>2. QED
      BY <2>1, <2>2, <2>3, <3>1 DEF ThrowInv
  <2>4. hasExc > 0 /\ exc = NoJob => \E t \in Threads : At(t, "exc")
    BY <2>1, <2>2 DEF ThrowInv
  <2>5. ASSUME NEW t \in Threads, At(t, "exc")
        PROVE  Top(t).job \in Jobs /\ Len(stack[t]) \in Nat /\ Held(t, Len(stack[t]), "exc", Top(t).job)
    BY <2>1, <2>5, TopFrame DEF FrameInv, FrameOK, Held, JobLabels, At, Top
  <2>6. ASSUME NEW t \in Threads, NEW u \in Threads, At(t, "exc"), At(u, "exc")
        PROVE  hasExc > 0 /\ exc = NoJob /\ u = t
    <3>1. hasExc > 0 /\ exc = NoJob /\ Top(t).job = Top(u).job
      BY <2>1, <2>5, <2>6 DEF FirstInv
    <3>2. u = t
      BY <2>1, <2>5, <2>6, <3>1, HeldJob DEF OwnerInv, Owning
    <3>3. QED
      BY <3>1, <3>2
  <2>7. QED
    BY <2>3, <2>4, <2>6 DEF ThrowRecorded
<1>2. QED
  BY <1>1, PoolInvariant, PTL

\* However many threads add at once, and although each raises parentJobs
\* before it looks at the limit, a child pool never has more parent jobs
\* queued or running than maxParentJobs (base/thread_pool.cc:321-335).
THEOREM OccupancyRespectedCorrect == Spec => []OccupancyRespected
<1>1. IInv => OccupancyRespected
  <2> SUFFICES ASSUME IInv
               PROVE  parentQueue + strong <= maxParentJobs
    BY DEF OccupancyRespected
  <2>1. PoolType /\ ParentInv
    BY DEF IInv
  <2>2. Cardinality(ToAdd) \in Nat /\ Cardinality(ParentRuns) \in Nat
    BY <2>1, FS_CardinalityType DEF ParentInv
  <2>3. QED
    BY <2>1, <2>2, ThreadPoolAssumption DEF PoolType, ParentInv
<1>2. QED
  BY <1>1, PoolInvariant, PTL

\* unpublishThread leaves no job behind in the queue it withdraws: what the
\* thread's last runMine did not find nobody can have added since
\* (base/thread_pool.cc:616-618).
THEOREM NoOrphanedJobsCorrect == Spec => []NoOrphanedJobs
<1>1. IInv => NoOrphanedJobs
  BY DEF IInv, EndInv
<1>2. QED
  BY <1>1, PoolInvariant, PTL

=============================================================================
