-------------------------- MODULE SubmissionProofs --------------------------
(***************************************************************************)
(* Whatever servers, connections and elections do to a call, the requests  *)
(* see the submission that Requests describes.  So the theorems about      *)
(* Requests hold of the agents with their servers.                         *)
(***************************************************************************)
EXTENDS Submission, RequestsProofs, FiniteSetTheorems

(***************************************************************************)
(* Typed is SubmissionTypeOK without what no proof needs.  Known(r): the   *)
(* log and the frames of a call agree on whether its task is admitted.     *)
(* Once(r): a task is admitted and registered at most once.                *)
(***************************************************************************)
OpenStage == {"received", "applying"}

Chained(r) ==
    \A i \in DOMAIN frames[r] :
        /\ i < Len(frames[r]) => At(r, i) \in Replied \cup {"waiting"}
        /\ i = Len(frames[r]) => At(r, i) # "waiting"

Known(r) ==
    \A i \in DOMAIN frames[r] :
        /\ At(r, i) \in OpenStage => Commands(r) = {}
        /\ At(r, i) \in {"committed", "accepted"} => Commands(r) # {}

Unregistered(r) == \A s \in Server : listeners[s][r] = NoListener

Once(r) ==
    /\ \A i, j \in Admissions(r) : i = j
    /\ \A s \in Server :
          /\ listeners[s][r].sent \in 0 .. 1
          /\ listeners[s][r].registered => listeners[s][r].sent = 0
    /\ \A i \in DOMAIN frames[r] :
          At(r, i) \in OpenStage \cup {"committed"} => Unregistered(r)

Sound(r) == frames[r] \in Seq(Hop) /\ Chained(r) /\ Known(r) /\ Once(r)

CallsTyped ==
    /\ TypeOK
    /\ frames \in [Request -> Seq(Hop)]
    /\ listeners \in [Server -> [Request -> Listener]]
    /\ believed \in [Server -> Server \cup {Nobody}]
    /\ leader \in Server

CInv == CallsTyped /\ \A r \in Request : Sound(r)
-----------------------------------------------------------------------------
LEMMA SubmissionInitSound == SubmissionInit => CInv
  <1> SUFFICES ASSUME SubmissionInit
               PROVE  CInv
    OBVIOUS
  <1>1. TypeOK
    BY InitTypeOK DEF SubmissionInit
  <1>2. Received(Home) \in Hop /\ Received(Home).at = "received"
    BY SubmissionAssumption DEF Received, Hop, Stage
  <1>3. NoListener \in Listener /\ NoListener.sent = 0 /\ ~NoListener.registered
    BY DEF NoListener, Listener
  <1>4. CallsTyped
    <2>1. frames \in [Request -> Seq(Hop)]
      BY <1>2 DEF SubmissionInit
    <2>2. listeners \in [Server -> [Request -> Listener]]
      BY <1>3 DEF SubmissionInit
    <2>3. believed \in [Server -> Server \cup {Nobody}]
      BY DEF SubmissionInit
    <2> QED
      BY <1>1, <2>1, <2>2, <2>3 DEF CallsTyped, SubmissionInit
  <1>5. ASSUME NEW r \in Request
        PROVE  Sound(r)
    <2>1. frames[r] = <<Received(Home)>> /\ Commands(r) = {}
      BY DEF SubmissionInit, Init, Commands
    <2>2. \A i \in DOMAIN frames[r] : i = 1 /\ At(r, i) = "received"
      BY <1>2, <2>1 DEF At
    <2>3. Admissions(r) = {}
      BY <2>1 DEF Admissions
    <2>4. \A s \in Server : listeners[s][r] = NoListener
      BY DEF SubmissionInit
    <2> QED
      BY <1>2, <1>3, <2>1, <2>2, <2>3, <2>4
         DEF Sound, Chained, Known, Once, Unregistered, OpenStage
  <1> QED
    BY <1>4, <1>5 DEF CInv

(***************************************************************************)
(* A step of one handler changes the stage of one hop.                     *)
(***************************************************************************)
LEMMA MoveTyped ==
    ASSUME CallsTyped, NEW r \in Request, NEW i \in Hops(r), NEW at \in Stage, Move(r, i, at)
    PROVE  /\ frames' \in [Request -> Seq(Hop)]
           /\ Len(frames'[r]) = Len(frames[r]) /\ DOMAIN frames'[r] = DOMAIN frames[r]
           /\ frames'[r][i].at = at
           /\ \A j \in DOMAIN frames[r] \ {i} : frames'[r][j] = frames[r][j]
           /\ \A q \in Request \ {r} : frames'[q] = frames[q]
  <1>1. frames[r] \in Seq(Hop)
    BY DEF CallsTyped
  <1>2. frames[r][i] \in Hop
    BY <1>1 DEF Hops
  <1>3. [frames[r][i] EXCEPT !.at = at] \in Hop
    BY <1>2 DEF Hop
  <1>4. [frames[r][i] EXCEPT !.at = at].at = at
    BY <1>2 DEF Hop
  <1> DEFINE f == [frames[r] EXCEPT ![i] = [frames[r][i] EXCEPT !.at = at]]
  <1>5. f \in Seq(Hop) /\ Len(f) = Len(frames[r]) /\ DOMAIN f = DOMAIN frames[r]
    BY <1>1, <1>3 DEF Hops
  <1>6. frames' = [frames EXCEPT ![r] = f]
    BY DEF Move
  <1>7. f[i] = [frames[r][i] EXCEPT !.at = at]
    BY <1>1 DEF Hops
  <1>8. \A j \in DOMAIN frames[r] \ {i} : f[j] = frames[r][j]
    BY <1>1
  <1> HIDE DEF f
  <1> QED
    BY <1>4, <1>5, <1>6, <1>7, <1>8 DEF CallsTyped

(***************************************************************************)
(* A call none of whose hops, listeners or commands change stays sound, as *)
(* it does when its task is updated.                                       *)
(***************************************************************************)
LEMMA OtherCall ==
    ASSUME NEW q \in Request, Sound(q),
           frames'[q] = frames[q],
           Commands(q)' = Commands(q) \/ (Commands(q) # {} /\ Commands(q)' # {}),
           Admissions(q)' = Admissions(q),
           \A s \in Server : listeners'[s][q] = listeners[s][q]
    PROVE  Sound(q)'
  <1>1. Chained(q)'
    BY DEF Sound, Chained, At
  <1>2. Known(q)'
    BY DEF Sound, Known, At, OpenStage
  <1>3. Once(q)'
    BY DEF Sound, Once, Unregistered, At
  <1> QED
    BY <1>1, <1>2, <1>3 DEF Sound

(* Appending a command to the log. *)
LEMMA AppendCommand ==
    ASSUME TypeOK, NEW c \in Command, log' = Append(log, c), NEW q \in Request
    PROVE  /\ c.task # q => Commands(q)' = Commands(q) /\ Admissions(q)' = Admissions(q)
           /\ c.task = q => Commands(q)' # {}
           /\ c.task = q /\ c.status # "admitted" => Admissions(q)' = Admissions(q)
           /\ c.task = q /\ c.status = "admitted"
                => Admissions(q)' = Admissions(q) \cup {Len(log) + 1}
  <1>1. log \in Seq(Command)
    BY DEF TypeOK
  <1>2. /\ Len(log') = Len(log) + 1 /\ Len(log) \in Nat
        /\ log'[Len(log) + 1] = c
        /\ \A i \in 1 .. Len(log) : log'[i] = log[i]
    BY <1>1
  <1>3. 1 .. Len(log') = (1 .. Len(log)) \cup {Len(log) + 1}
    BY <1>2
  <1> QED
    BY <1>2, <1>3 DEF Commands, Admissions
-----------------------------------------------------------------------------
(***************************************************************************)
(* One lemma per action: it maps to a step of Requests, and calls stay     *)
(* sound.  The actions that only move a hop come first.                    *)
(***************************************************************************)
Keeps == [Next]_vars /\ CInv'

(* What CInv' needs beyond the type invariant of Requests, which Next keeps. *)
LEMMA KeepsFrom ==
    ASSUME CInv, [Next]_vars,
           frames' \in [Request -> Seq(Hop)],
           listeners' \in [Server -> [Request -> Listener]],
           believed' \in [Server -> Server \cup {Nobody}], leader' \in Server,
           \A q \in Request : Sound(q)'
    PROVE  Keeps
  <1>1. TypeOK'
    BY StepTypeOK DEF CInv, CallsTyped
  <1> QED
    BY <1>1 DEF Keeps, CInv, CallsTyped

(***************************************************************************)
(* A hop that moves on without a commit, from a stage that is not past the *)
(* commit to one that is not, or to a reply.                               *)
(***************************************************************************)
LEMMA MoveKeeps ==
    ASSUME CInv, NEW r \in Request, NEW i \in Hops(r), NEW at \in Stage, Move(r, i, at),
           UNCHANGED <<vars, listeners, believed, leader>>,
           \/ at = "applying" /\ At(r, i) = "received"
           \/ at = "refused"
           \/ at = "accepted" /\ Commands(r) # {} /\ At(r, i) = "waiting"
    PROVE  Keeps
  <1>1. CallsTyped /\ \A q \in Request : Sound(q)
    BY DEF CInv
  <1>2. /\ frames' \in [Request -> Seq(Hop)]
        /\ Len(frames'[r]) = Len(frames[r]) /\ DOMAIN frames'[r] = DOMAIN frames[r]
        /\ frames'[r][i].at = at
        /\ \A j \in DOMAIN frames[r] \ {i} : frames'[r][j] = frames[r][j]
        /\ \A q \in Request \ {r} : frames'[q] = frames[q]
    BY <1>1, MoveTyped
  <1>3. \A q \in Request : Commands(q)' = Commands(q) /\ Admissions(q)' = Admissions(q)
    BY DEF vars, replicaVars, Commands, Admissions
  <1>4. ASSUME NEW q \in Request \ {r}
        PROVE  Sound(q)'
    BY <1>1, <1>2, <1>3, OtherCall
  <1>5. Sound(r)'
    <2>1. Sound(r)
      BY <1>1
    <2>2. i \in DOMAIN frames[r]
      BY DEF Hops
    <2>3. i < Len(frames[r]) => at \in Replied
      <3>1. i < Len(frames[r]) => At(r, i) \in Replied \cup {"waiting"}
        BY <2>1, <2>2 DEF Sound, Chained
      <3> QED
        BY <3>1 DEF Replied
    <2>4. Chained(r)'
      BY <1>2, <2>1, <2>2, <2>3 DEF Sound, Chained, At, Replied
    <2>5. Known(r)'
      BY <1>2, <1>3, <2>1, <2>2 DEF Sound, Known, At, OpenStage
    <2>6. Once(r)'
      BY <1>2, <1>3, <2>1, <2>2 DEF Sound, Once, At, OpenStage, Unregistered
    <2> QED
      BY <1>2, <2>4, <2>5, <2>6 DEF Sound
  <1> QED
    BY <1>1, <1>2, <1>4, <1>5, KeepsFrom DEF CallsTyped

LEMMA HopKeeps ==
    ASSUME CInv, NEW r \in Request, NEW i \in Hops(r),
           Process(r, i) \/ Relay(r, i) \/ ForwardFails(r, i) \/ ApplyFails(r, i)
    PROVE  Keeps
  <1>1. CASE Process(r, i)
    BY <1>1, MoveKeeps DEF Process, Stage, raftVars
  <1>2. CASE ForwardFails(r, i) \/ ApplyFails(r, i)
    BY <1>2, MoveKeeps DEF ForwardFails, ApplyFails, Stage, raftVars
  <1>3. CASE Relay(r, i)
    <2>1. Sound(r) /\ frames[r] \in Seq(Hop)
      BY DEF CInv, Sound
    <2>2. i \in DOMAIN frames[r] /\ At(r, i) = "waiting"
      BY <1>3 DEF Relay, Hops
    <2>3. i \in 1 .. Len(frames[r]) /\ i # Len(frames[r])
      BY <2>1, <2>2 DEF Sound, Chained
    <2>4. i + 1 \in DOMAIN frames[r]
      BY <2>1, <2>3
    <2>5. At(r, i + 1) = "accepted" => Commands(r) # {}
      BY <2>1, <2>4 DEF Sound, Known
    <2>6. At(r, i + 1) \in {"accepted", "refused"}
      BY <1>3 DEF Relay, Replied
    <2> QED
      BY <1>3, <2>2, <2>5, <2>6, MoveKeeps DEF Relay, Stage, raftVars
  <1> QED
    BY <1>1, <1>2, <1>3

LEMMA ForwardKeeps ==
    ASSUME CInv, NEW r \in Request, NEW i \in Hops(r), Forward(r, i)
    PROVE  Keeps
  <1> DEFINE f == [frames[r] EXCEPT ![i].at = "waiting"]
             b == Received(believed[ServerAt(r, i)])
  <1>1. Sound(r) /\ frames[r] \in Seq(Hop) /\ i \in DOMAIN frames[r]
    BY DEF CInv, Sound, Hops
  <1>2. At(r, i) = "received" /\ ServerAt(r, i) \in Server
    <2>1. frames[r][i] \in Hop
      BY <1>1
    <2> QED
      BY <2>1 DEF Forward, ServerAt, Hop
  <1>3. b \in Hop /\ b.at = "received"
    BY <1>2 DEF CInv, CallsTyped, Forward, Received, Hop, Stage
  <1>4. i = Len(frames[r])
    BY <1>1, <1>2 DEF Sound, Chained, Replied
  <1>5. /\ f \in Seq(Hop) /\ Len(f) = Len(frames[r]) /\ f[i].at = "waiting"
        /\ \A j \in DOMAIN frames[r] \ {i} : f[j] = frames[r][j]
    <2>1. frames[r][i] \in Hop
      BY <1>1
    <2>2. [frames[r][i] EXCEPT !.at = "waiting"] \in Hop
      BY <2>1 DEF Hop, Stage
    <2>3. [frames[r][i] EXCEPT !.at = "waiting"].at = "waiting"
      BY <2>1 DEF Hop
    <2> QED
      BY <1>1, <2>2, <2>3
  <1>6. frames' = [frames EXCEPT ![r] = Append(f, b)]
    BY DEF Forward
  <1> HIDE DEF f, b
  <1>7. /\ Append(f, b) \in Seq(Hop) /\ Len(Append(f, b)) = i + 1
        /\ Append(f, b)[i + 1] = b
        /\ \A j \in DOMAIN frames[r] : Append(f, b)[j] = f[j]
        /\ DOMAIN Append(f, b) = DOMAIN frames[r] \cup {i + 1}
    BY <1>1, <1>3, <1>4, <1>5
  <1>8. /\ frames'[r] = Append(f, b)
        /\ \A q \in Request \ {r} : frames'[q] = frames[q]
        /\ frames' \in [Request -> Seq(Hop)]
    BY <1>6, <1>7 DEF CInv, CallsTyped
  <1>9. \A q \in Request : Commands(q)' = Commands(q) /\ Admissions(q)' = Admissions(q)
    BY DEF Forward, vars, replicaVars, Commands, Admissions
  <1>10. UNCHANGED <<vars, listeners, believed, leader>>
    BY DEF Forward, raftVars
  <1>11. ASSUME NEW q \in Request \ {r}
         PROVE  Sound(q)'
    BY <1>8, <1>9, <1>10, OtherCall DEF CInv
  <1>12. Sound(r)'
    <2>1. /\ At(r, i + 1)' = "received" /\ At(r, i)' = "waiting"
          /\ \A j \in DOMAIN frames[r] \ {i} : At(r, j)' = At(r, j)
          /\ DOMAIN frames'[r] = DOMAIN frames[r] \cup {i + 1}
          /\ Len(frames'[r]) = i + 1
      BY <1>1, <1>3, <1>5, <1>7, <1>8 DEF At
    <2>2. \A j \in DOMAIN frames[r] : j < Len(frames[r]) \/ j = i
      BY <1>1, <1>4
    <2>3. Chained(r)'
      BY <1>1, <1>4, <2>1, <2>2 DEF Sound, Chained, Replied
    <2>4. Known(r)'
      BY <1>1, <1>2, <1>9, <2>1 DEF Sound, Known, OpenStage
    <2>5. Once(r)'
      BY <1>1, <1>2, <1>9, <1>10, <2>1 DEF Sound, Once, OpenStage, Unregistered
    <2> QED
      BY <1>7, <1>8, <2>3, <2>4, <2>5 DEF Sound
  <1> QED
    BY <1>8, <1>10, <1>11, <1>12, KeepsFrom DEF CInv, CallsTyped

LEMMA CommitKeeps ==
    ASSUME CInv, NEW r \in Request, NEW i \in Hops(r), CommitTask(r, i)
    PROVE  Keeps
  <1> DEFINE c == [task |-> r, status |-> "admitted"]
  <1>1. Sound(r) /\ frames[r] \in Seq(Hop) /\ i \in DOMAIN frames[r]
    BY DEF CInv, Sound, Hops
  <1>2. CallsTyped /\ Move(r, i, "committed") /\ "committed" \in Stage
    BY DEF CInv, CommitTask, Stage
  <1>3. /\ frames' \in [Request -> Seq(Hop)]
        /\ Len(frames'[r]) = Len(frames[r]) /\ DOMAIN frames'[r] = DOMAIN frames[r]
        /\ frames'[r][i].at = "committed"
        /\ \A j \in DOMAIN frames[r] \ {i} : frames'[r][j] = frames[r][j]
        /\ \A q \in Request \ {r} : frames'[q] = frames[q]
    BY <1>2, MoveTyped
  <1>4. At(r, i) = "applying" /\ i = Len(frames[r])
    BY <1>1 DEF CommitTask, Sound, Chained, Replied
  <1>5. Commands(r) = {}
    BY <1>1, <1>4 DEF Sound, Known, OpenStage
  <1>6. Admit(r) /\ UNCHANGED <<listeners, believed, leader>>
    BY <1>5 DEF CommitTask, Admit, raftVars
  <1>7. c \in Command /\ c.task = r /\ c.status = "admitted" /\ log' = Append(log, c)
    BY DEF Command, Active, CommitTask
  <1> HIDE DEF c
  <1>8. \A q \in Request \ {r} : Commands(q)' = Commands(q) /\ Admissions(q)' = Admissions(q)
    BY <1>2, <1>7, AppendCommand DEF CallsTyped
  <1>9. Commands(r)' # {} /\ Admissions(r)' = Admissions(r) \cup {Len(log) + 1}
    BY <1>2, <1>7, AppendCommand DEF CallsTyped
  <1>10. Admissions(r) = {}
    BY <1>5 DEF Admissions
  <1>11. ASSUME NEW q \in Request \ {r}
         PROVE  Sound(q)'
    BY <1>3, <1>6, <1>8, OtherCall DEF CInv
  <1>12. Sound(r)'
    <2>1. /\ At(r, i)' = "committed"
          /\ \A j \in DOMAIN frames[r] \ {i} : At(r, j)' = At(r, j) /\ j < Len(frames[r])
      BY <1>1, <1>3, <1>4 DEF At
    <2>2. \A j \in DOMAIN frames[r] \ {i} : At(r, j) \in Replied \cup {"waiting"}
      BY <1>1, <2>1 DEF Sound, Chained
    <2>3. Unregistered(r)
      BY <1>1, <1>4 DEF Sound, Once, OpenStage
    <2>4. Chained(r)'
      BY <1>1, <1>3, <1>4, <2>1, <2>2 DEF Sound, Chained
    <2>5. Known(r)'
      BY <1>3, <1>9, <2>1, <2>2 DEF Known, OpenStage, Replied
    <2>6. Once(r)'
      BY <1>1, <1>3, <1>6, <1>9, <1>10, <2>1, <2>2, <2>3
         DEF Sound, Once, OpenStage, Unregistered, Replied
    <2> QED
      BY <1>3, <2>4, <2>5, <2>6 DEF Sound
  <1>13. Next
    BY <1>6 DEF Next
  <1> QED
    BY <1>2, <1>3, <1>6, <1>11, <1>12, <1>13, KeepsFrom DEF CallsTyped
(***************************************************************************)
(* Registration follows the commit, a notification the registration.       *)
(***************************************************************************)
LEMMA RegisterKeeps ==
    ASSUME CInv, NEW r \in Request, NEW i \in Hops(r), RegisterTask(r, i)
    PROVE  Keeps
  <1> DEFINE s == ServerAt(r, i)
  <1>1. Sound(r) /\ frames[r] \in Seq(Hop) /\ i \in DOMAIN frames[r]
    BY DEF CInv, Sound, Hops
  <1>2. CallsTyped /\ Move(r, i, "accepted") /\ "accepted" \in Stage
    BY DEF CInv, RegisterTask, Stage
  <1>3. /\ frames' \in [Request -> Seq(Hop)]
        /\ Len(frames'[r]) = Len(frames[r]) /\ DOMAIN frames'[r] = DOMAIN frames[r]
        /\ frames'[r][i].at = "accepted"
        /\ \A j \in DOMAIN frames[r] \ {i} : frames'[r][j] = frames[r][j]
        /\ \A q \in Request \ {r} : frames'[q] = frames[q]
    BY <1>2, MoveTyped
  <1>4. At(r, i) = "committed" /\ i = Len(frames[r])
    BY <1>1 DEF RegisterTask, Sound, Chained, Replied
  <1>5. UNCHANGED <<vars, believed, leader>>
    BY DEF RegisterTask, raftVars
  <1>6. \A q \in Request : Commands(q)' = Commands(q) /\ Admissions(q)' = Admissions(q)
    BY <1>5 DEF vars, replicaVars, Commands, Admissions
  <1>7. /\ listeners' \in [Server -> [Request -> Listener]]
        /\ \A q \in Request \ {r}, a \in Server : listeners'[a][q] = listeners[a][q]
        /\ \A a \in Server : listeners'[a][r].sent = listeners[a][r].sent
    <2>1. s \in Server
      <3>1. frames[r][i] \in Hop
        BY <1>1
      <3> QED
        BY <3>1 DEF ServerAt, Hop
    <2>2. listeners' = [listeners EXCEPT ![s][r].registered = TRUE]
      BY DEF RegisterTask
    <2> DEFINE l == [listeners[s][r] EXCEPT !.registered = TRUE]
    <2>3. listeners[s][r] \in Listener
      BY <1>2, <2>1 DEF CallsTyped
    <2>4. l \in Listener /\ l.sent = listeners[s][r].sent
      BY <2>3 DEF Listener
    <2>5. listeners' = [listeners EXCEPT ![s] = [listeners[s] EXCEPT ![r] = l]]
      BY <2>2
    <2> HIDE DEF s, l
    <2> QED
      BY <1>2, <2>1, <2>4, <2>5 DEF CallsTyped
  <1>8. ASSUME NEW q \in Request \ {r}
        PROVE  Sound(q)'
    BY <1>3, <1>6, <1>7, OtherCall DEF CInv
  <1>9. Sound(r)'
    <2>1. /\ At(r, i)' = "accepted"
          /\ \A j \in DOMAIN frames[r] \ {i} : At(r, j)' = At(r, j) /\ j < Len(frames[r])
      BY <1>1, <1>3, <1>4 DEF At
    <2>2. \A j \in DOMAIN frames[r] \ {i} : At(r, j) \in Replied \cup {"waiting"}
      BY <1>1, <2>1 DEF Sound, Chained
    <2>3. \A a \in Server : listeners[a][r] = NoListener
      BY <1>1, <1>4 DEF Sound, Once, Unregistered
    <2>4. Chained(r)'
      BY <1>1, <1>3, <1>4, <2>1, <2>2 DEF Sound, Chained
    <2>5. Known(r)'
      BY <1>1, <1>3, <1>4, <1>6, <2>1, <2>2 DEF Sound, Known, OpenStage, Replied
    <2>6. \A a \in Server : listeners'[a][r].sent = 0
      BY <1>7, <2>3 DEF NoListener
    <2>7. Once(r)'
      BY <1>1, <1>3, <1>6, <2>1, <2>2, <2>6
         DEF Sound, Once, OpenStage, Replied
    <2> QED
      BY <1>3, <2>4, <2>5, <2>7 DEF Sound
  <1> QED
    BY <1>2, <1>3, <1>5, <1>7, <1>8, <1>9, KeepsFrom DEF CallsTyped

LEMMA NotifyKeeps ==
    ASSUME CInv, NEW s \in Server, NEW r \in Request, NotifyTaskCompletion(s, r)
    PROVE  Keeps
  <1>1. Sound(r) /\ CallsTyped /\ UNCHANGED <<vars, believed, leader, frames>>
    BY DEF CInv, NotifyTaskCompletion, raftVars
  <1>2. listeners \in [Server -> [Request -> [registered : BOOLEAN, sent : Nat]]]
    BY <1>1 DEF CallsTyped, Listener
  <1>3. \A q \in Request : Commands(q)' = Commands(q) /\ Admissions(q)' = Admissions(q)
    BY <1>1 DEF vars, replicaVars, Commands, Admissions
  <1>4. listeners[s][r].registered /\ listeners[s][r].sent = 0
    BY <1>1 DEF NotifyTaskCompletion, Sound, Once
  <1>5. listeners' = [listeners EXCEPT ![s][r] = [registered |-> FALSE, sent |-> 1]]
    BY <1>2, <1>4 DEF NotifyTaskCompletion
  <1>6. /\ listeners' \in [Server -> [Request -> Listener]]
        /\ listeners'[s][r] = [registered |-> FALSE, sent |-> 1]
        /\ \A a \in Server, q \in Request :
              a # s \/ q # r => listeners'[a][q] = listeners[a][q]
    BY <1>2, <1>5 DEF Listener
  <1>7. ASSUME NEW q \in Request \ {r}
        PROVE  Sound(q)'
    BY <1>1, <1>3, <1>6, OtherCall DEF CInv
  <1>8. Sound(r)'
    <2>1. ~Unregistered(r)
      BY <1>4 DEF Unregistered, NoListener
    <2>2. \A i \in DOMAIN frames[r] : At(r, i) \notin OpenStage \cup {"committed"}
      BY <1>1, <2>1 DEF Sound, Once
    <2>3. Once(r)'
      BY <1>1, <1>3, <1>6, <2>2 DEF Sound, Once, At
    <2> QED
      BY <1>1, <1>3, <2>3 DEF Sound, Chained, Known, At
  <1> QED
    BY <1>1, <1>6, <1>7, <1>8, KeepsFrom DEF CallsTyped

(***************************************************************************)
(* Steps of requests, of the replica and of elections leave the calls.     *)
(***************************************************************************)
LEMMA LeavesCalls ==
    ASSUME CInv, [Next]_vars, UNCHANGED <<frames, listeners>>,
           believed' \in [Server -> Server \cup {Nobody}], leader' \in Server,
           \A q \in Request :
              /\ Commands(q)' = Commands(q) \/ (Commands(q) # {} /\ Commands(q)' # {})
              /\ Admissions(q)' = Admissions(q)
    PROVE  Keeps
  <1>1. \A q \in Request : Sound(q)'
    BY OtherCall DEF CInv
  <1> QED
    BY <1>1, KeepsFrom DEF CInv, CallsTyped

LEMMA SameLog ==
    ASSUME CInv, [Next]_vars, UNCHANGED <<log, frames, listeners>>,
           believed' \in [Server -> Server \cup {Nobody}], leader' \in Server
    PROVE  Keeps
  <1>1. \A q \in Request : Commands(q)' = Commands(q) /\ Admissions(q)' = Admissions(q)
    BY DEF Commands, Admissions
  <1> QED
    BY <1>1, LeavesCalls

LEMMA ElsewhereKeeps ==
    ASSUME CInv, Elsewhere
    PROVE  Keeps
  <1>1. Next /\ UNCHANGED <<frames, listeners>> /\ UNCHANGED <<believed, leader>>
    BY DEF Elsewhere, Next, Handler, submissionVars, raftVars
  <1>2. believed' \in [Server -> Server \cup {Nobody}] /\ leader' \in Server
    BY <1>1 DEF CInv, CallsTyped
  <1>3. ASSUME NEW r \in Request, NEW s \in Ended \cup {"proposal"}, Update(r, s)
        PROVE  Keeps
    <2> DEFINE c == [task |-> r, status |-> s]
    <2>1. c \in Command /\ c.task = r /\ c.status # "admitted" /\ log' = Append(log, c)
      BY <1>3 DEF Command, Active, Ended, Update
    <2>2. Commands(r) # {}
      <3>1. Cardinality({}) = 0
        BY FS_EmptySet
      <3>2. Cardinality(Commands(r)) # 0
        BY <1>3, RequestsAssumption DEF Update
      <3> QED
        BY <3>1, <3>2
    <2> HIDE DEF c
    <2>3. TypeOK
      BY DEF CInv, CallsTyped
    <2>4. \A q \in Request :
             /\ Commands(q)' = Commands(q) \/ (Commands(q) # {} /\ Commands(q)' # {})
             /\ Admissions(q)' = Admissions(q)
      BY <2>1, <2>2, <2>3, AppendCommand
    <2> QED
      BY <1>1, <1>2, <2>4, LeavesCalls
  <1>4. ASSUME UNCHANGED log
        PROVE  Keeps
    BY <1>1, <1>2, <1>4, SameLog
  <1>5. (\E r \in Request, s \in Ended \cup {"proposal"} : Update(r, s)) \/ UNCHANGED log
    BY DEF Elsewhere, Subscribe, Receive, Cancel, Apply, InstallSnapshot, Restore, replicaVars
  <1> QED
    BY <1>3, <1>4, <1>5

LEMMA CallerKeeps ==
    ASSUME CInv, NEW r \in Request, CallReturns(r) \/ CallFails(r) \/ GivesUp(r)
    PROVE  Keeps
  <1>1. (SubmitReturns(r) \/ SubmitFails(r)) /\ UNCHANGED submissionVars
    BY DEF CallReturns, CallFails, GivesUp
  <1>2. Next /\ UNCHANGED log
    BY <1>1 DEF Next, Handler, SubmitReturns, SubmitFails, replicaVars
  <1>3. believed' \in [Server -> Server \cup {Nobody}] /\ leader' \in Server
    BY <1>1 DEF submissionVars, raftVars, CInv, CallsTyped
  <1> QED
    BY <1>1, <1>2, <1>3, SameLog DEF submissionVars

LEMMA ElectionKeeps ==
    ASSUME CInv, NEW s \in Server, Elect(s) \/ Learn(s)
    PROVE  Keeps
  <1>1. UNCHANGED <<vars, frames, listeners>>
    BY DEF Elect, Learn
  <1>2. believed' \in [Server -> Server \cup {Nobody}] /\ leader' \in Server
    BY DEF Elect, Learn, CInv, CallsTyped
  <1> QED
    BY <1>1, <1>2, SameLog DEF vars, replicaVars
LEMMA StepKeeps == CInv /\ [SubmissionNext]_allVars => Keeps
  <1> SUFFICES ASSUME CInv, [SubmissionNext]_allVars
               PROVE  Keeps
    OBVIOUS
  <1>1. CASE UNCHANGED allVars
    <2>1. believed' \in [Server -> Server \cup {Nobody}] /\ leader' \in Server
      BY <1>1 DEF allVars, submissionVars, raftVars, CInv, CallsTyped
    <2> QED
      BY <1>1, <2>1, SameLog DEF allVars, submissionVars, vars, replicaVars
  <1>2. ASSUME NEW r \in Request, NEW i \in Hops(r), Serve(r, i) \/ ForwardFails(r, i)
        PROVE  Keeps
    BY <1>2, HopKeeps, ForwardKeeps, CommitKeeps, RegisterKeeps DEF Serve
  <1>3. ASSUME NEW r \in Request, CallReturns(r) \/ CallFails(r) \/ GivesUp(r)
        PROVE  Keeps
    BY <1>3, CallerKeeps
  <1>4. ASSUME NEW r \in Request, NEW s \in Server, NotifyTaskCompletion(s, r)
        PROVE  Keeps
    BY <1>4, NotifyKeeps
  <1>5. ASSUME NEW s \in Server, Elect(s) \/ Learn(s)
        PROVE  Keeps
    BY <1>5, ElectionKeeps
  <1> QED
    BY <1>1, <1>2, <1>3, <1>4, <1>5, ElsewhereKeeps DEF SubmissionNext

LEMMA CallsInvariance == SubmissionSpec => []CInv
  <1>1. CInv /\ [SubmissionNext]_allVars => CInv'
    BY StepKeeps DEF Keeps
  <1> QED
    BY <1>1, SubmissionInitSound, PTL DEF SubmissionSpec

-----------------------------------------------------------------------------
(***************************************************************************)
(* The servers implement the submission of Requests: every behaviour of a  *)
(* call through any number of servers, whatever they believe, is one that  *)
(* Requests allows, which commits a task once and tells the caller of a    *)
(* success only when the task is in the log.                               *)
(***************************************************************************)
THEOREM SubmissionImplementsRequests == SubmissionSpec => ImplementsRequests
  <1>1. SubmissionInit => Init
    BY DEF SubmissionInit
  <1>2. CInv /\ [SubmissionNext]_allVars => [Next]_vars
    BY StepKeeps DEF Keeps
  <1> QED
    BY <1>1, <1>2, CallsInvariance, PTL DEF SubmissionSpec, ImplementsRequests, Spec

(***************************************************************************)
(* Broken connections and stale beliefs never admit a task twice.          *)
(***************************************************************************)
THEOREM AlwaysAdmittedOnce == SubmissionSpec => []AdmittedOnce
  <1>1. CInv => AdmittedOnce
    <2> SUFFICES ASSUME CInv, NEW r \in Request
                 PROVE  Cardinality(Admissions(r)) <= 1
      BY DEF AdmittedOnce
    <2>1. \A i, j \in Admissions(r) : i = j
      BY DEF CInv, Sound, Once
    <2>2. CASE Admissions(r) = {}
      BY <2>2, FS_EmptySet
    <2>3. CASE Admissions(r) # {}
      <3>1. PICK i \in Admissions(r) : Admissions(r) = {i}
        BY <2>1, <2>3
      <3>2. Cardinality({i}) = 1
        BY FS_Singleton
      <3> QED
        BY <3>1, <3>2
    <2> QED
      BY <2>2, <2>3
  <1> QED
    BY <1>1, CallsInvariance, PTL

(***************************************************************************)
(* No listener's channel is sent to again after it was closed.             *)
(***************************************************************************)
THEOREM ListenersAlwaysSentOnce == SubmissionSpec => []ListenersSentOnce
  <1>1. CInv => ListenersSentOnce
    BY DEF CInv, Sound, Once, ListenersSentOnce
  <1> QED
    BY <1>1, CallsInvariance, PTL

(***************************************************************************)
(* So the theorems about requests hold with the servers in the picture.    *)
(***************************************************************************)
THEOREM ServedRequestsMissNothing ==
    SubmissionSpec => [](SubscribersOpen /\ BlockedIsRegistered /\ BlockedIsUpToDate)
  <1> QED
    BY SubmissionImplementsRequests, SubscribersAlwaysOpen, BlockedAlwaysRegistered,
       BlockedAlwaysUpToDate, PTL DEF ImplementsRequests

-----------------------------------------------------------------------------
(***************************************************************************)
(* A server that passes a call on does so to the leader of a term; that    *)
(* one passes it on only if it has been deposed and has since learned of   *)
(* the leader of a later term.  So a call climbs through the terms, and    *)
(* has as many hops as there were terms, and one more, at most.  Which     *)
(* term a belief is from is not in the state: ages[s] is such a term.      *)
(***************************************************************************)
Follows(s) == believed[s] \notin {s, Nobody}
Last(r) == frames[r][Len(frames[r])].server

Ages(ages) ==
    /\ ages \in [Server -> Nat]
    /\ \A s \in Server :
          /\ ages[s] <= term
          /\ Follows(s) /\ ages[s] = term => believed[s] = leader
          /\ Follows(s) /\ Follows(believed[s]) => ages[s] < ages[believed[s]]

Climbs(ages, r) ==
    /\ frames[r] # <<>>
    /\ Len(frames[r]) <= term + (IF Last(r) = leader THEN 2 ELSE 1)
    /\ Follows(Last(r)) => Len(frames[r]) <= ages[Last(r)] + 1

Aged == \E ages \in [Server -> Nat] : Ages(ages) /\ \A r \in Request : Climbs(ages, r)

HopInv == CInv /\ term \in 0 .. MaxTerm /\ believed[leader] = leader /\ Aged

(* The last hop of a call is at a server. *)
LEMMA LastTyped ==
    ASSUME CInv, NEW r \in Request
    PROVE  /\ Len(frames[r]) \in Nat
           /\ frames[r] # <<>> => Last(r) \in Server /\ Len(frames[r]) \in DOMAIN frames[r]
  <1>1. frames[r] \in Seq(Hop)
    BY DEF CInv, CallsTyped
  <1>2. ASSUME frames[r] # <<>>
        PROVE  Last(r) \in Server /\ Len(frames[r]) \in DOMAIN frames[r]
    <2>1. Len(frames[r]) \in DOMAIN frames[r] /\ frames[r][Len(frames[r])] \in Hop
      BY <1>1, <1>2
    <2> QED
      BY <2>1 DEF Last, Hop
  <1> QED
    BY <1>1, <1>2

(* A step that lengthens no call and elects nobody. *)
SameHops ==
    /\ UNCHANGED raftVars
    /\ \A r \in Request : Len(frames'[r]) = Len(frames[r]) /\ Last(r)' = Last(r)
    /\ \A r \in Request : frames[r] # <<>> => frames'[r] # <<>>

LEMMA SameHopsKeep ==
    ASSUME HopInv, SameHops
    PROVE  Aged'
  <1>1. PICK ages \in [Server -> Nat] : Ages(ages) /\ \A r \in Request : Climbs(ages, r)
    BY DEF HopInv, Aged
  <1>2. Ages(ages)'
    BY <1>1 DEF Ages, Follows, SameHops, raftVars
  <1>3. ASSUME NEW r \in Request
        PROVE  Climbs(ages, r)'
    BY <1>1 DEF Climbs, Follows, SameHops, raftVars
  <1> QED
    BY <1>2, <1>3 DEF Aged

LEMMA MoveSameHops ==
    ASSUME HopInv, UNCHANGED raftVars, NEW r \in Request, NEW i \in Hops(r), NEW at \in Stage,
           Move(r, i, at)
    PROVE  SameHops
  <1>1. CInv /\ frames[r] \in Seq(Hop) /\ i \in DOMAIN frames[r] /\ frames[r][i] \in Hop
    BY DEF HopInv, CInv, CallsTyped, Hops
  <1>2. /\ \A q \in Request \ {r} : frames'[q] = frames[q]
        /\ Len(frames'[r]) = Len(frames[r]) /\ DOMAIN frames'[r] = DOMAIN frames[r]
        /\ \A j \in DOMAIN frames[r] \ {i} : frames'[r][j] = frames[r][j]
    BY <1>1, MoveTyped DEF CInv
  <1>3. frames'[r][i].server = frames[r][i].server
    <2> DEFINE h == [frames[r][i] EXCEPT !.at = at]
    <2>1. frames'[r] = [frames[r] EXCEPT ![i] = h]
      BY <1>1 DEF Move, CInv, CallsTyped
    <2>2. frames'[r][i] = h
      BY <1>1, <2>1
    <2>3. h.server = frames[r][i].server
      BY <1>1 DEF Hop
    <2> QED
      BY <2>2, <2>3
  <1>4. frames[r] # <<>> /\ frames'[r] # <<>> /\ Len(frames[r]) \in DOMAIN frames[r]
    <2>1. DOMAIN frames[r] = 1 .. Len(frames[r]) /\ Len(frames[r]) \in Nat
      BY <1>1
    <2>2. DOMAIN <<>> = {}
      OBVIOUS
    <2> QED
      BY <1>1, <1>2, <2>1, <2>2
  <1>5. Last(r)' = Last(r)
    BY <1>2, <1>3, <1>4 DEF Last
  <1>6. \A q \in Request \ {r} : Len(frames'[q]) = Len(frames[q]) /\ Last(q)' = Last(q)
    BY <1>2 DEF Last
  <1> QED
    BY <1>2, <1>4, <1>5, <1>6 DEF SameHops

(* Passing a call on: to the leader of a later term than the one before. *)
LEMMA ForwardClimbs ==
    ASSUME HopInv, NEW r \in Request, NEW i \in Hops(r), Forward(r, i)
    PROVE  Aged'
  <1> DEFINE f == [frames[r] EXCEPT ![i].at = "waiting"]
             b == Received(believed[ServerAt(r, i)])
  <1>1. CInv /\ Sound(r) /\ frames[r] \in Seq(Hop) /\ i \in DOMAIN frames[r]
    BY DEF HopInv, CInv, Sound, Hops
  <1>2. i = Len(frames[r]) /\ i \in Nat \ {0} /\ frames[r] # <<>>
    <2>1. At(r, i) = "received"
      BY DEF Forward
    <2> QED
      BY <1>1, <2>1 DEF Sound, Chained, Replied
  <1>3. Last(r) \in Server /\ Last(r) = ServerAt(r, i)
    BY <1>1, <1>2, LastTyped DEF Last, ServerAt
  <1>4. PICK s \in Server, m \in Server : /\ s = Last(r) /\ m = believed[s] /\ Follows(s)
    <2>1. believed[Last(r)] \in Server /\ Follows(Last(r))
      BY <1>1, <1>3 DEF Forward, Follows, CInv, CallsTyped
    <2> QED
      BY <1>3, <2>1
  <1>5. f \in Seq(Hop) /\ Len(f) = Len(frames[r])
    <2>1. frames[r][i] \in Hop
      BY <1>1
    <2>2. [frames[r][i] EXCEPT !.at = "waiting"] \in Hop
      BY <2>1 DEF Hop, Stage
    <2> QED
      BY <1>1, <2>2
  <1>6. frames' = [frames EXCEPT ![r] = Append(f, b)] /\ UNCHANGED raftVars
    BY DEF Forward
  <1>7. b.server = m
    BY <1>3, <1>4 DEF Received
  <1> HIDE DEF f, b
  <1>8. /\ Len(Append(f, b)) = Len(frames[r]) + 1 /\ Append(f, b)[Len(frames[r]) + 1] = b
        /\ Append(f, b) # <<>>
    BY <1>5
  <1>9. /\ Len(frames'[r]) = Len(frames[r]) + 1 /\ Last(r)' = m /\ frames'[r] # <<>>
        /\ \A q \in Request \ {r} : frames'[q] = frames[q]
    BY <1>1, <1>6, <1>7, <1>8 DEF CInv, CallsTyped, Last
  <1>10. PICK ages \in [Server -> Nat] : Ages(ages) /\ \A q \in Request : Climbs(ages, q)
    BY DEF HopInv, Aged
  <1>11. Ages(ages)'
    BY <1>6, <1>10 DEF Ages, Follows, raftVars
  <1>12. Climbs(ages, r)'
    <2>1. /\ Len(frames[r]) \in Nat /\ Len(frames[r]) <= ages[s] + 1
          /\ ages[s] \in Nat /\ ages[m] \in Nat /\ ages[s] <= term /\ term \in Nat
          /\ ages[s] = term => m = leader
          /\ Follows(m) => ages[s] < ages[m]
      BY <1>2, <1>4, <1>10, SubmissionAssumption DEF Climbs, Ages, HopInv
    <2>2. Len(frames[r]) + 1 <= term + (IF m = leader THEN 2 ELSE 1)
      BY <2>1
    <2>3. Follows(m) => Len(frames[r]) + 1 <= ages[m] + 1
      BY <2>1
    <2> QED
      BY <1>6, <1>9, <2>2, <2>3 DEF Climbs, Follows, raftVars
  <1>13. ASSUME NEW q \in Request \ {r}
         PROVE  Climbs(ages, q)'
    BY <1>6, <1>9, <1>10 DEF Climbs, Last, Follows, raftVars
  <1>14. \A q \in Request : Climbs(ages, q)'
    BY <1>12, <1>13
  <1> QED
    BY <1>11, <1>14 DEF Aged

(* An election opens a term; learning of its leader dates the belief. *)
LEMMA ElectionClimbs ==
    ASSUME HopInv, NEW s \in Server, Elect(s) \/ Learn(s)
    PROVE  term' \in 0 .. MaxTerm /\ believed'[leader'] = leader' /\ Aged'
  <1> USE SubmissionAssumption
  <1>1. /\ CInv /\ term \in Nat /\ term <= MaxTerm /\ MaxTerm \in Nat /\ leader \in Server
        /\ believed \in [Server -> Server \cup {Nobody}] /\ believed[leader] = leader
    BY DEF HopInv, CInv, CallsTyped
  <1>2. UNCHANGED frames /\ \A r \in Request : Last(r)' = Last(r)
    BY DEF Elect, Learn, Last
  <1>3. PICK ages \in [Server -> Nat] : Ages(ages) /\ \A r \in Request : Climbs(ages, r)
    BY DEF HopInv, Aged
  <1>4. \A r \in Request : Len(frames[r]) \in Nat /\ Last(r) \in Server
    BY <1>1, <1>3, LastTyped DEF Climbs
  <1>5. CASE Elect(s)
    <2>1. /\ term' = term + 1 /\ term < MaxTerm /\ leader' = s
          /\ \A x \in Server : believed'[x] = IF x = s THEN s ELSE believed[x]
      BY <1>1, <1>5 DEF Elect
    <2>2. Ages(ages)'
      <3>1. ASSUME NEW x \in Server
            PROVE  /\ ages[x] <= term' /\ ages[x] # term'
                   /\ Follows(x)' /\ Follows(believed[x])' => ages[x] < ages[believed'[x]]
        BY <1>1, <1>3, <2>1 DEF Ages, Follows
      <3> QED
        BY <3>1 DEF Ages
    <2>3. ASSUME NEW r \in Request
          PROVE  Climbs(ages, r)'
      <3>1. Len(frames[r]) <= term + 2 /\ frames[r] # <<>>
        BY <1>1, <1>3, <1>4 DEF Climbs
      <3>2. Len(frames'[r]) <= term' + 1
        BY <1>1, <1>2, <1>4, <2>1, <3>1
      <3>3. Follows(Last(r))' => Follows(Last(r))
        BY <1>2, <1>4, <2>1 DEF Follows
      <3> QED
        BY <1>1, <1>2, <1>3, <1>4, <2>1, <3>1, <3>2, <3>3 DEF Climbs
    <2> QED
      BY <1>1, <2>1, <2>2, <2>3 DEF Aged
  <1>6. CASE Learn(s)
    <2>1. /\ s # leader /\ UNCHANGED <<term, leader>>
          /\ \A x \in Server : believed'[x] = IF x # s THEN believed[x]
                                              ELSE IF believed[s] = Nobody THEN leader ELSE Nobody
      BY <1>1, <1>6 DEF Learn
    <2>2. PICK dated \in [Server -> Nat] :
            \A x \in Server : dated[x] = IF x = s THEN term ELSE ages[x]
      <3> DEFINE d == [ages EXCEPT ![s] = term]
      <3>1. d \in [Server -> Nat] /\ \A x \in Server : d[x] = IF x = s THEN term ELSE ages[x]
        BY <1>1, <1>3
      <3> HIDE DEF d
      <3> QED
        BY <3>1
    <2>3. Ages(dated)'
      <3>1. ASSUME NEW x \in Server
            PROVE  dated[x] <= term' /\ (Follows(x)' /\ dated[x] = term' => believed'[x] = leader')
        BY <1>1, <1>3, <2>1, <2>2 DEF Ages, Follows
      <3>2. ASSUME NEW x \in Server, Follows(x)', Follows(believed[x])'
            PROVE  dated[x] < dated[believed'[x]]
        <4>1. x # s
          BY <1>1, <2>1, <3>2 DEF Follows
        <4>2. believed'[x] = believed[x] /\ Follows(x) /\ believed[x] \in Server
          BY <1>1, <2>1, <3>2, <4>1 DEF Follows
        <4>3. CASE believed[x] = s
          <5>1. ages[x] # term /\ ages[x] <= term
            BY <1>3, <2>1, <4>2, <4>3 DEF Ages
          <5> QED
            BY <1>1, <2>2, <4>1, <4>2, <4>3, <5>1
        <4>4. CASE believed[x] # s
          <5>1. Follows(believed[x])
            BY <2>1, <3>2, <4>2, <4>4 DEF Follows
          <5> QED
            BY <1>3, <2>2, <4>1, <4>2, <4>4, <5>1 DEF Ages
        <4> QED
          BY <4>3, <4>4
      <3> QED
        BY <2>2, <3>1, <3>2 DEF Ages
    <2>4. ASSUME NEW r \in Request
          PROVE  Climbs(dated, r)'
      <3>1. frames'[r] # <<>> /\ Len(frames'[r]) <= term' + (IF Last(r)' = leader' THEN 2 ELSE 1)
        BY <1>2, <1>3, <2>1 DEF Climbs
      <3>2. ASSUME Follows(Last(r))'
            PROVE  Len(frames'[r]) <= dated[Last(r)'] + 1
        <4>1. CASE Last(r) = s
          BY <1>1, <1>2, <1>4, <2>1, <2>2, <3>1, <4>1
        <4>2. CASE Last(r) # s
          <5>1. Follows(Last(r))
            BY <1>2, <1>4, <2>1, <3>2, <4>2 DEF Follows
          <5> QED
            BY <1>2, <1>3, <1>4, <2>2, <4>2, <5>1 DEF Climbs
        <4> QED
          BY <4>1, <4>2
      <3> QED
        BY <3>1, <3>2 DEF Climbs
    <2> QED
      BY <1>1, <2>1, <2>2, <2>3, <2>4 DEF Aged
  <1> QED
    BY <1>5, <1>6

LEMMA NextHops == HopInv /\ [SubmissionNext]_allVars => HopInv'
  <1> SUFFICES ASSUME HopInv, [SubmissionNext]_allVars
               PROVE  HopInv'
    OBVIOUS
  <1>1. CInv'
    BY StepKeeps DEF Keeps, HopInv
  <1>2. ASSUME UNCHANGED <<frames, raftVars>>
        PROVE  SameHops
    BY <1>2 DEF SameHops, Last
  <1>3. ASSUME NEW r \in Request, NEW i \in Hops(r),
               Process(r, i) \/ Relay(r, i) \/ CommitTask(r, i) \/ ApplyFails(r, i)
                 \/ RegisterTask(r, i) \/ ForwardFails(r, i)
        PROVE  SameHops
    <2>1. PICK at \in Stage : Move(r, i, at)
      <3>1. Replied \in SUBSET Stage
        BY DEF Replied, Stage
      <3> QED
        BY <1>3, <3>1 DEF Process, Relay, CommitTask, ApplyFails, RegisterTask, ForwardFails, Stage
    <2>2. UNCHANGED raftVars
      BY <1>3 DEF Process, Relay, CommitTask, ApplyFails, RegisterTask, ForwardFails
    <2> QED
      BY <2>1, <2>2, MoveSameHops
  <1>4. ASSUME SameHops
        PROVE  HopInv'
    BY <1>1, <1>4, SameHopsKeep DEF HopInv, SameHops, raftVars
  <1>5. ASSUME NEW r \in Request, NEW i \in Hops(r), Forward(r, i)
        PROVE  HopInv'
    BY <1>1, <1>5, ForwardClimbs DEF HopInv, Forward, raftVars
  <1>6. ASSUME NEW s \in Server, Elect(s) \/ Learn(s)
        PROVE  HopInv'
    BY <1>1, <1>6, ElectionClimbs DEF HopInv
  <1>7. ASSUME NEW r \in Request, NEW s \in Server,
               CallReturns(r) \/ CallFails(r) \/ GivesUp(r) \/ NotifyTaskCompletion(s, r)
        PROVE  UNCHANGED <<frames, raftVars>>
    BY <1>7 DEF CallReturns, CallFails, GivesUp, NotifyTaskCompletion, submissionVars
  <1>8. Elsewhere \/ UNCHANGED allVars => UNCHANGED <<frames, raftVars>>
    BY DEF Elsewhere, allVars, submissionVars
  <1>9. Server # {}
    BY SubmissionAssumption
  <1> QED
    BY <1>2, <1>3, <1>4, <1>5, <1>6, <1>7, <1>8, <1>9 DEF SubmissionNext, Serve

LEMMA InitHops == SubmissionInit => HopInv
  <1> SUFFICES ASSUME SubmissionInit
               PROVE  HopInv
    OBVIOUS
  <1> USE SubmissionAssumption
  <1>1. /\ CInv /\ term = 0 /\ leader \in Server /\ believed[leader] = leader
        /\ believed \in [Server -> {leader, Nobody}]
        /\ \A r \in Request : frames[r] = <<Received(Home)>>
    BY SubmissionInitSound DEF SubmissionInit
  <1> DEFINE ages == [s \in Server |-> 0]
  <1>2. ages \in [Server -> Nat] /\ \A s \in Server : ages[s] = 0
    OBVIOUS
  <1> HIDE DEF ages
  <1>3. Ages(ages)
    BY <1>1, <1>2 DEF Ages, Follows
  <1>4. ASSUME NEW r \in Request
        PROVE  Climbs(ages, r)
    <2>1. PICK h : h = Received(Home) /\ h.server = Home
      <3>1. Received(Home).server = Home
        BY DEF Received
      <3> QED
        BY <3>1
    <2>2. Len(<<h>>) = 1 /\ <<h>> # <<>> /\ <<h>>[1] = h
      OBVIOUS
    <2>3. frames[r] = <<h>>
      BY <1>1, <2>1
    <2>4. Len(frames[r]) = 1 /\ frames[r] # <<>> /\ Last(r) = Home
      BY <2>1, <2>2, <2>3 DEF Last
    <2>5. Len(frames[r]) <= term + (IF Last(r) = leader THEN 2 ELSE 1)
      BY <1>1, <2>4
    <2>6. Len(frames[r]) <= ages[Last(r)] + 1
      BY <1>2, <2>4
    <2> QED
      BY <2>4, <2>5, <2>6 DEF Climbs
  <1> QED
    BY <1>1, <1>2, <1>3, <1>4 DEF HopInv, Aged

LEMMA HopInvariance == SubmissionSpec => []HopInv
  <1> QED
    BY InitHops, NextHops, PTL DEF SubmissionSpec

(***************************************************************************)
(* Every call has a handler at its end that does not wait for another, and *)
(* all before it wait or have answered; beliefs and listeners are typed.   *)
(***************************************************************************)
THEOREM SubmissionTypeCorrect == SubmissionSpec => []SubmissionTypeOK
  <1>1. HopInv => SubmissionTypeOK
    <2> SUFFICES ASSUME HopInv
                 PROVE  SubmissionTypeOK
      OBVIOUS
    <2>1. CallsTyped /\ Aged /\ term \in 0 .. MaxTerm
      BY DEF HopInv, CInv
    <2>2. ASSUME NEW r \in Request
          PROVE  /\ frames[r] # <<>>
                 /\ \A i \in DOMAIN frames[r] :
                       IF i < Len(frames[r])
                       THEN frames[r][i].at \in Replied \cup {"waiting"}
                       ELSE frames[r][i].at # "waiting"
      <3>1. frames[r] # <<>>
        BY <2>1 DEF Aged, Climbs
      <3>2. Chained(r) /\ frames[r] \in Seq(Hop)
        BY DEF HopInv, CInv, Sound
      <3>3. \A i \in DOMAIN frames[r] : i < Len(frames[r]) \/ i = Len(frames[r])
        BY <3>2
      <3> QED
        BY <3>1, <3>2, <3>3 DEF Chained, At
    <2> QED
      BY <2>1, <2>2 DEF SubmissionTypeOK, CallsTyped
  <1> QED
    BY <1>1, HopInvariance, PTL

(***************************************************************************)
(* A call is passed round no longer than leadership is: it never visits    *)
(* more servers than there have been terms, and one more (forwardToLeader  *)
(* asks nothing but the local belief, and counts no hops).                 *)
(***************************************************************************)
THEOREM HopsAlwaysNeedElections == SubmissionSpec => []HopsNeedElections
  <1>1. HopInv => HopsNeedElections
    <2> SUFFICES ASSUME HopInv, NEW r \in Request
                 PROVE  Len(frames[r]) <= term + 2
      BY DEF HopsNeedElections
    <2>1. Len(frames[r]) \in Nat /\ term \in Nat
      BY LastTyped, SubmissionAssumption DEF HopInv
    <2>2. Len(frames[r]) <= term + 2 \/ Len(frames[r]) <= term + 1
      BY DEF HopInv, Aged, Climbs
    <2> QED
      BY <2>1, <2>2
  <1> QED
    BY <1>1, HopInvariance, PTL
=============================================================================
