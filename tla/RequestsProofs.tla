--------------------------- MODULE RequestsProofs ---------------------------
(***************************************************************************)
(* Proofs that subscriptions lose no update and misuse no channel, for any *)
(* requests, any updates and any number of snapshots.                      *)
(*                                                                         *)
(* Everything is a matter of one request at a time.  Good(r) strengthens   *)
(* the properties by what they depend on: an unread entry is newer than    *)
(* what its request has seen, and nobody has seen the future.              *)
(***************************************************************************)
EXTENDS RequestsProperties, TLAPS

UnreadIsNews(r) ==
    request[r].at = "waiting" /\ ~Blocked(r) =>
        /\ request[r].seen < Head(Channel(r).entries).version
        /\ Head(Channel(r).entries).version <= version[r]

UpToDate(r) ==
    /\ request[r].seen <= version[r]
    /\ Stored(r) = "absent" => version[r] = 0
    /\ Blocked(r) => request[r].seen = version[r]
    /\ UnreadIsNews(r)

Good(r) ==
    /\ \A k \in subscribers[r] : chans[r][k] = Open
    /\ Blocked(r) => Len(chans[r]) \in subscribers[r]
    /\ Unrestored => UpToDate(r)

IInv == TypeOK /\ \A r \in Request : Good(r)

-----------------------------------------------------------------------------
(***************************************************************************)
(* Type correctness, one lemma per action.                                 *)
(***************************************************************************)
LEMMA InitTypeOK == Init => TypeOK
  <1> QED
    BY DEF Init, TypeOK, Phase, Channels

(* What the types say of one request, in the form the proofs use. *)
LEMMA RequestTyped ==
    ASSUME TypeOK, NEW r \in Request
    PROVE  /\ chans[r] \in Channels
           /\ subscribers[r] \subseteq DOMAIN chans[r]
           /\ request[r].at \in Phase /\ request[r].seen \in Nat
           /\ request[r] = [at |-> request[r].at, seen |-> request[r].seen]
           /\ version[r] \in Nat
           /\ Generation \in Nat /\ Generation >= 1
           /\ request[r].at = "waiting" => chans[r] # <<>>
  <1> QED
    BY DEF TypeOK, Generation

LEMMA GotoTyped ==
    ASSUME TypeOK, NEW r \in Request, NEW at \in Phase, NEW seen \in Nat, Goto(r, at, seen)
    PROVE  /\ request' \in [Request -> [at : Phase, seen : Nat]]
           /\ request'[r] = [at |-> at, seen |-> seen]
           /\ \A q \in Request \ {r} : request'[q] = request[q]
  <1> QED
    BY DEF TypeOK, Goto

LEMMA LogTypeOK ==
    ASSUME TypeOK, NEW r \in Request, Admit(r) \/ \E s \in Ended \cup {"proposal"} : Update(r, s)
    PROVE  TypeOK'
  <1>1. PICK c \in Command : log' = Append(log, c)
    BY DEF Admit, Update, Command, Active
  <1>2. UNCHANGED <<applied, records, version, subscribers, chans, request>>
    BY DEF Admit, Update
  <1> QED
    BY <1>1, <1>2 DEF TypeOK

LEMMA SubmitTypeOK ==
    ASSUME TypeOK, NEW r \in Request, SubmitReturns(r) \/ SubmitFails(r) \/ Cancel(r)
    PROVE  TypeOK'
  <1>1. PICK at \in Phase, seen \in Nat : Goto(r, at, seen) /\ at # "waiting"
    BY RequestTyped DEF SubmitReturns, SubmitFails, Cancel, Phase
  <1>2. UNCHANGED <<log, applied, records, version, subscribers, chans>>
    BY DEF SubmitReturns, SubmitFails, Cancel, replicaVars
  <1>3. request' \in [Request -> [at : Phase, seen : Nat]]
    BY <1>1, GotoTyped
  <1>4. ASSUME NEW q \in Request, request'[q].at = "waiting"
        PROVE  chans[q] # <<>>
    <2>1. request'[r].at # "waiting"
      <3>1. request'[r] = [at |-> at, seen |-> seen]
        BY <1>1, GotoTyped
      <3> QED
        BY <3>1, <1>1
    <2> q # r
      BY <2>1, <1>4
    <2>2. request'[q] = request[q]
      BY <1>1, GotoTyped
    <2> QED
      BY <2>2, <1>4, RequestTyped
  <1> QED
    BY <1>2, <1>3, <1>4 DEF TypeOK

(* What the operations on channels do. *)
LEMMA NotifyTyped ==
    ASSUME TypeOK, NEW r \in Request, NEW e \in Entry, NotifySubscribers(r, e)
    PROVE  /\ chans' \in [Request -> Channels]
           /\ \A q \in Request : DOMAIN chans'[q] = DOMAIN chans[q] /\ Len(chans'[q]) = Len(chans[q])
           /\ \A q \in Request \ {r} : chans'[q] = chans[q] /\ subscribers'[q] = subscribers[q]
           /\ \A k \in DOMAIN chans[r] :
                 chans'[r][k] = IF k \in subscribers[r] THEN Send(chans[r][k], e) ELSE chans[r][k]
           /\ subscribers' = [subscribers EXCEPT ![r] = {}]
           /\ subscribers'[r] = {}
  <1> DEFINE after == [k \in DOMAIN chans[r] |->
                         IF k \in subscribers[r] THEN Send(chans[r][k], e) ELSE chans[r][k]]
  <1>1. chans[r] \in Seq(ChannelState)
    BY RequestTyped DEF Channels
  <1>2. Holding(e) \in ChannelState
    BY DEF Holding, ChannelState
  <1>3. ASSUME NEW c \in ChannelState
        PROVE  Send(c, e) \in ChannelState
    <2>1. [c EXCEPT !.closed = TRUE] \in ChannelState
      BY DEF ChannelState
    <2> QED
      BY <2>1, <1>2 DEF Send
  <1>4. ASSUME NEW k \in DOMAIN chans[r]
        PROVE  after[k] \in ChannelState
    <2>1. chans[r][k] \in ChannelState
      BY <1>1
    <2> QED
      BY <2>1, <1>3
  <1> HIDE DEF after
  <1>5. after \in Seq(ChannelState) /\ DOMAIN after = DOMAIN chans[r] /\ Len(after) = Len(chans[r])
    <2>1. Len(chans[r]) \in Nat /\ DOMAIN chans[r] = 1 .. Len(chans[r])
      BY <1>1
    <2>2. after \in [1 .. Len(chans[r]) -> ChannelState]
      BY <1>4, <2>1 DEF after
    <2> QED
      BY <2>1, <2>2
  <1>6. chans' = [chans EXCEPT ![r] = after]
    BY DEF NotifySubscribers, NotifyAll, after
  <1>7. \A k \in DOMAIN chans[r] :
           after[k] = IF k \in subscribers[r] THEN Send(chans[r][k], e) ELSE chans[r][k]
    BY DEF after
  <1>8. chans \in [Request -> Channels] /\ subscribers \in [Request -> SUBSET Nat]
    BY DEF TypeOK
  <1>9. subscribers' = [subscribers EXCEPT ![r] = {}]
    BY DEF NotifySubscribers
  <1> QED
    BY <1>5, <1>6, <1>7, <1>8, <1>9 DEF Channels

LEMMA GiveTyped ==
    ASSUME TypeOK, NEW r \in Request, NEW c \in ChannelState, GiveChannel(r, c)
    PROVE  /\ chans' \in [Request -> Channels]
           /\ \A q \in Request \ {r} : chans'[q] = chans[q]
           /\ DOMAIN chans'[r] = 1 .. Len(chans[r]) + 1
           /\ Len(chans'[r]) = Len(chans[r]) + 1 /\ Len(chans[r]) \in Nat
           /\ DOMAIN chans[r] = 1 .. Len(chans[r])
           /\ \A k \in DOMAIN chans[r] : chans'[r][k] = chans[r][k]
           /\ chans'[r][Len(chans[r]) + 1] = c
  <1>1. chans[r] \in Seq(ChannelState)
    BY RequestTyped DEF Channels
  <1>2. chans' = [chans EXCEPT ![r] = Append(chans[r], c)]
    BY DEF GiveChannel
  <1>3. chans \in [Request -> Channels]
    BY DEF TypeOK
  <1>4. chans'[r] = Append(chans[r], c) /\ \A q \in Request \ {r} : chans'[q] = chans[q]
    BY <1>2, <1>3
  <1>5. Append(chans[r], c) \in Channels
    BY <1>1 DEF Channels
  <1>6. chans' \in [Request -> Channels]
    BY <1>2, <1>3, <1>5
  <1> QED
    BY <1>1, <1>4, <1>6

LEMMA TakenTyped ==
    ASSUME TypeOK, NEW r \in Request, chans[r] # <<>>, Taken(r)
    PROVE  /\ chans' \in [Request -> Channels]
           /\ \A q \in Request \ {r} : chans'[q] = chans[q]
           /\ DOMAIN chans'[r] = DOMAIN chans[r] /\ Len(chans'[r]) = Len(chans[r])
           /\ \A k \in DOMAIN chans[r] \ {Len(chans[r])} : chans'[r][k] = chans[r][k]
  <1> DEFINE last == [Channel(r) EXCEPT !.entries = <<>>]
             after == [chans[r] EXCEPT ![Len(chans[r])] = last]
  <1>0. chans[r] \in Seq(ChannelState)
    BY RequestTyped DEF Channels
  <1>1. chans[r] \in Seq(ChannelState) /\ Len(chans[r]) \in DOMAIN chans[r]
    BY <1>0
  <1>2. Channel(r) \in ChannelState
    BY <1>1 DEF Channel
  <1>3. last \in ChannelState
    <2>1. <<>> \in Seq(Entry)
      OBVIOUS
    <2>2. ASSUME NEW S, NEW es \in S, NEW c \in [entries : S, closed : BOOLEAN]
          PROVE  [c EXCEPT !.entries = es] \in [entries : S, closed : BOOLEAN]
      BY <2>2
    <2> QED
      BY <1>2, <2>1, <2>2 DEF ChannelState
  <1>4. chans' = [chans EXCEPT ![r] = after]
    BY DEF Taken, Channel
  <1> HIDE DEF last
  <1>5. /\ after \in Channels /\ DOMAIN after = DOMAIN chans[r] /\ Len(after) = Len(chans[r])
        /\ \A k \in DOMAIN chans[r] \ {Len(chans[r])} : after[k] = chans[r][k]
    BY <1>1, <1>3 DEF Channels
  <1> HIDE DEF after
  <1>6. chans \in [Request -> Channels]
    BY DEF TypeOK
  <1> QED
    BY <1>4, <1>5, <1>6

LEMMA ChannelsTyped ==
    /\ Open \in ChannelState
    /\ \A e \in Entry : Holding(e) \in ChannelState
  <1>1. <<>> \in Seq(Entry) /\ \A e \in Entry : <<e>> \in Seq(Entry)
    OBVIOUS
  <1>2. ASSUME NEW S, NEW es \in S, NEW b \in BOOLEAN
        PROVE  [entries |-> es, closed |-> b] \in [entries : S, closed : BOOLEAN]
    BY <1>2
  <1> QED
    BY <1>1, <1>2 DEF Open, Holding, ChannelState

LEMMA EntryTyped ==
    ASSUME TypeOK, NEW v \in Nat
    PROVE  [version |-> v, record |-> Generation] \in Entry
  <1>1. Generation \in Nat \ {0}
    BY DEF TypeOK, Generation
  <1> QED
    BY <1>1 DEF Entry

LEMMA UnreadTyped ==
    ASSUME TypeOK, NEW r \in Request, request[r].at = "waiting", ~Blocked(r)
    PROVE  /\ Head(Channel(r).entries) \in Entry
           /\ Head(Channel(r).entries).version \in Nat
  <1>1. chans[r] \in Seq(ChannelState) /\ chans[r] # <<>>
    BY RequestTyped DEF Channels
  <1>2. Channel(r) \in ChannelState
    BY <1>1 DEF Channel
  <1>3. Channel(r).entries \in Seq(Entry) /\ Channel(r).entries # <<>>
    BY <1>2 DEF ChannelState, Blocked
  <1>4. Head(Channel(r).entries) \in Entry
    BY <1>3
  <1> QED
    BY <1>4 DEF Entry

LEMMA SubscribeTypeOK ==
    ASSUME TypeOK, NEW r \in Request, Subscribe(r)
    PROVE  TypeOK'
  <1>1. PICK c \in ChannelState : GiveChannel(r, c)
    <2>1. [version |-> version[r], record |-> Generation] \in Entry
      BY RequestTyped, EntryTyped
    <2> QED
      BY <2>1, ChannelsTyped DEF Subscribe
  <1>2. /\ UNCHANGED <<log, applied, records, version>>
        /\ Goto(r, "waiting", request[r].seen)
        /\ \/ UNCHANGED subscribers
           \/ subscribers' = [subscribers EXCEPT ![r] = @ \cup {Len(chans[r]) + 1}]
    BY DEF Subscribe, replicaVars, Register
  <1>3. /\ request' \in [Request -> [at : Phase, seen : Nat]]
        /\ \A q \in Request \ {r} : request'[q] = request[q]
    BY <1>2, RequestTyped, GotoTyped DEF Phase
  <1>4. /\ chans' \in [Request -> Channels]
        /\ \A q \in Request \ {r} : chans'[q] = chans[q]
        /\ DOMAIN chans'[r] = 1 .. Len(chans[r]) + 1
        /\ Len(chans[r]) \in Nat /\ DOMAIN chans[r] = 1 .. Len(chans[r])
    BY <1>1, GiveTyped
  <1>5. /\ subscribers' \in [Request -> SUBSET Nat]
        /\ \A q \in Request : subscribers'[q] \subseteq DOMAIN chans'[q]
    <2>1. \A q \in Request : subscribers[q] \subseteq Nat /\ subscribers[q] \subseteq DOMAIN chans[q]
      BY DEF TypeOK
    <2>2. subscribers \in [Request -> SUBSET Nat]
      BY DEF TypeOK
    <2>3. Len(chans[r]) + 1 \in Nat /\ Len(chans[r]) + 1 \in DOMAIN chans'[r]
      BY <1>4
    <2>4. DOMAIN chans[r] \subseteq DOMAIN chans'[r]
      BY <1>4
    <2>5. CASE UNCHANGED subscribers
      BY <1>4, <2>1, <2>2, <2>4, <2>5
    <2>6. CASE subscribers' = [subscribers EXCEPT ![r] = @ \cup {Len(chans[r]) + 1}]
      BY <1>4, <2>1, <2>2, <2>3, <2>4, <2>6
    <2> QED
      BY <1>2, <2>5, <2>6
  <1>6. ASSUME NEW q \in Request, request'[q].at = "waiting"
        PROVE  chans'[q] # <<>>
    <2>1. CASE q = r
      BY <1>4, <2>1
    <2>2. CASE q # r
      BY <1>3, <1>4, <1>6, <2>2, RequestTyped
    <2> QED
      BY <2>1, <2>2
  <1> QED
    BY <1>2, <1>3, <1>4, <1>5, <1>6 DEF TypeOK

LEMMA ReceiveTypeOK ==
    ASSUME TypeOK, NEW r \in Request, Receive(r)
    PROVE  TypeOK'
  <1>1. PICK at \in {"answered", "subscribing"}, seen \in Nat : Goto(r, at, seen)
    BY UnreadTyped DEF Receive
  <1>2. /\ UNCHANGED <<log, applied, records, version, subscribers>>
        /\ Taken(r) /\ chans[r] # <<>>
    BY RequestTyped DEF Receive, replicaVars
  <1>3. /\ request' \in [Request -> [at : Phase, seen : Nat]]
        /\ request'[r] = [at |-> at, seen |-> seen]
        /\ \A q \in Request \ {r} : request'[q] = request[q]
    BY <1>1, GotoTyped DEF Phase
  <1>4. /\ chans' \in [Request -> Channels]
        /\ \A q \in Request \ {r} : chans'[q] = chans[q]
        /\ DOMAIN chans'[r] = DOMAIN chans[r]
    BY <1>2, TakenTyped
  <1>5. \A q \in Request : subscribers'[q] \subseteq DOMAIN chans'[q]
    BY <1>2, <1>4, RequestTyped
  <1>6. ASSUME NEW q \in Request, request'[q].at = "waiting"
        PROVE  chans'[q] # <<>>
    <2>1. request'[r].at # "waiting"
      BY <1>3
    <2> QED
      BY <1>3, <1>4, <1>6, <2>1, RequestTyped
  <1> QED
    BY <1>2, <1>3, <1>4, <1>5, <1>6 DEF TypeOK

LEMMA StoreTypeOK ==
    ASSUME TypeOK, NEW r \in Request, NEW s \in Active \cup Ended, Store(r, s),
           applied' \in 0 .. Len(log), UNCHANGED <<log, request>>
    PROVE  TypeOK'
  <1>1. [version |-> version[r] + 1, record |-> Generation] \in Entry
    <2>1. version[r] + 1 \in Nat
      <3>1. version[r] \in Nat
        BY RequestTyped
      <3> QED
        BY <3>1
    <2> QED
      BY <2>1, EntryTyped
  <1>2. /\ chans' \in [Request -> Channels]
        /\ \A q \in Request : DOMAIN chans'[q] = DOMAIN chans[q] /\ Len(chans'[q]) = Len(chans[q])
        /\ subscribers' = [subscribers EXCEPT ![r] = {}]
    BY <1>1, NotifyTyped DEF Store
  <1>3. records' \in Seq([Request -> Active \cup Ended \cup {"absent"}]) /\ records' # <<>>
    <2> DEFINE Statuses == Active \cup Ended \cup {"absent"}
    <2>1. records \in Seq([Request -> Statuses]) /\ records # <<>>
      BY DEF TypeOK
    <2>2. Generation \in DOMAIN records
      BY <2>1 DEF Generation
    <2>3. records' = [records EXCEPT ![Generation] = [records[Generation] EXCEPT ![r] = s]]
      BY DEF Store
    <2>4. [records[Generation] EXCEPT ![r] = s] \in [Request -> Statuses]
      BY <2>1, <2>2
    <2> HIDE DEF Statuses
    <2> QED
      BY <2>1, <2>2, <2>3, <2>4 DEF Statuses
  <1>4. version' \in [Request -> Nat]
    BY DEF TypeOK, Store
  <1>5. /\ subscribers' \in [Request -> SUBSET Nat]
        /\ \A q \in Request : subscribers'[q] \subseteq DOMAIN chans'[q]
    BY <1>2 DEF TypeOK
  <1>6. ASSUME NEW q \in Request, request[q].at = "waiting"
        PROVE  chans'[q] # <<>>
    <2>1. chans[q] # <<>> /\ chans[q] \in Seq(ChannelState) /\ chans'[q] \in Seq(ChannelState)
      BY <1>2, <1>6, RequestTyped DEF Channels
    <2> QED
      BY <1>2, <2>1
  <1> QED
    BY <1>2, <1>3, <1>4, <1>5, <1>6 DEF TypeOK

LEMMA ApplyTypeOK ==
    ASSUME TypeOK, Apply
    PROVE  TypeOK'
  <1> DEFINE c == log[applied + 1]
  <1>1. c.task \in Request /\ c.status \in Active \cup Ended /\ applied' \in 0 .. Len(log)
    <2>1. log \in Seq(Command) /\ applied + 1 \in 1 .. Len(log) /\ applied' = applied + 1
      BY DEF TypeOK, Apply
    <2>2. c \in Command
      BY <2>1
    <2> QED
      BY <2>1, <2>2 DEF Command, TypeOK
  <1>2. CASE UNCHANGED <<records, version, subscribers, chans>>
    BY <1>1, <1>2 DEF Apply, TypeOK
  <1>3. CASE Store(c.task, c.status)
    BY <1>1, <1>3, StoreTypeOK DEF Apply
  <1> QED
    BY <1>2, <1>3 DEF Apply

LEMMA RestoreTypeOK ==
    ASSUME TypeOK, NEW i \in applied + 1 .. Len(log),
           NEW read \in [Request -> i .. Len(log)], Restore(i, read)
    PROVE  TypeOK'
  <1> DEFINE Statuses == Active \cup Ended \cup {"absent"}
             record == [r \in Request |-> Restored(StatusAt(r, read[r]))]
  <1>1. record \in [Request -> Statuses]
    <2>1. \A s : Restored(s) \in Statuses
      BY DEF Restored
    <2> QED
      BY <2>1
  <1>2. records \in Seq([Request -> Statuses]) /\ records' = Append(records, record)
    BY DEF TypeOK, Restore
  <1> HIDE DEF record
  <1>3. records' \in Seq([Request -> Statuses]) /\ records' # <<>>
    <2> HIDE DEF Statuses
    <2> QED
      BY <1>1, <1>2
  <1>4. applied' \in 0 .. Len(log) /\ version' \in [Request -> Nat]
    BY DEF TypeOK, Restore
  <1> QED
    BY <1>3, <1>4 DEF TypeOK, Restore

LEMMA StepTypeOK == TypeOK /\ [Next]_vars => TypeOK'
  <1> SUFFICES ASSUME TypeOK, [Next]_vars
               PROVE  TypeOK'
    OBVIOUS
  <1>1. CASE UNCHANGED vars
    BY <1>1 DEF vars, replicaVars, TypeOK
  <1>2. ASSUME NEW r \in Request,
               Admit(r) \/ \E s \in Ended \cup {"proposal"} : Update(r, s)
        PROVE  TypeOK'
    BY <1>2, LogTypeOK
  <1>3. ASSUME NEW r \in Request, SubmitReturns(r) \/ SubmitFails(r) \/ Cancel(r)
        PROVE  TypeOK'
    BY <1>3, SubmitTypeOK
  <1>4. ASSUME NEW r \in Request, Subscribe(r)
        PROVE  TypeOK'
    BY <1>4, SubscribeTypeOK
  <1>5. ASSUME NEW r \in Request, Receive(r)
        PROVE  TypeOK'
    BY <1>5, ReceiveTypeOK
  <1>6. CASE Apply
    BY <1>6, ApplyTypeOK
  <1>7. ASSUME NEW i \in applied + 1 .. Len(log), InstallSnapshot(i)
        PROVE  TypeOK'
    BY <1>7, RestoreTypeOK DEF InstallSnapshot
  <1> QED
    BY <1>1, <1>2, <1>3, <1>4, <1>5, <1>6, <1>7 DEF Next, Handler

-----------------------------------------------------------------------------
(***************************************************************************)
(* Good(r), one lemma per action.                                          *)
(***************************************************************************)
(* A request is not concerned by the steps of another one. *)
LEMMA Frame ==
    ASSUME NEW r, Good(r), Generation' = Generation, version'[r] = version[r],
           Stored(r)' = Stored(r), subscribers'[r] = subscribers[r],
           chans'[r] = chans[r], request'[r] = request[r]
    PROVE  Good(r)'
  <1> QED
    BY DEF Good, Unrestored, UpToDate, UnreadIsNews, Blocked, Channel

(* A request that does not wait on its channel. *)
LEMMA NotWaiting ==
    ASSUME NEW r, Good(r), UNCHANGED replicaVars, subscribers'[r] = subscribers[r],
           \A k \in subscribers[r] : chans'[r][k] = chans[r][k],
           request'[r].at # "waiting", Unrestored => request'[r].seen <= version[r]
    PROVE  Good(r)'
  <1> QED
    BY DEF Good, Unrestored, UpToDate, UnreadIsNews, Blocked, replicaVars, Generation, Stored

LEMMA SubmitGood ==
    ASSUME TypeOK, NEW r \in Request, \A q \in Request : Good(q),
           SubmitReturns(r) \/ SubmitFails(r) \/ Cancel(r)
    PROVE  \A q \in Request : Good(q)'
  <1>1. PICK at \in Phase, seen \in {0, request[r].seen} :
           Goto(r, at, seen) /\ at # "waiting"
    BY DEF SubmitReturns, SubmitFails, Cancel, Phase
  <1>2. UNCHANGED <<replicaVars, subscribers, chans>>
    BY DEF SubmitReturns, SubmitFails, Cancel
  <1>3. seen \in Nat /\ version[r] \in Nat
    <2>1. request[r].seen \in Nat /\ version[r] \in Nat
      BY RequestTyped
    <2> QED
      BY <1>1, <2>1
  <1>4. /\ request'[r] = [at |-> at, seen |-> seen]
        /\ \A q \in Request \ {r} : request'[q] = request[q]
    BY <1>1, <1>3, GotoTyped
  <1>5. Good(r)'
    <2>1. Unrestored => seen <= version[r]
      BY <1>1, <1>3 DEF Good, UpToDate
    <2>2. request'[r].at # "waiting" /\ request'[r].seen = seen
      BY <1>1, <1>4
    <2> QED
      BY <1>2, <2>1, <2>2, NotWaiting
  <1>6. ASSUME NEW q \in Request \ {r}
        PROVE  Good(q)'
    BY <1>2, <1>4, Frame DEF replicaVars, Generation, Stored
  <1> QED
    BY <1>5, <1>6

LEMMA SubscribeGood ==
    ASSUME TypeOK, NEW r \in Request, \A q \in Request : Good(q), Subscribe(r)
    PROVE  \A q \in Request : Good(q)'
  <1> DEFINE new == Len(chans[r]) + 1
             e == [version |-> version[r], record |-> Generation]
  <1>1. /\ UNCHANGED <<replicaVars>>
        /\ Goto(r, "waiting", request[r].seen)
        /\ request[r].seen \in Nat /\ version[r] \in Nat
    BY RequestTyped DEF Subscribe
  <1>2. /\ request'[r] = [at |-> "waiting", seen |-> request[r].seen]
        /\ \A q \in Request \ {r} : request'[q] = request[q]
    BY <1>1, GotoTyped DEF Phase
  <1>3. Open \in ChannelState /\ Holding(e) \in ChannelState
    BY <1>1, EntryTyped, ChannelsTyped
  <1>4. \A q \in Request \ {r} : chans'[q] = chans[q] /\ subscribers'[q] = subscribers[q]
    BY <1>3, GiveTyped DEF Subscribe, Register, TypeOK
  <1>5. /\ Len(chans'[r]) = new
        /\ \A k \in DOMAIN chans[r] : chans'[r][k] = chans[r][k]
    BY <1>3, GiveTyped DEF Subscribe
  <1>6. subscribers[r] \subseteq DOMAIN chans[r]
    BY RequestTyped
  <1>7. CASE HasNews(r)
    <2>1. UNCHANGED subscribers /\ chans'[r][new] = Holding(e)
      BY <1>3, <1>7, GiveTyped DEF Subscribe
    <2>2. \A k \in subscribers'[r] : chans'[r][k] = Open
      BY <1>5, <1>6, <2>1 DEF Good
    <2>3. Channel(r)' = Holding(e)
      BY <1>5, <2>1 DEF Channel
    <2>4. Channel(r)'.entries # <<>> /\ Head(Channel(r)'.entries) = e
      BY <2>3 DEF Holding
    <2>5. ~Blocked(r)'
      BY <2>4 DEF Blocked
    <2>6. UnreadIsNews(r)'
      BY <1>1, <1>2, <1>7, <2>4 DEF UnreadIsNews, HasNews, replicaVars
    <2>7. Unrestored' => UpToDate(r)'
      BY <1>1, <1>2, <2>5, <2>6 DEF Good, UpToDate, replicaVars, Unrestored, Generation, Stored
    <2>8. Good(r)'
      BY <2>2, <2>5, <2>7 DEF Good
    <2> QED
      BY <1>1, <1>2, <1>4, <2>8, Frame DEF replicaVars, Generation, Stored
  <1>8. CASE ~HasNews(r)
    <2>1. subscribers'[r] = subscribers[r] \cup {new} /\ chans'[r][new] = Open
      BY <1>3, <1>8, GiveTyped DEF Subscribe, Register, TypeOK
    <2>2. \A k \in subscribers'[r] : chans'[r][k] = Open
      BY <1>5, <1>6, <2>1 DEF Good
    <2>3. Channel(r)' = Open /\ Len(chans'[r]) \in subscribers'[r]
      BY <1>5, <2>1 DEF Channel
    <2>4. Blocked(r)'
      BY <1>2, <2>3 DEF Blocked, Open
    <2>5. Unrestored => request[r].seen = version[r]
      BY <1>1, <1>8 DEF Good, UpToDate, HasNews
    <2>6. Unrestored' => UpToDate(r)'
      BY <1>1, <1>2, <2>4, <2>5 DEF Good, UpToDate, UnreadIsNews, replicaVars, Unrestored, Generation, Stored
    <2>7. Good(r)'
      BY <2>2, <2>3, <2>6 DEF Good
    <2> QED
      BY <1>1, <1>2, <1>4, <2>7, Frame DEF replicaVars, Generation, Stored
  <1> QED
    BY <1>7, <1>8

LEMMA ReceiveGood ==
    ASSUME TypeOK, NEW r \in Request, \A q \in Request : Good(q), Receive(r)
    PROVE  /\ \A q \in Request : Good(q)'
           /\ \A q \in Request \ {r} : request'[q] = request[q]
           /\ Unrestored => request'[r].seen > request[r].seen
  <1> DEFINE e == Head(Channel(r).entries)
  <1>1. PICK at \in {"answered", "subscribing"} : Goto(r, at, e.version)
    BY DEF Receive
  <1>2. /\ UNCHANGED <<replicaVars, subscribers>>
        /\ Taken(r) /\ request[r].at = "waiting" /\ ~Blocked(r)
    BY DEF Receive
  <1>3. chans[r] # <<>> /\ e.version \in Nat
    BY <1>2, RequestTyped, UnreadTyped
  <1>4. /\ request'[r] = [at |-> at, seen |-> e.version]
        /\ \A q \in Request \ {r} : request'[q] = request[q]
    BY <1>1, <1>3, GotoTyped DEF Phase
  <1>5. /\ \A q \in Request \ {r} : chans'[q] = chans[q]
        /\ \A k \in DOMAIN chans[r] \ {Len(chans[r])} : chans'[r][k] = chans[r][k]
    BY <1>2, <1>3, TakenTyped
  <1>6. Len(chans[r]) \notin subscribers[r]
    BY <1>2 DEF Good, Blocked, Channel, Open
  <1>7. \A k \in subscribers[r] : chans'[r][k] = chans[r][k]
    BY <1>5, <1>6, RequestTyped
  <1>8. Unrestored => request[r].seen < e.version /\ e.version <= version[r]
    BY <1>2 DEF Good, UpToDate, UnreadIsNews
  <1>9. Good(r)'
    BY <1>1, <1>2, <1>4, <1>7, <1>8, NotWaiting
  <1>10. ASSUME NEW q \in Request \ {r}
         PROVE  Good(q)'
    BY <1>2, <1>4, <1>5, Frame DEF replicaVars, Generation, Stored
  <1>11. Unrestored => request'[r].seen > request[r].seen
    <2>1. request'[r].seen = e.version
      BY <1>4
    <2>2. request[r].seen \in Nat
      BY RequestTyped
    <2> QED
      BY <1>3, <1>8, <2>1, <2>2
  <1> QED
    BY <1>4, <1>9, <1>10, <1>11

(* Whoever is blocked on the task finds the new version in its channel. *)
LEMMA StoreGood ==
    ASSUME TypeOK, NEW r \in Request, NEW s \in Active \cup Ended, Store(r, s),
           UNCHANGED request, \A q \in Request : Good(q)
    PROVE  \A q \in Request : Good(q)'
  <1> DEFINE e == [version |-> version[r] + 1, record |-> Generation]
  <1>1. version[r] \in Nat /\ request[r].seen \in Nat
    BY RequestTyped
  <1>2. e \in Entry /\ NotifySubscribers(r, e)
    BY <1>1, EntryTyped DEF Store
  <1>3. /\ Len(chans'[r]) = Len(chans[r])
        /\ \A q \in Request \ {r} : chans'[q] = chans[q] /\ subscribers'[q] = subscribers[q]
        /\ \A k \in DOMAIN chans[r] :
              chans'[r][k] = IF k \in subscribers[r] THEN Send(chans[r][k], e) ELSE chans[r][k]
        /\ subscribers'[r] = {}
    BY <1>2, NotifyTyped
  <1>4. /\ version'[r] = version[r] + 1
        /\ \A q \in Request \ {r} : version'[q] = version[q]
    BY DEF Store, TypeOK
  <1>5. /\ Generation' = Generation /\ Stored(r)' = s
        /\ \A q \in Request \ {r} : Stored(q)' = Stored(q)
    <2>1. /\ records \in Seq([Request -> Active \cup Ended \cup {"absent"}])
          /\ Generation \in DOMAIN records
      BY DEF TypeOK, Generation
    <2>2. records' = [records EXCEPT ![Generation] = [records[Generation] EXCEPT ![r] = s]]
      BY DEF Store
    <2>3. Len(records') = Len(records)
      BY <2>1, <2>2
    <2>4. records'[Generation] = [records[Generation] EXCEPT ![r] = s]
      BY <2>1, <2>2
    <2>5. records[Generation] \in [Request -> Active \cup Ended \cup {"absent"}]
      BY <2>1
    <2> QED
      BY <2>3, <2>4, <2>5 DEF Generation, Stored
  <1>6. ASSUME NEW q \in Request \ {r}
        PROVE  Good(q)'
    BY <1>3, <1>4, <1>5, Frame
  <1>7. Good(r)'
    <2>1. request'[r].at = "waiting" => ~Blocked(r)' /\ (Unrestored => UnreadIsNews(r)')
      <3> SUFFICES ASSUME request[r].at = "waiting"
                   PROVE  /\ ~Blocked(r)'
                          /\ Unrestored => UnreadIsNews(r)'
        BY DEF Unrestored
      <3>1. Len(chans[r]) \in DOMAIN chans[r]
        <4>1. chans[r] \in Seq(ChannelState) /\ chans[r] # <<>>
          BY RequestTyped DEF Channels
        <4> QED
          BY <4>1
      <3>2. CASE Blocked(r)
        <4>0. chans[r][Len(chans[r])] = Open /\ Len(chans[r]) \in subscribers[r]
          BY <3>2 DEF Good
        <4>1. Channel(r)' = Holding(e)
          <5>1. Open.entries = <<>>
            BY DEF Open
          <5> QED
            BY <1>3, <3>1, <4>0, <5>1 DEF Channel, Send
        <4>2. Channel(r)'.entries # <<>> /\ Head(Channel(r)'.entries) = e
          BY <4>1 DEF Holding
        <4>3. Unrestored => request[r].seen = version[r]
          BY <3>2 DEF Good, UpToDate
        <4> QED
          BY <1>1, <1>4, <4>2, <4>3 DEF Blocked, UnreadIsNews
      <3>3. CASE ~Blocked(r)
        <4>1. Channel(r).entries # <<>>
          BY <3>3 DEF Blocked
        <4>2. Channel(r)' = Channel(r)
          BY <1>3, <3>1, <4>1 DEF Good, Channel, Open
        <4>3. Head(Channel(r).entries).version \in Nat
          BY <3>3, UnreadTyped
        <4>4. Unrestored => /\ request[r].seen < Head(Channel(r).entries).version
                            /\ Head(Channel(r).entries).version <= version[r]
          BY <3>3 DEF Good, UpToDate, UnreadIsNews
        <4> QED
          BY <1>1, <1>4, <4>1, <4>2, <4>3, <4>4 DEF Blocked, UnreadIsNews
      <3> QED
        BY <3>2, <3>3
    <2>2. Unrestored => request[r].seen <= version'[r]
      BY <1>1, <1>4 DEF Good, UpToDate
    <2>3. Stored(r)' # "absent"
      BY <1>5 DEF Active, Ended
    <2>4. Unrestored' = Unrestored /\ ~Blocked(r)'
      BY <1>5, <2>1 DEF Unrestored, Blocked
    <2>5. Unrestored' => UpToDate(r)'
      BY <2>1, <2>2, <2>3, <2>4 DEF UpToDate, UnreadIsNews
    <2> QED
      BY <1>3, <2>4, <2>5 DEF Good
  <1> QED
    BY <1>6, <1>7

LEMMA ApplyGood ==
    ASSUME TypeOK, Apply, \A q \in Request : Good(q)
    PROVE  \A q \in Request : Good(q)'
  <1> DEFINE c == log[applied + 1]
  <1>1. c.task \in Request /\ c.status \in Active \cup Ended
    <2>1. log \in Seq(Command) /\ applied + 1 \in 1 .. Len(log)
      BY DEF TypeOK, Apply
    <2>2. c \in Command
      BY <2>1
    <2> QED
      BY <2>2 DEF Command
  <1>2. CASE UNCHANGED <<records, version, subscribers, chans>>
    BY <1>2, Frame DEF Apply, Generation, Stored
  <1>3. CASE Store(c.task, c.status)
    BY <1>1, <1>3, StoreGood DEF Apply
  <1> QED
    BY <1>2, <1>3 DEF Apply

(* A restore touches no channel; afterwards versions mean nothing. *)
LEMMA RestoreGood ==
    ASSUME TypeOK, NEW i, NEW read, Restore(i, read), \A q \in Request : Good(q)
    PROVE  \A q \in Request : Good(q)'
  <1>1. ~Unrestored'
    <2>1. records \in Seq([Request -> Active \cup Ended \cup {"absent"}]) /\ Len(records) >= 1
      BY DEF TypeOK
    <2>2. records' = Append(records, [r \in Request |-> Restored(StatusAt(r, read[r]))])
      BY DEF Restore
    <2>3. Len(records') = Len(records) + 1
      BY <2>1, <2>2
    <2> QED
      BY <2>1, <2>3 DEF Unrestored, Generation
  <1> QED
    BY <1>1 DEF Restore, Good, Blocked, Channel

-----------------------------------------------------------------------------
LEMMA Invariance == Spec => []IInv
  <1>1. Init => IInv
    <2> SUFFICES ASSUME Init, NEW r \in Request
                 PROVE  Good(r)
      BY InitTypeOK DEF IInv
    <2>1. /\ request[r].at = "submitting" /\ request[r].seen = 0
          /\ version[r] = 0 /\ subscribers[r] = {}
      BY DEF Init
    <2> QED
      BY <2>1 DEF Good, UpToDate, UnreadIsNews, Blocked
  <1>2. IInv /\ [Next]_vars => IInv'
    <2> SUFFICES ASSUME TypeOK, \A q \in Request : Good(q), [Next]_vars, TypeOK'
                 PROVE  \A q \in Request : Good(q)'
      BY StepTypeOK DEF IInv
    <2>1. CASE UNCHANGED vars
      BY <2>1, Frame DEF vars, replicaVars, Generation, Stored
    <2>2. ASSUME NEW r \in Request,
                 Admit(r) \/ \E s \in Ended \cup {"proposal"} : Update(r, s)
          PROVE  \A q \in Request : Good(q)'
      <3>1. UNCHANGED <<applied, records, version, subscribers, chans, request>>
        BY <2>2 DEF Admit, Update
      <3> QED
        BY <3>1, Frame DEF Generation, Stored
    <2>3. ASSUME NEW r \in Request, SubmitReturns(r) \/ SubmitFails(r) \/ Cancel(r)
          PROVE  \A q \in Request : Good(q)'
      BY <2>3, SubmitGood
    <2>4. ASSUME NEW r \in Request, Subscribe(r)
          PROVE  \A q \in Request : Good(q)'
      BY <2>4, SubscribeGood
    <2>5. ASSUME NEW r \in Request, Receive(r)
          PROVE  \A q \in Request : Good(q)'
      BY <2>5, ReceiveGood
    <2>6. CASE Apply
      BY <2>6, ApplyGood
    <2>7. ASSUME NEW i \in applied + 1 .. Len(log), InstallSnapshot(i)
          PROVE  \A q \in Request : Good(q)'
      BY <2>7, RestoreGood DEF InstallSnapshot
    <2> QED
      BY <2>1, <2>2, <2>3, <2>4, <2>5, <2>6, <2>7 DEF Next, Handler
  <1> QED
    BY <1>1, <1>2, PTL DEF Spec

(***************************************************************************)
(* The types, so that a handler that waits has a channel to wait on.       *)
(***************************************************************************)
THEOREM RequestsTypeCorrect == Spec => []TypeOK
  <1>1. IInv => TypeOK
    BY DEF IInv
  <1> QED
    BY <1>1, Invariance, PTL

(***************************************************************************)
(* notifySubscribers finds every channel it sends on open and empty.       *)
(***************************************************************************)
THEOREM SubscribersAlwaysOpen == Spec => []SubscribersOpen
  <1>1. IInv => SubscribersOpen
    BY DEF IInv, Good, SubscribersOpen
  <1> QED
    BY <1>1, Invariance, PTL

(***************************************************************************)
(* A blocked request is among the subscribers of its task.                 *)
(***************************************************************************)
THEOREM BlockedAlwaysRegistered == Spec => []BlockedIsRegistered
  <1>1. IInv => BlockedIsRegistered
    BY DEF IInv, Good, BlockedIsRegistered
  <1> QED
    BY <1>1, Invariance, PTL

(***************************************************************************)
(* Between two calls of WaitForEvent no update of the task is lost, until  *)
(* a snapshot is installed.                                                *)
(***************************************************************************)
THEOREM BlockedAlwaysUpToDate == Spec => []BlockedIsUpToDate
  <1>1. IInv => BlockedIsUpToDate
    BY DEF IInv, Good, UpToDate, BlockedIsUpToDate
  <1> QED
    BY <1>1, Invariance, PTL

(***************************************************************************)
(* waitForTask never goes round its loop on a version it has seen.         *)
(***************************************************************************)
THEOREM VersionsAlwaysIncrease == Spec => VersionsIncrease
  <1> DEFINE Increase == Unrestored => \A r \in Request :
                            Continues(r) => request'[r].seen > request[r].seen
  <1>1. IInv /\ [Next]_vars => [Increase]_vars
    <2> SUFFICES ASSUME TypeOK, \A q \in Request : Good(q), Next, Unrestored,
                        NEW q \in Request, Continues(q)
                 PROVE  request'[q].seen > request[q].seen
      BY DEF IInv
    <2>1. request'[q] # request[q]
      BY DEF Continues
    <2>2. ASSUME NEW r \in Request, SubmitReturns(r) \/ SubmitFails(r) \/ Cancel(r) \/ Subscribe(r)
          PROVE  FALSE
      <3>1. PICK at \in Phase, seen \in Nat :
               /\ Goto(r, at, seen)
               /\ at = "subscribing" => request[r].at = "submitting"
        <4>1. request[r].seen \in Nat
          BY RequestTyped
        <4> QED
          BY <2>2, <4>1 DEF SubmitReturns, SubmitFails, Cancel, Subscribe, Phase
      <3>2. /\ request'[r] = [at |-> at, seen |-> seen]
            /\ \A p \in Request \ {r} : request'[p] = request[p]
        BY <3>1, GotoTyped
      <3>3. q = r
        BY <2>1, <3>2
      <3> QED
        BY <3>1, <3>2, <3>3 DEF Continues
    <2>3. ASSUME NEW r \in Request, Receive(r)
          PROVE  request'[q].seen > request[q].seen
      BY <2>1, <2>3, ReceiveGood
    <2>4. request' # request
      BY <2>1
    <2> QED
      BY <2>2, <2>3, <2>4 DEF Next, Handler, Admit, Update, Apply, InstallSnapshot, Restore
  <1> QED
    BY <1>1, Invariance, PTL DEF Spec, VersionsIncrease
=============================================================================
