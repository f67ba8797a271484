--------------------------- MODULE ElectionProofs ---------------------------
(***************************************************************************)
(* What Election promises holds for any number of nodes, any quorum that   *)
(* is a majority, and any bounds.                                          *)
(*                                                                         *)
(* TurnInv is about nodes whose handlers take turns, crashes included:     *)
(* what a node judges still fits its term and its vote when the vote is    *)
(* stored.  OrderInv is about nodes that stay up besides, and follows a    *)
(* vote from the request to the count: it is cast once, answered once,     *)
(* queued once and counted once.  A leader then has votes of a majority,   *)
(* and two majorities have a voter in common.                              *)
(***************************************************************************)
EXTENDS Election, Functions, FiniteSetTheorems, TLAPS

-----------------------------------------------------------------------------
(* The invariant *)

\* The vote a request asks for, and the vote an answer stands for.
Asked(m) == [voter |-> m.to, to |-> m.from, term |-> m.term]
Given(m) == [voter |-> m.from, to |-> m.to, term |-> m.term]

Led(n, t) == \E l \in leaders : l.node = n /\ l.term = t

Heard(n, t) == [node |-> n, term |-> t] \in heard

NoneLate == \A n \in Nodes : late[n] = {}

\* A request found good is the only one, and stays good until it is answered.
JudgedOK ==
  \A n \in Nodes : \A m \in judging[n] :
    /\ judging[n] = {m}
    /\ m.kind = "vote" /\ m.to = n /\ m.from # n
    /\ m.term = term[n] /\ votedFor[n] \in {None, m.from}

\* Nobody sends to itself, and history knows the heartbeats.
SentOK ==
  \A m \in messages :
    /\ m.kind \in {"vote", "heartbeat"} => m.from # m.to
    /\ m.kind = "heartbeat" => Heard(m.from, m.term)

\* A candidate has its own vote and a timer that fires, unless a heartbeat of
\* its term from elsewhere had it reset; a leader leads its term.
RolesOK ==
  \A n \in Nodes :
    /\ role[n] # Follower =>
         /\ votedFor[n] = n
         /\ \/ electionTimer[n] = "watched"
            \/ \E p \in Nodes \ {n} : Heard(p, term[n])
    /\ role[n] = Leader => Led(n, term[n])

DeadIdle == \A n \in Nodes : ~alive[n] => judging[n] = {}

TurnInv == ~overlap => NoneLate /\ JudgedOK /\ SentOK /\ RolesOK /\ DeadIdle

AllAlive == \A n \in Nodes : alive[n]

\* VoteOnce, of the nodes whose handlers take turns.
OnceOK ==
  \A v, w \in votes : v.voter = w.voter /\ v.term = w.term => v.to = w.to

\* No vote is of a term that its voter or its candidate has not reached, and a
\* voter remembers its vote of the present term.
VotesOK ==
  \A v \in votes :
    /\ v.term <= term[v.voter] /\ v.term <= term[v.to]
    /\ v.term = term[v.voter] => v.to = votedFor[v.voter]

\* A vote is asked for once and has not been cast while it is asked for.
RequestsOK ==
  /\ \A m \in messages : m.kind = "vote" =>
       /\ m.term <= term[m.from] /\ Asked(m) \notin votes
       /\ \A o \in messages : o.kind = "vote" /\ Asked(o) = Asked(m) => o = m
  /\ \A n \in Nodes : \A m \in judging[n] :
       /\ m.term <= term[m.from] /\ Asked(m) \notin votes
       /\ \A o \in messages : o.kind = "vote" => Asked(o) # Asked(m)

\* A vote on its way has been cast, and is neither queued nor counted.
AnswersOK ==
  \A m \in messages : m.kind = "grant" =>
    /\ Given(m) \in votes /\ Given(m) \notin counted[m.to]
    /\ \A i \in 1..Len(voteRing[m.to]) : voteRing[m.to][i] # Given(m)

\* The votes queued at a node are different votes for it, not yet counted.
QueuedOK ==
  \A n \in Nodes : \A i \in 1..Len(voteRing[n]) :
    /\ voteRing[n][i] \in votes /\ voteRing[n][i].to = n
    /\ voteRing[n][i] \notin counted[n]
    /\ \A j \in 1..Len(voteRing[n]) : voteRing[n][j] = voteRing[n][i] => j = i

\* votesReceived counts different votes for the node.
CountedOK ==
  \A n \in Nodes :
    /\ counted[n] \subseteq votes /\ \A v \in counted[n] : v.to = n
    /\ IsFiniteSet(counted[n]) /\ Cardinality(counted[n]) = votesReceived[n]

\* A leader was made by as many votes for it as make a quorum.
LeadersOK ==
  \A l \in leaders :
    /\ l.votes \subseteq votes /\ \A v \in l.votes : v.to = l.node
    /\ IsFiniteSet(l.votes) /\ Cardinality(l.votes) >= QuorumSize

OrderInv ==
  Orderly => /\ AllAlive /\ OnceOK /\ VotesOK /\ RequestsOK /\ AnswersOK
             /\ QueuedOK /\ CountedOK /\ LeadersOK

IInv == TypeOK /\ TurnInv /\ OrderInv

-----------------------------------------------------------------------------
(* Types *)

\* Every message has a sender, a receiver and a term.
LEMMA MessageFields ==
  ASSUME NEW m \in Message
  PROVE  m.from \in Nodes /\ m.to \in Nodes /\ m.term \in Nat
  BY DEF Message

LEMMA VotesNeededType ==
  ASSUME NEW n \in Nodes
  PROVE  VotesNeeded(n) \in Nat /\ VotesNeeded(n) >= QuorumSize
<1>1. IsFiniteSet(Peers(n))
  BY ElectionAssumption, FS_Subset DEF Peers
<1>2. Cardinality(Peers(n)) \in Nat
  BY <1>1, FS_CardinalityType
<1>3. Cardinality(Peers(n)) \div 2 + 1 \in Nat
  BY <1>2, SMT
<1> QED BY <1>3, ElectionAssumption DEF VotesNeeded

LEMMA EventType ==
  ASSUME TypeOK, Event
  PROVE  events' \in 0..MaxEvents
  BY ElectionAssumption DEF TypeOK, Event

LEMMA InitType == Init => TypeOK
  BY ElectionAssumption DEF Init, TypeOK, Log, Follower, Candidate, Leader

LEMMA TickType ==
  ASSUME TypeOK, UNCHANGED overlap, NEW n \in Nodes, Tick(n)
  PROVE  TypeOK'
<1> USE DEF TypeOK, Peers, Follower, Candidate, Leader
<1>1. CASE StartElection(n)
  <2>1. messages' \subseteq Message
    BY <1>1 DEF StartElection, Message, Log
  <2>2. votes' \subseteq Vote /\ counted' \in [Nodes -> SUBSET Vote]
    BY <1>1 DEF StartElection, Vote
  <2>3. leaders' \in SUBSET [node : Nodes, term : Nat, votes : SUBSET Vote]
    BY <1>1, <2>2 DEF StartElection, Promoted
  <2>4. events' \in 0..MaxEvents
    BY <1>1, EventType DEF StartElection
  <2>5. /\ role' \in [Nodes -> {Follower, Candidate, Leader}]
        /\ term' \in [Nodes -> Nat]
        /\ votedFor' \in [Nodes -> Nodes \cup {None}]
        /\ votesReceived' \in [Nodes -> Nat]
        /\ heartbeatTimer' \in [Nodes -> {"stopped", "watched", "replaced", "both"}]
    BY <1>1 DEF StartElection, Watched
  <2>6. UNCHANGED <<lastLog, electionTimer, voteRing, drainers, alive, restarts, late,
                    judging, beats, heard>>
    BY <1>1 DEF StartElection, life, running, sending
  <2> QED BY <2>1, <2>2, <2>3, <2>4, <2>5, <2>6
<1>2. CASE HeartbeatTick(n)
  <2>1. beats' \in [Nodes -> [Nodes -> Nat]]
    <3>1. beats[n] \in [Nodes -> Nat]
      OBVIOUS
    <3>2. [p \in Nodes |-> IF p \in Peers(n) THEN beats[n][p] + 1 ELSE beats[n][p]]
            \in [Nodes -> Nat]
      BY <3>1
    <3>3. beats' \in {beats, [beats EXCEPT ![n] =
            [p \in Nodes |-> IF p \in Peers(n) THEN beats[n][p] + 1 ELSE beats[n][p]]]}
      BY <1>2 DEF HeartbeatTick
    <3> QED BY <3>2, <3>3
  <2>2. events' \in 0..MaxEvents
    BY <1>2, EventType DEF HeartbeatTick
  <2> QED BY <1>2, <2>1, <2>2 DEF HeartbeatTick, node, ring, life, history, running, sending
<1>3. CASE SyncTick(n)
  <2>1. messages' \subseteq Message
    BY <1>3 DEF SyncTick, Message
  <2>2. events' \in 0..MaxEvents
    BY <1>3, EventType DEF SyncTick
  <2> QED BY <1>3, <2>1, <2>2 DEF SyncTick, node, timers, ring, life, history, running, sending
<1> QED BY <1>1, <1>2, <1>3 DEF Tick

LEMMA ReceiveType ==
  ASSUME TypeOK, UNCHANGED overlap, NEW n \in Nodes, NEW m \in messages, Receive(n, m)
  PROVE  TypeOK'
<1> USE DEF TypeOK, Follower, Candidate, Leader
<1>0. m \in Message /\ m.from \in Nodes /\ m.to \in Nodes /\ m.term \in Nat
  BY MessageFields
<1>1. CASE Judge(n, m)
  <2>1. judging' \in [Nodes -> SUBSET Message]
    BY <1>0, <1>1 DEF Judge
  <2> QED BY <1>0, <1>1, <2>1 DEF Judge, StepDownTo, ring, life, history, running, sending
<1>2. CASE PublishVote(n, m)
  <2>1. [voter |-> m.from, to |-> n, term |-> m.term] \in Vote
    BY <1>0 DEF Vote
  <2>2. voteRing' \in [Nodes -> Seq(Vote)]
    BY <1>2, <2>1 DEF PublishVote
  <2> QED BY <1>2, <2>2 DEF PublishVote, node, timers, life, history, running, sending
<1>3. CASE ReceiveHeartbeat(n, m)
  BY <1>0, <1>3 DEF ReceiveHeartbeat, StepDownTo, ring, life, history, running, sending
<1>4. CASE ReceiveSync(n, m)
  BY <1>0, <1>4 DEF ReceiveSync, StepDownTo, ring, life, history, running, sending
<1>5. CASE Load(n, m)
  <2> DEFINE h == [m |-> m, seen |-> term[n],
                   at |-> CASE m.term > term[n] -> "role"
                            [] m.kind = "vote" -> "judge"
                            [] OTHER -> "reset"]
  <2>1. h \in Handler
    BY <1>0 DEF Handler
  <2>2. late' = [late EXCEPT ![n] = late[n] \cup {h}]
    BY <1>5 DEF Load
  <2>3. late' \in [Nodes -> SUBSET Handler]
    BY <2>1, <2>2
  <2> QED BY <1>5, <2>3 DEF Load, node, timers, ring, life, history, sending
<1> QED BY <1>1, <1>2, <1>3, <1>4, <1>5 DEF Receive

LEMMA ContinueType ==
  ASSUME TypeOK, UNCHANGED overlap, NEW n \in Nodes, NEW h \in late[n], Continue(n, h)
  PROVE  TypeOK'
<1> USE DEF TypeOK, Follower, Candidate, Leader
<1>0. h \in Handler /\ h.m \in Message /\ h.m.from \in Nodes /\ h.m.term \in Nat
  <2>1. h \in Handler /\ h.m \in Message
    BY DEF Handler
  <2> QED BY <2>1, MessageFields
<1>1. \A at \in {"term", "votedFor", "judge"} : [h EXCEPT !.at = at] \in Handler
  BY <1>0 DEF Handler
<1>t. /\ late \in [Nodes -> SUBSET Handler] /\ judging \in [Nodes -> SUBSET Message]
      /\ messages \subseteq Message
  OBVIOUS
<1> HIDE DEF TypeOK, Follower, Candidate, Leader
<1>2. late' \in [Nodes -> SUBSET Handler]
  <2>1. CASE StoreRole(n, h)
    BY <1>1, <1>t, <2>1 DEF StoreRole
  <2>2. CASE StoreTerm(n, h)
    BY <1>1, <1>t, <2>2 DEF StoreTerm
  <2>3. CASE ClearVote(n, h)
    BY <1>1, <1>t, <2>3 DEF ClearVote
  <2>4. CASE JudgeLate(n, h)
    BY <1>t, <2>4 DEF JudgeLate
  <2>5. CASE ResetLate(n, h)
    BY <1>t, <2>5 DEF ResetLate
  <2> QED BY <2>1, <2>2, <2>3, <2>4, <2>5 DEF Continue
<1>3. Answers(n, h.m) \subseteq Message
  BY <1>0 DEF Answers, Message
<1>4. messages' \subseteq Message
  BY <1>3, <1>t DEF Continue, StoreRole, StoreTerm, ClearVote, JudgeLate, ResetLate
<1>5. judging' \in [Nodes -> SUBSET Message]
  <2>1. CASE JudgeLate(n, h)
    BY <1>0, <1>t, <2>1 DEF JudgeLate
  <2>2. CASE ~JudgeLate(n, h)
    BY <1>t, <2>2 DEF Continue, StoreRole, StoreTerm, ClearVote, ResetLate
  <2> QED BY <2>1, <2>2
<1> USE DEF TypeOK, Follower, Candidate, Leader
<1>6. /\ role' \in [Nodes -> {Follower, Candidate, Leader}]
      /\ term' \in [Nodes -> Nat]
      /\ votedFor' \in [Nodes -> Nodes \cup {None}]
      /\ electionTimer' \in [Nodes -> {"watched", "replaced"}]
  BY <1>0 DEF Continue, StoreRole, StoreTerm, ClearVote, JudgeLate, ResetLate
<1>7. UNCHANGED <<events, votesReceived, lastLog, heartbeatTimer, voteRing, drainers,
                  counted, alive, restarts, beats, heard, votes, leaders>>
  BY DEF Continue, ring, life, sending, history
<1> QED BY <1>2, <1>4, <1>5, <1>6, <1>7

LEMMA SendHeartbeatType ==
  ASSUME TypeOK, UNCHANGED overlap, NEW n \in Nodes, NEW p \in Peers(n),
         SendHeartbeat(n, p)
  PROVE  TypeOK'
<1> USE DEF TypeOK, Peers
<1>1. beats' \in [Nodes -> [Nodes -> Nat]]
  <2>1. beats[n] \in [Nodes -> Nat] /\ beats[n][p] - 1 \in Nat
    BY DEF SendHeartbeat
  <2>2. [beats[n] EXCEPT ![p] = beats[n][p] - 1] \in [Nodes -> Nat]
    BY <2>1
  <2>3. beats' = [beats EXCEPT ![n] = [beats[n] EXCEPT ![p] = beats[n][p] - 1]]
    BY DEF SendHeartbeat
  <2> QED BY <2>2, <2>3
<1>2. messages' \subseteq Message
  <2>1. [kind |-> "heartbeat", from |-> n, to |-> p, term |-> term[n]] \in Message
    BY DEF Message
  <2> QED BY <2>1 DEF SendHeartbeat
<1>3. heard' \subseteq [node : Nodes, term : Nat]
  BY DEF SendHeartbeat
<1> QED BY <1>1, <1>2, <1>3
        DEF SendHeartbeat, node, timers, ring, life, running, history

LEMMA FinishType ==
  ASSUME TypeOK, UNCHANGED overlap, NEW n \in Nodes, Finish(n)
  PROVE  TypeOK'
<1> USE DEF TypeOK, Follower, Candidate, Leader
<1>1. CASE DrainStops(n)
  <2>1. voteRing[n] # <<>> => Tail(voteRing[n]) \in Seq(Vote)
    OBVIOUS
  <2>2. voteRing' \in [Nodes -> Seq(Vote)]
    BY <1>1, <2>1 DEF DrainStops
  <2>3. drainers' \in [Nodes -> Nat]
    BY <1>1 DEF DrainStops
  <2> QED BY <1>1, <2>2, <2>3 DEF DrainStops, node, timers, life, history, running, sending
<1>2. CASE DrainVote(n)
  <2>1. Head(voteRing[n]) \in Vote /\ Tail(voteRing[n]) \in Seq(Vote)
    BY <1>2 DEF DrainVote
  <2>2. counted' \in [Nodes -> SUBSET Vote]
    BY <1>2, <2>1 DEF DrainVote
  <2>3. leaders' \in SUBSET [node : Nodes, term : Nat, votes : SUBSET Vote]
    BY <1>2, <2>2 DEF DrainVote
  <2>4. heartbeatTimer' \in [Nodes -> {"stopped", "watched", "replaced", "both"}]
    BY <1>2 DEF DrainVote, Renewed
  <2>5. voteRing' \in [Nodes -> Seq(Vote)]
    BY <1>2, <2>1 DEF DrainVote
  <2>6. drainers' \in [Nodes -> Nat]
    <3> USE DEF TypeOK
    <3>1. drainers[n] > 0 /\ drainers \in [Nodes -> Nat]
      BY <1>2 DEF DrainVote
    <3>2. \/ drainers' = drainers
          \/ drainers' = [drainers EXCEPT ![n] = drainers[n] - 1]
      BY <1>2 DEF DrainVote
    <3> HIDE DEF TypeOK
    <3>3. \A a \in Nat : a > 0 => a - 1 \in Nat
      OBVIOUS
    <3>4. drainers[n] - 1 \in Nat
      BY <3>1, <3>3
    <3> QED BY <3>1, <3>2, <3>4
  <2>7. role' \in [Nodes -> {Follower, Candidate, Leader}]
    <3>1. \/ role' = role
          \/ role' = [role EXCEPT ![n] = Leader]
      BY <1>2 DEF DrainVote
    <3> QED BY <3>1
  <2> QED BY <1>2, <2>2, <2>3, <2>4, <2>5, <2>6, <2>7 DEF DrainVote, life, running, sending
<1>3. ASSUME NEW m \in judging[n], Grant(n, m)
      PROVE  TypeOK'
  <2>1. m.from \in Nodes /\ m.term \in Nat
    BY <1>3, MessageFields
  <2>2. messages' \subseteq Message /\ votes' \subseteq Vote
    BY <1>3, <2>1 DEF Grant, Message, Vote
  <2>3. judging' \in [Nodes -> SUBSET Message]
    BY <1>3 DEF Grant
  <2> QED BY <1>3, <2>1, <2>2, <2>3 DEF Grant, ring, life, running, sending
<1> QED BY <1>1, <1>2, <1>3, ContinueType, SendHeartbeatType DEF Finish

LEMMA OtherType ==
  ASSUME TypeOK, UNCHANGED overlap, NEW n \in Nodes,
         ReceiveInsert(n) \/ Crash(n) \/ Restart(n)
  PROVE  TypeOK'
<1> USE DEF TypeOK, Follower, Candidate, Leader
<1>1. CASE ReceiveInsert(n)
  <2>1. lastLog' \in [Nodes -> Log]
    BY <1>1, ElectionAssumption DEF ReceiveInsert, Log, Peers
  <2> QED BY <1>1, <2>1, EventType DEF ReceiveInsert, timers, ring, life, history, running, sending
<1>2. CASE Crash(n)
  <2>1. /\ late' \in [Nodes -> SUBSET Handler] /\ judging' \in [Nodes -> SUBSET Message]
        /\ beats' \in [Nodes -> [Nodes -> Nat]] /\ messages' \subseteq Message
    BY <1>2 DEF Crash
  <2>2. /\ voteRing' \in [Nodes -> Seq(Vote)] /\ drainers' \in [Nodes -> Nat]
        /\ alive' \in [Nodes -> BOOLEAN] /\ restarts' \in Nat
    BY <1>2 DEF Crash
  <2>3. UNCHANGED <<role, term, votedFor, votesReceived, lastLog, electionTimer,
                    heartbeatTimer, counted, heard, votes, leaders>>
    BY <1>2 DEF Crash, node, timers, history
  <2>4. events' \in 0..MaxEvents
    BY <1>2, EventType DEF Crash
  <2> QED BY <2>1, <2>2, <2>3, <2>4
<1>3. CASE Restart(n)
  BY <1>3 DEF Restart, Log, history, running, sending
<1> QED BY <1>1, <1>2, <1>3

LEMMA TypeStep == TypeOK /\ [Next]_vars => TypeOK'
<1> SUFFICES ASSUME TypeOK, [Next]_vars PROVE TypeOK'
  OBVIOUS
<1>1. ASSUME NEW n \in Nodes, Step(n), UNCHANGED overlap PROVE TypeOK'
  BY <1>1, TickType, ReceiveType, FinishType, OtherType DEF Step
<1>2. CASE UNCHANGED vars
  BY <1>2 DEF TypeOK, vars, node, timers, ring, life, history, running, sending
<1> QED BY <1>1, <1>2 DEF Next
-----------------------------------------------------------------------------
(* Handlers that take turns *)

\* What the lemmas about TurnInv start from.
Turns == /\ TypeOK /\ TypeOK' /\ ~overlap /\ overlap' = overlap
         /\ NoneLate /\ NoneLate'
         /\ JudgedOK /\ SentOK /\ RolesOK /\ DeadIdle

LEMMA LedStays ==
  ASSUME leaders \subseteq leaders', NEW n, NEW t, Led(n, t)
  PROVE  Led(n, t)'
  BY DEF Led

\* A node on whose behalf something starts has no request in hand.
LEMMA FreeIdle ==
  ASSUME Turns, NEW n \in Nodes, Free(n)
  PROVE  alive[n] /\ judging[n] = {}
  BY DEF Turns, Free

\* Only n is changed, it judges nothing, and it is a follower or as it was.
LEMMA OthersTurn ==
  ASSUME Turns, NEW n \in Nodes, judging' = judging, alive' = alive,
         judging[n] = {}, leaders' = leaders, heard' = heard,
         messages' \subseteq messages,
         \A p \in Nodes \ {n} :
            /\ role'[p] = role[p] /\ term'[p] = term[p]
            /\ votedFor'[p] = votedFor[p] /\ electionTimer'[p] = electionTimer[p],
         role'[n] = Follower
  PROVE  TurnInv'
<1> USE DEF Turns
<1>1. JudgedOK'
  BY DEF JudgedOK
<1>2. SentOK'
  BY DEF SentOK, Led, Heard
<1>3. RolesOK'
  BY DEF RolesOK, Led, Heard, Follower, Leader
<1>4. DeadIdle'
  BY DEF DeadIdle
<1> QED BY <1>1, <1>2, <1>3, <1>4 DEF TurnInv

LEMMA StartElectionTurn ==
  ASSUME Turns, NEW n \in Nodes, StartElection(n)
  PROVE  TurnInv'
<1> USE DEF Turns
<1>0. judging[n] = {} /\ leaders \subseteq leaders' /\ heard' = heard
  BY FreeIdle DEF StartElection, Promoted, sending
<1>1. JudgedOK'
  <2>1. judging' = judging
    BY DEF StartElection, running
  <2>2. \A p \in Nodes \ {n} : term'[p] = term[p] /\ votedFor'[p] = votedFor[p]
    BY DEF StartElection, TypeOK
  <2> QED BY <1>0, <2>1, <2>2 DEF JudgedOK
<1>2. SentOK'
  <2> SUFFICES ASSUME NEW m \in messages'
               PROVE  /\ m.kind \in {"vote", "heartbeat"} => m.from # m.to
                      /\ m.kind = "heartbeat" => Heard(m.from, m.term)'
    BY DEF SentOK
  <2>1. CASE m \in messages
    BY <1>0, <2>1 DEF SentOK, Heard
  <2>2. CASE m \notin messages
    BY <2>2 DEF StartElection, Peers
  <2> QED BY <2>1, <2>2
<1>3. RolesOK'
  <2> SUFFICES ASSUME NEW p \in Nodes
               PROVE  /\ role'[p] # Follower =>
                           /\ votedFor'[p] = p
                           /\ \/ electionTimer'[p] = "watched"
                              \/ \E q \in Nodes \ {p} : Heard(q, term[p])'
                      /\ role'[p] = Leader => Led(p, term[p])'
    BY DEF RolesOK
  <2>1. CASE p # n
    <3>1. /\ role'[p] = role[p] /\ term'[p] = term[p] /\ votedFor'[p] = votedFor[p]
          /\ electionTimer'[p] = electionTimer[p]
      BY <2>1 DEF StartElection, TypeOK
    <3>2. \A q \in Nodes : Heard(q, term[p]) => Heard(q, term[p])'
      BY <1>0, <3>1 DEF Heard
    <3>3. Led(p, term[p]) => Led(p, term[p])'
      BY <1>0, <3>1 DEF Led
    <3> QED BY <3>1, <3>2, <3>3 DEF RolesOK
  <2>2. CASE p = n
    <3>1. votedFor'[n] = n /\ electionTimer'[n] = "watched"
      BY DEF StartElection, TypeOK
    <3>2. ASSUME role'[n] = Leader PROVE Led(n, term[n])'
      <4>1. leaders' = Promoted(n)
        BY <3>2 DEF StartElection, TypeOK, Leader, Candidate
      <4>2. [node |-> n, term |-> term'[n], votes |-> counted'[n]] \in leaders'
        BY <4>1 DEF Promoted
      <4> QED BY <4>2 DEF Led, Heard
    <3> QED BY <2>2, <3>1, <3>2
  <2> QED BY <2>1, <2>2
<1>4. DeadIdle'
  BY DEF DeadIdle, StartElection, life, running, sending
<1> QED BY <1>1, <1>2, <1>3, <1>4 DEF TurnInv

LEMMA HeartbeatTickTurn ==
  ASSUME Turns, NEW n \in Nodes, HeartbeatTick(n)
  PROVE  TurnInv'
<1> USE DEF Turns, HeartbeatTick, node, life, history, running, sending
<1>1. JudgedOK'
  BY DEF JudgedOK
<1>2. SentOK'
  BY DEF SentOK, Heard
<1>3. RolesOK'
  <2>1. UNCHANGED <<role, term, votedFor, leaders, heard>>
    OBVIOUS
  <2>2. \A p \in Nodes : electionTimer'[p] \in {"watched", electionTimer[p]}
    BY DEF TypeOK
  <2> HIDE DEF Turns, HeartbeatTick
  <2> QED BY <2>1, <2>2 DEF RolesOK, Led, Heard, Turns
<1>4. DeadIdle'
  BY DEF DeadIdle
<1> QED BY <1>1, <1>2, <1>3, <1>4 DEF TurnInv

LEMMA SendHeartbeatTurn ==
  ASSUME Turns, NEW n \in Nodes, NEW p \in Peers(n), SendHeartbeat(n, p)
  PROVE  TurnInv'
<1> USE DEF Turns, SendHeartbeat, node, timers, life, history, running
<1>1. JudgedOK' /\ DeadIdle'
  BY DEF JudgedOK, DeadIdle
<1>2. SentOK'
  <2>1. /\ messages' = messages \cup
             {[kind |-> "heartbeat", from |-> n, to |-> p, term |-> term[n]]}
        /\ heard' = heard \cup {[node |-> n, term |-> term[n]]}
        /\ n # p
    BY DEF Peers
  <2> HIDE DEF SendHeartbeat
  <2> SUFFICES ASSUME NEW m \in messages'
               PROVE  /\ m.kind \in {"vote", "heartbeat"} => m.from # m.to
                      /\ m.kind = "heartbeat" => [node |-> m.from, term |-> m.term] \in heard'
    BY DEF SentOK, Heard
  <2>2. CASE m \in messages
    BY <2>1, <2>2 DEF SentOK, Heard
  <2>3. CASE m = [kind |-> "heartbeat", from |-> n, to |-> p, term |-> term[n]]
    BY <2>1, <2>3
  <2> QED BY <2>1, <2>2, <2>3
<1>3. RolesOK'
  BY DEF RolesOK, Led, Heard
<1> QED BY <1>1, <1>2, <1>3 DEF TurnInv

LEMMA JudgeTurn ==
  ASSUME Turns, NEW n \in Nodes, NEW m \in messages, Judge(n, m)
  PROVE  TurnInv'
<1> USE DEF Turns
<1>0. /\ alive[n] /\ judging[n] = {} /\ leaders' = leaders /\ alive' = alive
      /\ heard' = heard
  BY FreeIdle DEF Judge, InTurn, life, history, running, sending
<1>1. m.kind = "vote" /\ m.to = n /\ m.from # n
  BY DEF Judge, SentOK
<1>2. judging'[n] \in {{}, {m}} /\ \A p \in Nodes \ {n} : judging'[p] = judging[p]
  BY <1>0 DEF Judge, TypeOK
<1>3. judging'[n] = {m} => m.term = term'[n] /\ votedFor'[n] \in {None, m.from}
  <2>1. judging'[n] = {m} => Good(n, m)
    BY <1>0 DEF Judge, TypeOK
  <2>2. CASE m.term > term[n] /\ StepDownTo(n, m.term)
    BY <2>2 DEF StepDownTo, TypeOK
  <2>3. CASE m.term = term[n] /\ UNCHANGED <<role, term, votedFor, electionTimer>>
    <3>1. term[n] \in Nat
      BY DEF TypeOK
    <3> QED BY <2>1, <2>3, <3>1 DEF Good
  <2> QED BY <2>2, <2>3 DEF Judge
<1>4. \A p \in Nodes \ {n} :
         /\ role'[p] = role[p] /\ term'[p] = term[p]
         /\ votedFor'[p] = votedFor[p] /\ electionTimer'[p] = electionTimer[p]
  BY DEF Judge, StepDownTo, TypeOK
<1>5. \/ role'[n] = Follower
      \/ /\ role'[n] = role[n] /\ term'[n] = term[n]
         /\ votedFor'[n] = votedFor[n] /\ electionTimer'[n] = electionTimer[n]
  BY DEF Judge, StepDownTo, TypeOK
<1>6. JudgedOK'
  BY <1>1, <1>2, <1>3, <1>4 DEF JudgedOK
<1>7. SentOK'
  BY <1>0 DEF SentOK, Led, Heard, Judge
<1>8. RolesOK'
  BY <1>0, <1>4, <1>5 DEF RolesOK, Led, Heard, Leader, Follower
<1>9. DeadIdle'
  BY <1>0, <1>2 DEF DeadIdle
<1> QED BY <1>6, <1>7, <1>8, <1>9 DEF TurnInv

\* A node that stores a vote for another is a follower.
LEMMA GrantTurn ==
  ASSUME Turns, NEW n \in Nodes, NEW m \in judging[n], Grant(n, m)
  PROVE  TurnInv'
<1> USE DEF Turns, Grant, life, running, sending
<1>0. judging[n] = {m} /\ m.from # n /\ votedFor[n] \in {None, m.from}
  BY DEF JudgedOK
<1>1. role[n] = Follower
  BY <1>0, ElectionAssumption DEF RolesOK
<1>2. judging'[n] = {} /\ \A p \in Nodes \ {n} : judging'[p] = judging[p]
  BY <1>0 DEF TypeOK
<1>3. JudgedOK'
  BY <1>2 DEF JudgedOK, TypeOK
<1>4. SentOK'
  <2>1. heard' = heard /\ \A o \in messages' \ messages : o.kind = "grant"
    BY DEF sending
  <2> HIDE DEF Grant
  <2> QED BY <2>1 DEF SentOK, Heard
<1>5. RolesOK'
  <2>1. /\ UNCHANGED <<role, term, leaders, heard>>
        /\ \A p \in Nodes \ {n} :
             votedFor'[p] = votedFor[p] /\ electionTimer'[p] = electionTimer[p]
    BY DEF TypeOK, sending
  <2> HIDE DEF Grant
  <2> QED BY <1>1, <2>1 DEF RolesOK, Led, Heard, Follower, Leader
<1>6. DeadIdle'
  BY <1>2 DEF DeadIdle
<1> QED BY <1>3, <1>4, <1>5, <1>6 DEF TurnInv

LEMMA DrainVoteTurn ==
  ASSUME Turns, NEW n \in Nodes, DrainVote(n)
  PROVE  TurnInv'
<1> USE DEF Turns
<1>0. /\ leaders \subseteq leaders' /\ term' = term /\ votedFor' = votedFor
      /\ electionTimer' = electionTimer /\ judging' = judging
      /\ messages' = messages /\ alive' = alive /\ heard' = heard
  BY DEF DrainVote, life, running, sending
<1>1. JudgedOK'
  BY <1>0 DEF JudgedOK
<1>2. SentOK'
  BY <1>0 DEF SentOK, Heard
<1>3. RolesOK'
  <2>1. \A p \in Nodes : role'[p] = Follower <=> role[p] = Follower
    BY DEF DrainVote, TypeOK, Follower, Candidate, Leader
  <2>2. \A p \in Nodes : role'[p] = Leader => Led(p, term[p])'
    <3> SUFFICES ASSUME NEW p \in Nodes, role'[p] = Leader
                 PROVE  Led(p, term[p])'
      OBVIOUS
    <3>1. CASE role[p] = Leader
      BY <1>0, <3>1, LedStays DEF RolesOK
    <3>2. CASE role[p] # Leader
      <4>1. p = n /\ [node |-> n, term |-> term[n], votes |-> counted'[n]] \in leaders'
        BY <3>2 DEF DrainVote, TypeOK
      <4> QED BY <1>0, <4>1 DEF Led, Heard
    <3> QED BY <3>1, <3>2
  <2>3. \A p, q \in Nodes : Heard(q, term[p]) => Heard(q, term[p])'
    BY <1>0 DEF Heard
  <2> QED BY <1>0, <2>1, <2>2, <2>3 DEF RolesOK
<1>4. DeadIdle'
  BY <1>0 DEF DeadIdle
<1> QED BY <1>1, <1>2, <1>3, <1>4 DEF TurnInv

LEMMA ReceiveHeartbeatTurn ==
  ASSUME Turns, NEW n \in Nodes, NEW m \in messages, ReceiveHeartbeat(n, m)
  PROVE  TurnInv'
<1> USE DEF Turns, ReceiveHeartbeat, life, history, running, sending
<1>0. judging[n] = {} /\ m.from # n /\ m.from \in Nodes /\ Heard(m.from, m.term)
  BY FreeIdle, MessageFields DEF SentOK, TypeOK, InTurn
<1>1. CASE StepDownTo(n, m.term)
  BY <1>0, <1>1, OthersTurn DEF StepDownTo, TypeOK
<1>2. CASE /\ m.term = term[n] /\ role[n] # Leader
           /\ electionTimer' = [electionTimer EXCEPT ![n] = "replaced"]
           /\ UNCHANGED <<role, term, votedFor>>
  <2>1. JudgedOK' /\ SentOK' /\ DeadIdle'
    BY <1>2 DEF JudgedOK, SentOK, DeadIdle, Led, Heard
  <2>2. leaders' = leaders /\ \A p \in Nodes \ {n} : electionTimer'[p] = electionTimer[p]
    BY <1>2 DEF TypeOK
  <2>3. \E p \in Nodes \ {n} : Heard(p, term[n])
    BY <1>0, <1>2
  <2>4. RolesOK'
    BY <1>2, <2>2, <2>3 DEF RolesOK, Led, Heard
  <2> QED BY <2>1, <2>4 DEF TurnInv
<1>3. CASE UNCHANGED <<role, term, votedFor, electionTimer>>
  BY <1>3 DEF TurnInv, JudgedOK, SentOK, DeadIdle, RolesOK, Led, Heard
<1> QED BY <1>1, <1>2, <1>3

LEMMA CrashTurn ==
  ASSUME Turns, NEW n \in Nodes, Crash(n)
  PROVE  TurnInv'
<1> USE DEF Turns, Crash, node, timers, history, running, sending
<1>1. JudgedOK'
  BY DEF JudgedOK, TypeOK
<1>2. SentOK' /\ RolesOK'
  BY DEF SentOK, RolesOK, Led, Heard
<1>3. DeadIdle'
  BY DEF DeadIdle, TypeOK
<1> QED BY <1>1, <1>2, <1>3 DEF TurnInv

LEMMA RestartTurn ==
  ASSUME Turns, NEW n \in Nodes, Restart(n)
  PROVE  TurnInv'
<1> USE DEF Turns, Restart, history, running, sending
<1>0. judging[n] = {}
  BY DEF DeadIdle
<1>1. JudgedOK'
  <2>1. judging' = judging
    OBVIOUS
  <2>2. \A p \in Nodes \ {n} : term'[p] = term[p] /\ votedFor'[p] = votedFor[p]
    BY DEF TypeOK
  <2> QED BY <1>0, <2>1, <2>2 DEF JudgedOK
<1>2. SentOK' /\ RolesOK'
  <2>1. /\ UNCHANGED <<messages, leaders, heard>> /\ role'[n] = Follower
        /\ \A p \in Nodes \ {n} :
             /\ role'[p] = role[p] /\ term'[p] = term[p]
             /\ votedFor'[p] = votedFor[p] /\ electionTimer'[p] = electionTimer[p]
    BY DEF TypeOK
  <2> HIDE DEF Restart
  <2> QED BY <2>1 DEF SentOK, RolesOK, Led, Heard, Follower, Leader
<1>3. DeadIdle'
  BY <1>0 DEF DeadIdle, TypeOK
<1> QED BY <1>1, <1>2, <1>3 DEF TurnInv

\* The other steps change nothing that TurnInv speaks of, but for messages
\* that are not requests or heartbeats.
LEMMA RestTurn ==
  ASSUME Turns, NEW n \in Nodes,
         \/ SyncTick(n) \/ ReceiveInsert(n) \/ DrainStops(n)
         \/ \E m \in messages : PublishVote(n, m)
         \/ UNCHANGED vars
  PROVE  TurnInv'
<1> USE DEF Turns
<1>1. /\ UNCHANGED <<role, term, votedFor, electionTimer, judging, alive, leaders, heard>>
      /\ \A m \in messages' \ messages : m.kind = "sync"
  <2>1. CASE SyncTick(n)
    BY <2>1 DEF SyncTick, node, timers, life, history, running, sending
  <2>2. CASE ReceiveInsert(n)
    BY <2>2 DEF ReceiveInsert, timers, life, history, running, sending
  <2>3. CASE DrainStops(n)
    BY <2>3 DEF DrainStops, node, timers, life, history, running, sending
  <2>4. ASSUME NEW m \in messages, PublishVote(n, m)
        PROVE  /\ UNCHANGED <<role, term, votedFor, electionTimer, judging, alive, leaders, heard>>
               /\ \A o \in messages' \ messages : o.kind = "sync"
    BY <2>4 DEF PublishVote, node, timers, life, history, running, sending
  <2>5. CASE UNCHANGED vars
    BY <2>5 DEF vars, node, timers, life, history, running, sending
  <2> QED BY <2>1, <2>2, <2>3, <2>4, <2>5
<1>2. JudgedOK'
  BY <1>1 DEF JudgedOK
<1>3. SentOK'
  BY <1>1 DEF SentOK, Led, Heard
<1>4. RolesOK'
  <2>1. \A q \in Nodes, t \in Nat :
           (Led(q, t) <=> Led(q, t)') /\ (Heard(q, t) <=> Heard(q, t)')
    BY <1>1 DEF Led, Heard
  <2> QED BY <1>1, <2>1 DEF RolesOK, TypeOK
<1>5. DeadIdle'
  BY <1>1 DEF DeadIdle
<1> QED BY <1>2, <1>3, <1>4, <1>5 DEF TurnInv

LEMMA NoneLateStep ==
  ASSUME TypeOK, TurnInv, [Next]_vars, ~overlap
  PROVE  NoneLate'
<1>1. NoneLate
  BY DEF TurnInv
<1>2. ASSUME NEW n \in Nodes, Step(n) PROVE late' = late \/ Crash(n)
  <2>1. CASE Tick(n)
    BY <2>1 DEF Tick, StartElection, HeartbeatTick, SyncTick, running
  <2>2. CASE Finish(n)
    BY <1>1, <2>2
       DEF Finish, DrainStops, DrainVote, Grant, SendHeartbeat, NoneLate, running
  <2>3. ASSUME NEW m \in messages, Receive(n, m) PROVE late' = late
    BY <2>3 DEF Receive, Judge, PublishVote, ReceiveHeartbeat, ReceiveSync, Load, running
  <2>4. CASE ReceiveInsert(n) \/ Restart(n)
    BY <2>4 DEF ReceiveInsert, Restart, running
  <2> QED BY <1>2, <2>1, <2>2, <2>3, <2>4 DEF Step
<1>3. ASSUME NEW n \in Nodes, Crash(n) PROVE NoneLate'
  BY <1>1, <1>3 DEF Crash, NoneLate, TypeOK
<1>4. CASE UNCHANGED vars
  BY <1>1, <1>4 DEF vars, running, NoneLate
<1> QED BY <1>1, <1>2, <1>3, <1>4 DEF Next, NoneLate

LEMMA TurnStep == TypeOK /\ TurnInv /\ [Next]_vars => TurnInv'
<1> SUFFICES ASSUME TypeOK, TurnInv, [Next]_vars, ~overlap' PROVE TurnInv'
  BY DEF TurnInv
<1>1. Turns
  BY TypeStep, NoneLateStep DEF Turns, TurnInv, Next, vars
<1>2. ASSUME NEW n \in Nodes, Step(n) PROVE TurnInv'
  <2>1. CASE Tick(n)
    BY <1>1, <2>1, StartElectionTurn, HeartbeatTickTurn, RestTurn DEF Tick
  <2>2. CASE Finish(n)
    BY <1>1, <2>2, RestTurn, DrainVoteTurn, GrantTurn, SendHeartbeatTurn
       DEF Finish, Turns, NoneLate
  <2>3. ASSUME NEW m \in messages, ReceiveSync(n, m) PROVE TurnInv'
    BY <1>1, <2>3, FreeIdle, OthersTurn
       DEF ReceiveSync, InTurn, StepDownTo, Turns, TypeOK, life, history, running, sending
  <2>4. ASSUME NEW m \in messages, Receive(n, m) PROVE TurnInv'
    BY <1>1, <2>3, <2>4, JudgeTurn, RestTurn, ReceiveHeartbeatTurn
       DEF Receive, Load, Turns
  <2>5. CASE ReceiveInsert(n) \/ Crash(n) \/ Restart(n)
    BY <1>1, <2>5, RestTurn, CrashTurn, RestartTurn
  <2> QED BY <1>2, <2>1, <2>2, <2>4, <2>5 DEF Step
<1>3. CASE UNCHANGED vars
  BY <1>1, <1>3 DEF Turns, TurnInv, JudgedOK, SentOK, RolesOK, DeadIdle, Led, Heard, vars,
                    node, timers, life, history, running, sending
<1> QED BY <1>2, <1>3 DEF Next

-----------------------------------------------------------------------------
(* Votes *)

\* What the lemmas about OrderInv start from.
Order == /\ Turns /\ restarts = 0 /\ restarts' = 0
         /\ AllAlive /\ OnceOK /\ VotesOK /\ RequestsOK /\ AnswersOK
         /\ QueuedOK /\ CountedOK /\ LeadersOK

\* No term goes down, and a node changes its vote only with its term.
Forward ==
  \A p \in Nodes : /\ term'[p] >= term[p]
                   /\ term'[p] = term[p] => votedFor'[p] = votedFor[p]

\* What a node has reached it has reached for good.
LEMMA TermsGrow ==
  ASSUME Turns, NEW p \in Nodes, NEW t \in Nat, t <= term[p], term'[p] >= term[p]
  PROVE  t <= term'[p] /\ (t = term'[p] => t = term[p] /\ term'[p] = term[p])
<1>1. term[p] \in Nat /\ term'[p] \in Nat
  BY DEF Turns, TypeOK
<1>2. \A a, b, c \in Nat : a <= b /\ c >= b => a <= c /\ (a = c => a = b /\ c = b)
  OBVIOUS
<1> QED BY <1>1, <1>2

LEMMA ForwardAt ==
  ASSUME Forward, NEW p \in Nodes
  PROVE  /\ term'[p] >= term[p]
         /\ term'[p] = term[p] => votedFor'[p] = votedFor[p]
  BY DEF Forward

LEMMA VoteFields ==
  ASSUME NEW v \in Vote
  PROVE  v.voter \in Nodes /\ v.to \in Nodes /\ v.term \in Nat
  BY DEF Vote

LEMMA VotesStay ==
  ASSUME Order, Forward, votes' = votes
  PROVE  OnceOK' /\ VotesOK'
<1> USE DEF Order, Turns, TypeOK
<1>1. OnceOK'
  BY DEF OnceOK
<1>2. VotesOK'
  <2> SUFFICES ASSUME NEW v \in votes
               PROVE  /\ v.term <= term'[v.voter] /\ v.term <= term'[v.to]
                      /\ v.term = term'[v.voter] => v.to = votedFor'[v.voter]
    BY DEF VotesOK
  <2>1. v.voter \in Nodes /\ v.to \in Nodes /\ v.term \in Nat
    BY VoteFields
  <2>2. /\ v.term <= term[v.voter] /\ v.term <= term[v.to]
        /\ v.term = term[v.voter] => v.to = votedFor[v.voter]
    BY DEF VotesOK
  <2>3. /\ term'[v.voter] >= term[v.voter] /\ term'[v.to] >= term[v.to]
        /\ term'[v.voter] = term[v.voter] => votedFor'[v.voter] = votedFor[v.voter]
    BY <2>1, ForwardAt
  <2>4. /\ v.term <= term'[v.voter] /\ v.term <= term'[v.to]
        /\ v.term = term'[v.voter] =>
             v.term = term[v.voter] /\ term'[v.voter] = term[v.voter]
    BY <2>1, <2>2, <2>3, TermsGrow
  <2> QED BY <2>2, <2>3, <2>4
<1> QED BY <1>1, <1>2

LEMMA QueuedStays ==
  ASSUME QueuedOK, voteRing' = voteRing, votes \subseteq votes', counted' = counted
  PROVE  QueuedOK'
  BY DEF QueuedOK

LEMMA CountedStays ==
  ASSUME CountedOK, votes \subseteq votes', counted' = counted,
         votesReceived' = votesReceived
  PROVE  CountedOK'
  BY DEF CountedOK

LEMMA LeadersStay ==
  ASSUME LeadersOK, votes \subseteq votes', leaders' = leaders
  PROVE  LeadersOK'
  BY DEF LeadersOK

LEMMA RequestsStay ==
  ASSUME Order, Forward, votes' = votes, judging' = judging,
         \A m \in messages' \ messages : m.kind # "vote"
  PROVE  RequestsOK'
<1> USE DEF Order, Turns, TypeOK
<1>1. \A m \in Message : m.term <= term[m.from] => m.term <= term'[m.from]
  <2> SUFFICES ASSUME NEW m \in Message, m.term <= term[m.from]
               PROVE  m.term <= term'[m.from]
    OBVIOUS
  <2>1. m.from \in Nodes /\ m.term \in Nat
    BY MessageFields
  <2>2. term'[m.from] >= term[m.from]
    BY <2>1, ForwardAt
  <2> QED BY <2>1, <2>2, TermsGrow
<1>2. \A m \in messages' : m.kind = "vote" => m \in messages
  OBVIOUS
<1>3. \A n \in Nodes : judging[n] \subseteq Message
  OBVIOUS
<1> QED BY <1>1, <1>2, <1>3 DEF RequestsOK, Asked

LEMMA AnswersStay ==
  ASSUME AnswersOK, votes \subseteq votes', counted' = counted, voteRing' = voteRing,
         \A m \in messages' \ messages : m.kind # "grant"
  PROVE  AnswersOK'
  BY DEF AnswersOK, Given

\* A step that neither asks for a vote nor casts, queues or counts one.
LEMMA QuietOrder ==
  ASSUME Order, Forward,
         UNCHANGED <<votes, counted, voteRing, votesReceived, leaders, judging, alive>>,
         \A m \in messages' \ messages : m.kind \notin {"vote", "grant"}
  PROVE  OrderInv'
<1> USE DEF Order
<1>1. AllAlive'
  BY DEF AllAlive
<1>2. OnceOK' /\ VotesOK' /\ RequestsOK' /\ AnswersOK'
  BY VotesStay, RequestsStay, AnswersStay
<1>3. QueuedOK' /\ CountedOK' /\ LeadersOK'
  BY QueuedStays, CountedStays, LeadersStay
<1> QED BY <1>1, <1>2, <1>3 DEF OrderInv

LEMMA StartElectionOrder ==
  ASSUME Order, NEW n \in Nodes, StartElection(n)
  PROVE  OrderInv'
<1> DEFINE self == [voter |-> n, to |-> n, term |-> term[n] + 1]
<1>1. /\ messages \subseteq Message /\ votes \subseteq Vote
      /\ \A p \in Nodes : judging[p] \subseteq Message /\ term[p] \in Nat
  BY DEF Order, Turns, TypeOK
<1>2. /\ Turns /\ JudgedOK /\ SentOK /\ AllAlive /\ OnceOK /\ VotesOK /\ RequestsOK
      /\ AnswersOK /\ QueuedOK /\ CountedOK /\ LeadersOK
  BY DEF Order, Turns
<1>3. /\ term[n] \in Nat /\ term'[n] = term[n] + 1 /\ votedFor'[n] = n
      /\ \A p \in Nodes \ {n} : term'[p] = term[p] /\ votedFor'[p] = votedFor[p]
      /\ votes' = votes \cup {self}
      /\ counted'[n] = {self} /\ votesReceived'[n] = 1
      /\ \A p \in Nodes \ {n} :
           counted'[p] = counted[p] /\ votesReceived'[p] = votesReceived[p]
      /\ voteRing' = voteRing /\ judging' = judging /\ alive' = alive
  BY DEF StartElection, life, Order, Turns, TypeOK, running, sending
<1>4. AllAlive'
  BY <1>2, <1>3 DEF AllAlive
<1>5. \A v \in votes : /\ v.voter \in Nodes /\ v.to \in Nodes /\ v.term \in Nat
                       /\ v.term <= term[v.voter] /\ v.term <= term[v.to]
  BY <1>1, <1>2, VoteFields DEF VotesOK
<1>6. self \notin votes
  BY <1>3, <1>5
<1>7. \A m \in messages' \ messages :
         /\ m.kind = "vote" /\ m.from = n /\ m.to # n /\ m.term = term[n] + 1
         /\ m.log = lastLog[n]
  BY DEF StartElection, Peers
<1>8. \A m \in Message : /\ m.from \in Nodes /\ m.to \in Nodes /\ m.term \in Nat
  BY <1>1, MessageFields
<1>9. \A p \in Nodes : term'[p] >= term[p]
  <2>1. \A a \in Nat : a >= a /\ a + 1 >= a
    OBVIOUS
  <2>2. \A p \in Nodes : term'[p] = term[p] \/ term'[p] = term[p] + 1
    BY <1>3
  <2> QED BY <1>1, <2>1, <2>2
<1>10. \A t \in Nat : t <= term[n] => t # term[n] + 1
  BY <1>3
<1>11. \A m \in Message : m.term <= term[m.from] =>
                          m.from # n \/ m.term # term[n] + 1
  BY <1>1, <1>8, <1>10
<1>12. OnceOK'
  BY <1>2, <1>3, <1>5, <1>10 DEF OnceOK
<1>13. VotesOK'
  <2>1. ASSUME NEW v \in votes
        PROVE  /\ v.term <= term'[v.voter] /\ v.term <= term'[v.to]
               /\ v.term = term'[v.voter] => v.to = votedFor'[v.voter]
    <3>1. v.term <= term'[v.voter] /\ v.term <= term'[v.to]
      BY <1>1, <1>2, <1>5, <1>9, TermsGrow
    <3>2. v.term = term'[v.voter] => v.voter # n
      BY <1>3, <1>5, <1>10
    <3> QED BY <1>2, <1>3, <1>5, <3>1, <3>2 DEF VotesOK
  <2> QED BY <1>2, <1>3, <2>1 DEF VotesOK
<1>14. RequestsOK'
  <2>1. ASSUME NEW m \in messages, m.kind = "vote"
        PROVE  /\ m.term <= term'[m.from] /\ Asked(m) \notin votes'
               /\ \A o \in messages' : o.kind = "vote" /\ Asked(o) = Asked(m) => o = m
    <3>1. m.from # m.to /\ m.term <= term[m.from] /\ Asked(m) \notin votes
      BY <1>1, <1>2, <2>1 DEF SentOK, RequestsOK
    <3>2. m.term <= term'[m.from]
      BY <1>1, <1>2, <1>8, <1>9, <3>1, TermsGrow
    <3>3. Asked(m) # self
      BY <3>1 DEF Asked
    <3>4. \A o \in messages' \ messages : Asked(o) # Asked(m)
      BY <1>1, <1>7, <1>8, <1>11, <3>1 DEF Asked
    <3> QED BY <1>1, <1>2, <1>3, <2>1, <3>1, <3>2, <3>3, <3>4 DEF RequestsOK
  <2>2. ASSUME NEW m \in messages' \ messages
        PROVE  /\ m.term <= term'[m.from] /\ Asked(m) \notin votes'
               /\ \A o \in messages' : o.kind = "vote" /\ Asked(o) = Asked(m) => o = m
    <3>1. m.term <= term'[m.from]
      BY <1>3, <1>7
    <3>2. Asked(m) \notin votes /\ Asked(m) # self
      BY <1>3, <1>5, <1>7 DEF Asked
    <3>3. ASSUME NEW o \in messages, o.kind = "vote" PROVE Asked(o) # Asked(m)
      <4>1. o.term <= term[o.from] /\ o.term \in Nat
        BY <1>1, <1>2, <1>8, <3>3 DEF RequestsOK
      <4>2. m.from = n /\ m.term = term[n] + 1
        BY <1>7
      <4> QED BY <1>10, <4>1, <4>2 DEF Asked
    <3>4. ASSUME NEW o \in messages' \ messages, Asked(o) = Asked(m) PROVE o = m
      <4>1. \A x \in messages' \ messages :
               x = [kind |-> "vote", from |-> n, to |-> x.to, term |-> term[n] + 1,
                    log |-> lastLog[n]]
        BY DEF StartElection
      <4>2. o.to = m.to
        BY <3>4 DEF Asked
      <4> QED BY <4>1, <4>2
    <3> QED BY <1>3, <3>1, <3>2, <3>3, <3>4
  <2>3. ASSUME NEW p \in Nodes, NEW m \in judging[p]
        PROVE  /\ m.term <= term'[m.from] /\ Asked(m) \notin votes'
               /\ \A o \in messages' : o.kind = "vote" => Asked(o) # Asked(m)
    <3>1. m.to # m.from /\ m \in Message
      <4>1. m.to # m.from
        BY <1>2 DEF JudgedOK
      <4> QED BY <1>1, <4>1
    <3>2. m.term <= term[m.from] /\ Asked(m) \notin votes
      BY <1>1, <1>2 DEF RequestsOK
    <3>3. m.term <= term'[m.from]
      BY <1>1, <1>2, <1>8, <1>9, <3>1, <3>2, TermsGrow
    <3>4. Asked(m) # self
      BY <3>1 DEF Asked
    <3>5. \A o \in messages' \ messages : Asked(o) # Asked(m)
      BY <1>1, <1>7, <1>11, <3>1, <3>2 DEF Asked
    <3>6. \A o \in messages : o.kind = "vote" => Asked(o) # Asked(m)
      BY <1>1, <1>2 DEF RequestsOK
    <3> QED BY <1>3, <3>2, <3>3, <3>4, <3>5, <3>6
  <2>4. \A m : Asked(m)' = Asked(m)
    BY DEF Asked
  <2> QED BY <1>1, <1>2, <1>3, <2>1, <2>2, <2>3, <2>4 DEF RequestsOK
<1>15. AnswersOK'
  <2> SUFFICES ASSUME NEW m \in messages', m.kind = "grant"
               PROVE  /\ Given(m) \in votes' /\ Given(m) \notin counted'[m.to]
                      /\ \A i \in 1..Len(voteRing'[m.to]) : voteRing'[m.to][i] # Given(m)
    BY <1>2 DEF AnswersOK, Given
  <2>1. m \in messages
    BY <1>7
  <2>2. m.to \in Nodes
    BY <1>1, <1>8, <2>1
  <2>3. Given(m) \in votes /\ Given(m) # self
    BY <1>2, <1>6, <2>1 DEF AnswersOK
  <2> QED BY <1>2, <1>3, <2>1, <2>2, <2>3 DEF AnswersOK
<1>16. QueuedOK'
  <2> SUFFICES ASSUME NEW p \in Nodes, NEW i \in 1..Len(voteRing[p])
               PROVE  /\ voteRing[p][i] \in votes' /\ voteRing[p][i].to = p
                      /\ voteRing[p][i] \notin counted'[p]
                      /\ \A j \in 1..Len(voteRing[p]) :
                            voteRing[p][j] = voteRing[p][i] => j = i
    BY <1>2, <1>3 DEF QueuedOK
  <2>1. voteRing[p][i] \in votes /\ voteRing[p][i] # self
    BY <1>2, <1>6 DEF QueuedOK
  <2> QED BY <1>2, <1>3, <2>1 DEF QueuedOK
<1>17. IsFiniteSet({self}) /\ Cardinality({self}) = 1
  BY FS_Singleton
<1>18. CountedOK'
  <2> SUFFICES ASSUME NEW p \in Nodes
               PROVE  /\ counted'[p] \subseteq votes' /\ \A v \in counted'[p] : v.to = p
                      /\ IsFiniteSet(counted'[p])
                      /\ Cardinality(counted'[p]) = votesReceived'[p]
    BY <1>2 DEF CountedOK
  <2>1. CASE p = n
    <3>1. self \in votes' /\ self.to = n
      BY <1>3
    <3> HIDE DEF self
    <3>2. /\ {self} \subseteq votes' /\ \A v \in {self} : v.to = n
          /\ IsFiniteSet({self}) /\ Cardinality({self}) = 1
      BY <1>17, <3>1
    <3> QED BY <1>3, <2>1, <3>2
  <2>2. CASE p # n
    <3>1. counted'[p] = counted[p] /\ votesReceived'[p] = votesReceived[p]
      BY <1>3, <2>2
    <3> QED BY <1>2, <1>3, <3>1 DEF CountedOK
  <2> QED BY <2>1, <2>2
<1>19. LeadersOK'
  <2>1. CASE leaders' = leaders
    BY <1>1, <1>2, <1>3, <2>1, LeadersStay
  <2>2. CASE leaders' # leaders
    <3>1. /\ VotesNeeded(n) <= 1
          /\ leaders' = leaders \cup {[node |-> n, term |-> term[n] + 1, votes |-> {self}]}
      BY <1>3, <2>2 DEF StartElection, Promoted
    <3>2. 1 >= QuorumSize
      <4>1. VotesNeeded(n) \in Nat /\ VotesNeeded(n) >= QuorumSize /\ QuorumSize \in Nat
        BY VotesNeededType, ElectionAssumption
      <4>2. \A a, b \in Nat : a <= 1 /\ a >= b => 1 >= b
        OBVIOUS
      <4> QED BY <3>1, <4>1, <4>2
    <3>3. {self} \subseteq votes' /\ \A v \in {self} : v.to = n
      BY <1>3
    <3>4. votes \subseteq votes'
      BY <1>3
    <3> HIDE DEF self
    <3>5. ASSUME NEW l \in leaders'
          PROVE  /\ l.votes \subseteq votes' /\ \A v \in l.votes : v.to = l.node
                 /\ IsFiniteSet(l.votes) /\ Cardinality(l.votes) >= QuorumSize
      <4>1. CASE l \in leaders
        BY <1>2, <3>4, <4>1 DEF LeadersOK
      <4>2. CASE l = [node |-> n, term |-> term[n] + 1, votes |-> {self}]
        <5>1. l.votes = {self} /\ l.node = n
          BY <4>2
        <5> QED BY <1>17, <3>2, <3>3, <5>1
      <4> QED BY <3>1, <4>1, <4>2
    <3> QED BY <1>2, <3>5 DEF LeadersOK
  <2> QED BY <2>1, <2>2
<1> QED BY <1>4, <1>12, <1>13, <1>14, <1>15, <1>16, <1>18, <1>19 DEF OrderInv

\* A node's term does not go down with stepDownLocked, or without it.
LEMMA StepDownForward ==
  ASSUME Turns, NEW n \in Nodes, NEW t \in Nat,
         \/ t > term[n] /\ StepDownTo(n, t)
         \/ UNCHANGED <<term, votedFor>>
  PROVE  Forward
<1> USE DEF Turns, TypeOK
<1>1. \A p \in Nodes \ {n} : term'[p] = term[p] /\ votedFor'[p] = votedFor[p]
  BY DEF StepDownTo
<1>2. \A p \in Nodes : term[p] \in Nat
  OBVIOUS
<1>3. \/ term'[n] = t /\ t > term[n]
      \/ term'[n] = term[n] /\ votedFor'[n] = votedFor[n]
  <2>1. CASE t > term[n] /\ StepDownTo(n, t)
    BY <2>1 DEF StepDownTo
  <2>2. CASE UNCHANGED <<term, votedFor>>
    BY <2>2
  <2> QED BY <2>1, <2>2
<1>4. \A a, b \in Nat : (b > a => b >= a /\ b # a) /\ a >= a
  OBVIOUS
<1> HIDE DEF Turns, TypeOK
<1>5. ASSUME NEW p \in Nodes
      PROVE  /\ term'[p] >= term[p]
             /\ term'[p] = term[p] => votedFor'[p] = votedFor[p]
  <2>1. CASE p = n
    BY <1>2, <1>3, <1>4, <2>1
  <2>2. CASE p # n
    BY <1>1, <1>2, <1>4, <2>2
  <2> QED BY <2>1, <2>2
<1> QED BY <1>5 DEF Forward

LEMMA JudgeOrder ==
  ASSUME Order, NEW n \in Nodes, NEW m \in messages, Judge(n, m)
  PROVE  OrderInv'
<1>1. m \in Message /\ m.from \in Nodes /\ m.term \in Nat
  BY MessageFields DEF Order, Turns, TypeOK
<1>2. /\ votes' = votes /\ counted' = counted /\ voteRing' = voteRing
      /\ votesReceived' = votesReceived /\ leaders' = leaders /\ alive' = alive
      /\ messages' = messages \ {m} /\ m.kind = "vote"
  BY DEF Judge, ring, life, history, running, sending
<1>3. Forward
  <2>1. CASE m.term > term[n] /\ StepDownTo(n, m.term)
    BY <1>1, <2>1, StepDownForward DEF Order
  <2>2. CASE UNCHANGED <<term, votedFor>>
    BY <1>1, <2>2, StepDownForward DEF Order
  <2> QED BY <2>1, <2>2 DEF Judge
<1>4. AllAlive'
  BY <1>2 DEF Order, AllAlive
<1>5. OnceOK' /\ VotesOK'
  BY <1>2, <1>3, VotesStay
<1>6. QueuedOK' /\ CountedOK' /\ LeadersOK' /\ AnswersOK'
  BY <1>2, QueuedStays, CountedStays, LeadersStay, AnswersStay DEF Order
<1>7. \A o \in Message : o.term <= term[o.from] => o.term <= term'[o.from]
  <2> SUFFICES ASSUME NEW o \in Message, o.term <= term[o.from]
               PROVE  o.term <= term'[o.from]
    OBVIOUS
  <2>1. o.from \in Nodes /\ o.term \in Nat
    BY MessageFields
  <2> QED BY <1>3, <2>1, ForwardAt, TermsGrow DEF Order
<1>8. RequestsOK'
  <2>1. ASSUME NEW o \in messages, o.kind = "vote"
        PROVE  /\ o.term <= term'[o.from] /\ Asked(o) \notin votes
               /\ \A q \in messages : q.kind = "vote" /\ Asked(q) = Asked(o) => q = o
    BY <1>7, <2>1 DEF Order, Turns, TypeOK, RequestsOK
  <2>2. ASSUME NEW p \in Nodes, NEW o \in judging'[p]
        PROVE  /\ o.term <= term'[o.from] /\ Asked(o) \notin votes
               /\ \A q \in messages' : q.kind = "vote" => Asked(q) # Asked(o)
    <3>1. CASE o \in judging[p]
      BY <1>2, <1>7, <3>1 DEF Order, Turns, TypeOK, RequestsOK
    <3>2. CASE o = m
      BY <1>2, <2>1, <3>2
    <3>3. judging'[p] \subseteq judging[p] \cup {m}
      BY DEF Judge, Order, Turns, TypeOK
    <3> QED BY <3>1, <3>2, <3>3
  <2> QED BY <1>2, <2>1, <2>2 DEF RequestsOK, Asked
<1> QED BY <1>4, <1>5, <1>6, <1>8 DEF OrderInv

LEMMA GrantOrder ==
  ASSUME Order, NEW n \in Nodes, NEW m \in judging[n], Grant(n, m)
  PROVE  OrderInv'
<1> DEFINE grant == [kind |-> "grant", from |-> n, to |-> m.from, term |-> m.term]
<1>1. m \in Message /\ m.from \in Nodes /\ m.to \in Nodes /\ m.term \in Nat
  BY MessageFields DEF Order, Turns, TypeOK
<1>2. /\ judging[n] = {m} /\ m.to = n /\ m.from # n
      /\ m.term = term[n] /\ votedFor[n] \in {None, m.from}
  BY DEF Order, Turns, JudgedOK
<1>3. m.term <= term[m.from] /\ Asked(m) \notin votes
  BY DEF Order, RequestsOK
<1>4. /\ votes' = votes \cup {Asked(m)} /\ term' = term
      /\ votedFor'[n] = m.from
      /\ \A p \in Nodes \ {n} : votedFor'[p] = votedFor[p] /\ judging'[p] = judging[p]
      /\ judging'[n] = {}
      /\ messages' = messages \cup {grant}
      /\ counted' = counted /\ voteRing' = voteRing /\ alive' = alive
      /\ votesReceived' = votesReceived /\ leaders' = leaders
  BY <1>2 DEF Grant, Asked, ring, life, Order, Turns, TypeOK, running, sending
<1>5. \A v \in votes : v.voter = n /\ v.term = m.term => v.to = m.from
  <2> SUFFICES ASSUME NEW v \in votes, v.voter = n, v.term = term[n]
               PROVE  v.to = m.from
    BY <1>2
  <2>1. v.to = votedFor[n]
    BY DEF Order, VotesOK
  <2>2. v.to \in Nodes
    BY VoteFields DEF Order, Turns, TypeOK
  <2> QED BY <1>2, <2>1, <2>2, ElectionAssumption
<1>6. AllAlive'
  BY <1>4 DEF Order, AllAlive
<1>7. OnceOK'
  BY <1>2, <1>4, <1>5 DEF Order, OnceOK, Asked
<1>8. VotesOK'
  <2>1. /\ Asked(m).term <= term[Asked(m).voter] /\ Asked(m).term <= term[Asked(m).to]
        /\ Asked(m).to = votedFor'[Asked(m).voter]
    BY <1>1, <1>2, <1>3, <1>4 DEF Asked
  <2>2. ASSUME NEW v \in votes, v.term = term[v.voter] PROVE v.to = votedFor'[v.voter]
    <3>1. v.voter \in Nodes /\ v.to = votedFor[v.voter]
      BY <2>2, VoteFields DEF Order, Turns, TypeOK, VotesOK
    <3> QED BY <1>2, <1>4, <1>5, <2>2, <3>1
  <2> QED BY <1>4, <2>1, <2>2 DEF Order, VotesOK
<1>9. RequestsOK'
  <2>1. ASSUME NEW o \in messages, o.kind = "vote"
        PROVE  o.term <= term[o.from] /\ Asked(o) \notin votes'
    <3>1. Asked(o) # Asked(m)
      BY <2>1 DEF Order, RequestsOK
    <3> QED BY <1>4, <2>1, <3>1 DEF Order, RequestsOK
  <2>2. ASSUME NEW p \in Nodes, NEW o \in judging'[p]
        PROVE  o \in judging[p] /\ o.term <= term[o.from] /\ Asked(o) \notin votes'
    <3>1. p # n /\ o \in judging[p]
      BY <1>4
    <3>2. o.to = p
      BY <3>1 DEF Order, Turns, JudgedOK
    <3>3. Asked(o) # Asked(m)
      BY <1>2, <3>1, <3>2 DEF Asked
    <3> QED BY <1>4, <3>1, <3>3 DEF Order, RequestsOK
  <2>3. \A o \in messages' : o.kind = "vote" => o \in messages
    BY <1>4
  <2>4. \A o, q \in messages :
           o.kind = "vote" /\ q.kind = "vote" /\ Asked(q) = Asked(o) => q = o
    BY DEF Order, RequestsOK
  <2>5. \A p \in Nodes : \A o \in judging[p] : \A q \in messages :
           q.kind = "vote" => Asked(q) # Asked(o)
    BY DEF Order, RequestsOK
  <2>6. \A o : Asked(o)' = Asked(o)
    BY DEF Asked
  <2> QED BY <1>4, <2>1, <2>2, <2>3, <2>4, <2>5, <2>6 DEF RequestsOK
<1>10. AnswersOK'
  <2>1. Given(grant) = Asked(m) /\ grant.to = m.from
    BY <1>2 DEF Given, Asked
  <2>2. Asked(m) \notin counted[m.from]
    BY <1>1, <1>3 DEF Order, CountedOK
  <2>3. \A i \in 1..Len(voteRing[m.from]) : voteRing[m.from][i] # Asked(m)
    BY <1>1, <1>3 DEF Order, QueuedOK
  <2>4. ASSUME NEW o \in messages', o.kind = "grant"
        PROVE  /\ Given(o) \in votes' /\ Given(o) \notin counted[o.to]
               /\ \A i \in 1..Len(voteRing[o.to]) : voteRing[o.to][i] # Given(o)
    <3>1. CASE o \in messages
      BY <1>4, <2>4, <3>1 DEF Order, AnswersOK
    <3>2. CASE o = grant
      BY <1>4, <2>1, <2>2, <2>3, <3>2
    <3> QED BY <1>4, <3>1, <3>2
  <2> QED BY <1>4, <2>4 DEF AnswersOK, Given
<1>11. QueuedOK' /\ CountedOK' /\ LeadersOK'
  BY <1>4, QueuedStays, CountedStays, LeadersStay DEF Order
<1> QED BY <1>6, <1>7, <1>8, <1>9, <1>10, <1>11 DEF OrderInv

\* Two grants of the same vote are the same message.
LEMMA GrantsDiffer ==
  ASSUME NEW m \in Message, NEW o \in Message, m.kind = "grant", o.kind = "grant",
         Given(m) = Given(o)
  PROVE  m = o
<1>1. m.from = o.from /\ m.to = o.to /\ m.term = o.term
  BY DEF Given
<1>2. \A x \in Message : x.kind = "grant" =>
         x = [kind |-> "grant", from |-> x.from, to |-> x.to, term |-> x.term]
  BY DEF Message
<1> QED BY <1>1, <1>2

LEMMA PublishVoteOrder ==
  ASSUME Order, NEW n \in Nodes, NEW m \in messages, PublishVote(n, m)
  PROVE  OrderInv'
<1>1. /\ m \in Message /\ m.to = n /\ m.kind = "grant"
      /\ [voter |-> m.from, to |-> n, term |-> m.term] = Given(m)
  BY DEF PublishVote, Given, Order, Turns, TypeOK
<1>2. /\ UNCHANGED <<votes, counted, votesReceived, leaders, judging, alive, term, votedFor>>
      /\ messages' = messages \ {m}
      /\ voteRing' = [voteRing EXCEPT ![n] = Append(voteRing[n], Given(m))]
  BY <1>1 DEF PublishVote, node, life, history, running, sending
<1>3. Forward
  <2>1. \A a \in Nat : a >= a
    OBVIOUS
  <2>2. \A p \in Nodes : term[p] \in Nat
    BY DEF Order, Turns, TypeOK
  <2> QED BY <1>2, <2>1, <2>2 DEF Forward
<1>4. AllAlive' /\ OnceOK' /\ VotesOK' /\ RequestsOK' /\ CountedOK' /\ LeadersOK'
  BY <1>2, <1>3, VotesStay, RequestsStay, CountedStays, LeadersStay DEF Order, AllAlive
<1>5. voteRing[n] \in Seq(Vote) /\ Given(m) \in Vote
  BY <1>1, MessageFields DEF Given, Vote, Order, Turns, TypeOK
<1>6. \A s \in Seq(Vote), v \in Vote :
         /\ Len(Append(s, v)) = Len(s) + 1 /\ Len(s) \in Nat
         /\ \A i \in 1..Len(Append(s, v)) :
              \/ i \in 1..Len(s) /\ Append(s, v)[i] = s[i]
              \/ i = Len(s) + 1 /\ Append(s, v)[i] = v
  OBVIOUS
<1>7. \A i \in 1..Len(voteRing'[n]) :
         \/ i \in 1..Len(voteRing[n]) /\ voteRing'[n][i] = voteRing[n][i]
         \/ i = Len(voteRing[n]) + 1 /\ voteRing'[n][i] = Given(m)
  <2>1. voteRing'[n] = Append(voteRing[n], Given(m))
    BY <1>2 DEF Order, Turns, TypeOK
  <2> QED BY <1>5, <1>6, <2>1
<1>8. \A p \in Nodes \ {n} : voteRing'[p] = voteRing[p]
  BY <1>2 DEF Order, Turns, TypeOK
<1>9. /\ Given(m) \in votes /\ Given(m).to = n /\ Given(m) \notin counted[n]
      /\ \A i \in 1..Len(voteRing[n]) : voteRing[n][i] # Given(m)
  BY <1>1 DEF Order, AnswersOK, Given
<1>10. AnswersOK'
  <2> SUFFICES ASSUME NEW o \in messages', o.kind = "grant"
               PROVE  /\ Given(o) \in votes /\ Given(o) \notin counted[o.to]
                      /\ \A i \in 1..Len(voteRing'[o.to]) : voteRing'[o.to][i] # Given(o)
    BY <1>2 DEF AnswersOK, Given
  <2>1. o \in messages /\ o \in Message /\ o # m /\ o.to \in Nodes
    BY <1>2, MessageFields DEF Order, Turns, TypeOK
  <2>2. /\ Given(o) \in votes /\ Given(o) \notin counted[o.to]
        /\ \A i \in 1..Len(voteRing[o.to]) : voteRing[o.to][i] # Given(o)
    BY <2>1 DEF Order, AnswersOK
  <2>3. Given(o) # Given(m)
    BY <1>1, <2>1, GrantsDiffer
  <2> QED BY <1>7, <1>8, <2>1, <2>2, <2>3
<1>11. QueuedOK'
  <2> SUFFICES ASSUME NEW p \in Nodes, NEW i \in 1..Len(voteRing'[p])
               PROVE  /\ voteRing'[p][i] \in votes /\ voteRing'[p][i].to = p
                      /\ voteRing'[p][i] \notin counted[p]
                      /\ \A j \in 1..Len(voteRing'[p]) :
                            voteRing'[p][j] = voteRing'[p][i] => j = i
    BY <1>2 DEF QueuedOK
  <2>1. CASE p # n
    BY <1>8, <2>1 DEF Order, QueuedOK
  <2>2. CASE p = n
    <3>1. /\ voteRing'[n][i] \in votes /\ voteRing'[n][i].to = n
          /\ voteRing'[n][i] \notin counted[n]
      BY <1>7, <1>9, <2>2 DEF Order, QueuedOK
    <3>2. \A j \in 1..Len(voteRing'[n]) : voteRing'[n][j] = voteRing'[n][i] => j = i
      BY <1>7, <1>9, <2>2 DEF Order, QueuedOK
    <3> QED BY <2>2, <3>1, <3>2
  <2> QED BY <2>1, <2>2
<1> QED BY <1>4, <1>10, <1>11 DEF OrderInv

\* What is left of a ring that gives its first vote away.
LEMMA TailOf ==
  ASSUME NEW s \in Seq(Vote), s # <<>>
  PROVE  /\ 1 \in 1..Len(s) /\ Head(s) = s[1]
         /\ \A i \in 1..Len(Tail(s)) :
              i \in 1..Len(s) /\ i + 1 \in 1..Len(s) /\ Tail(s)[i] = s[i + 1]
<1>1. Len(s) \in Nat /\ Len(s) # 0 /\ Len(Tail(s)) = Len(s) - 1
  OBVIOUS
<1>2. \A i \in 1..Len(Tail(s)) : Tail(s)[i] = s[i + 1]
  OBVIOUS
<1>3. \A k \in Nat \ {0} : 1 \in 1..k /\ \A i \in 1..(k - 1) : i \in 1..k /\ i + 1 \in 1..k
  OBVIOUS
<1> QED BY <1>1, <1>2, <1>3

\* Popping leaves different votes in the ring, and the popped one is another.
LEMMA RingShrinks ==
  ASSUME Order, NEW n \in Nodes, voteRing[n] # <<>>, votes' = votes,
         voteRing' = [voteRing EXCEPT ![n] = Tail(@)],
         \/ counted' = counted
         \/ counted' = [counted EXCEPT ![n] = @ \cup {Head(voteRing[n])}]
  PROVE  /\ Head(voteRing[n]) \in votes /\ Head(voteRing[n]).to = n
         /\ Head(voteRing[n]) \notin counted[n]
         /\ QueuedOK'
<1>1. voteRing[n] \in Seq(Vote)
  BY DEF Order, Turns, TypeOK
<1>2. /\ Head(voteRing[n]) = voteRing[n][1] /\ 1 \in 1..Len(voteRing[n])
      /\ \A i \in 1..Len(Tail(voteRing[n])) :
           /\ i + 1 \in 1..Len(voteRing[n])
           /\ Tail(voteRing[n])[i] = voteRing[n][i + 1]
  BY <1>1, TailOf
<1>3. /\ Head(voteRing[n]) \in votes /\ Head(voteRing[n]).to = n
      /\ Head(voteRing[n]) \notin counted[n]
  BY <1>2 DEF Order, QueuedOK
<1>4. \A i \in 1..Len(Tail(voteRing[n])) : voteRing[n][i + 1] # voteRing[n][1]
  <2> SUFFICES ASSUME NEW i \in 1..Len(Tail(voteRing[n])),
                      voteRing[n][i + 1] = voteRing[n][1]
               PROVE  FALSE
    OBVIOUS
  <2>1. i + 1 = 1
    BY <1>2 DEF Order, QueuedOK
  <2> QED BY <2>1
<1>5. /\ voteRing'[n] = Tail(voteRing[n])
      /\ \A p \in Nodes \ {n} : voteRing'[p] = voteRing[p] /\ counted'[p] = counted[p]
      /\ counted'[n] \subseteq counted[n] \cup {Head(voteRing[n])}
  BY DEF Order, Turns, TypeOK
<1>6. QueuedOK'
  <2> SUFFICES ASSUME NEW p \in Nodes, NEW i \in 1..Len(voteRing'[p])
               PROVE  /\ voteRing'[p][i] \in votes' /\ voteRing'[p][i].to = p
                      /\ voteRing'[p][i] \notin counted'[p]
                      /\ \A j \in 1..Len(voteRing'[p]) :
                            voteRing'[p][j] = voteRing'[p][i] => j = i
    BY DEF QueuedOK
  <2>1. CASE p # n
    BY <1>5, <2>1 DEF Order, QueuedOK
  <2>2. CASE p = n
    <3>1. i + 1 \in 1..Len(voteRing[n]) /\ voteRing'[n][i] = voteRing[n][i + 1]
      BY <1>2, <1>5, <2>2
    <3>2. /\ voteRing'[n][i] \in votes /\ voteRing'[n][i].to = n
          /\ voteRing'[n][i] \notin counted[n]
      BY <3>1 DEF Order, QueuedOK
    <3>3. voteRing'[n][i] # Head(voteRing[n])
      BY <1>2, <1>4, <1>5, <2>2, <3>1
    <3>4. ASSUME NEW j \in 1..Len(voteRing'[n]), voteRing'[n][j] = voteRing'[n][i]
          PROVE  j = i
      <4>1. j + 1 \in 1..Len(voteRing[n]) /\ voteRing'[n][j] = voteRing[n][j + 1]
        BY <1>2, <1>5
      <4>2. voteRing[n][j + 1] = voteRing[n][i + 1]
        BY <3>1, <3>4, <4>1
      <4>3. j + 1 = i + 1
        BY <3>1, <4>1, <4>2 DEF Order, QueuedOK
      <4>4. i \in Int /\ j \in Int
        BY <2>2
      <4> QED BY <4>3, <4>4
    <3>5. voteRing'[n][i] \in votes' /\ voteRing'[n][i] \notin counted'[n]
      BY <1>5, <3>2, <3>3
    <3> QED BY <2>2, <3>2, <3>4, <3>5
  <2> QED BY <2>1, <2>2
<1> QED BY <1>3, <1>6

LEMMA SameTerms ==
  ASSUME Turns, term' = term, votedFor' = votedFor
  PROVE  Forward
<1>1. \A a \in Nat : a >= a
  OBVIOUS
<1>2. \A p \in Nodes : term[p] \in Nat
  BY DEF Turns, TypeOK
<1> QED BY <1>1, <1>2 DEF Forward

\* An answer is for a vote that no other answer, queue or count stands for, so
\* those on their way are not the ones that leave the ring.
LEMMA AnswersKeep ==
  ASSUME Order, NEW n \in Nodes, voteRing[n] # <<>>, votes' = votes, messages' = messages,
         voteRing' = [voteRing EXCEPT ![n] = Tail(@)],
         \/ counted' = counted
         \/ counted' = [counted EXCEPT ![n] = @ \cup {Head(voteRing[n])}]
  PROVE  AnswersOK'
<1>1. voteRing[n] \in Seq(Vote)
  BY DEF Order, Turns, TypeOK
<1>2. /\ Head(voteRing[n]) = voteRing[n][1] /\ 1 \in 1..Len(voteRing[n])
      /\ \A i \in 1..Len(Tail(voteRing[n])) :
           /\ i + 1 \in 1..Len(voteRing[n])
           /\ Tail(voteRing[n])[i] = voteRing[n][i + 1]
  BY <1>1, TailOf
<1>3. /\ voteRing'[n] = Tail(voteRing[n])
      /\ \A p \in Nodes \ {n} : voteRing'[p] = voteRing[p] /\ counted'[p] = counted[p]
      /\ counted'[n] \subseteq counted[n] \cup {Head(voteRing[n])}
  BY DEF Order, Turns, TypeOK
<1> SUFFICES ASSUME NEW m \in messages, m.kind = "grant"
             PROVE  /\ Given(m) \in votes /\ Given(m) \notin counted'[m.to]
                    /\ \A i \in 1..Len(voteRing'[m.to]) : voteRing'[m.to][i] # Given(m)
  BY DEF AnswersOK, Given
<1>4. /\ Given(m) \in votes /\ Given(m) \notin counted[m.to]
      /\ \A i \in 1..Len(voteRing[m.to]) : voteRing[m.to][i] # Given(m)
  BY DEF Order, AnswersOK
<1>5. m.to \in Nodes
  BY MessageFields DEF Order, Turns, TypeOK
<1>6. CASE m.to # n
  BY <1>3, <1>4, <1>5, <1>6
<1>7. CASE m.to = n
  BY <1>2, <1>3, <1>4, <1>7
<1> QED BY <1>6, <1>7

LEMMA DrainStopsOrder ==
  ASSUME Order, NEW n \in Nodes, DrainStops(n)
  PROVE  OrderInv'
<1>1. /\ term' = term /\ votedFor' = votedFor /\ messages' = messages
      /\ UNCHANGED <<votes, counted, votesReceived, leaders, judging, alive>>
  BY DEF DrainStops, node, life, history, running, sending
<1>2. Forward
  BY <1>1, SameTerms DEF Order
<1>3. CASE voteRing' = voteRing
  BY <1>1, <1>2, <1>3, QuietOrder
<1>4. CASE voteRing[n] # <<>> /\ voteRing' = [voteRing EXCEPT ![n] = Tail(@)]
  <2>1. QueuedOK' /\ AnswersOK'
    BY <1>1, <1>4, RingShrinks, AnswersKeep
  <2>2. AllAlive' /\ OnceOK' /\ VotesOK' /\ RequestsOK' /\ CountedOK' /\ LeadersOK'
    BY <1>1, <1>2, VotesStay, RequestsStay, CountedStays, LeadersStay DEF Order, AllAlive
  <2> QED BY <2>1, <2>2 DEF OrderInv
<1> QED BY <1>3, <1>4 DEF DrainStops

LEMMA DrainVoteOrder ==
  ASSUME Order, NEW n \in Nodes, DrainVote(n)
  PROVE  OrderInv'
<1> DEFINE vote == Head(voteRing[n])
<1>1. /\ term' = term /\ votedFor' = votedFor /\ messages' = messages
      /\ UNCHANGED <<votes, judging, alive>>
      /\ voteRing[n] # <<>> /\ voteRing' = [voteRing EXCEPT ![n] = Tail(@)]
      /\ counted' = [counted EXCEPT ![n] = @ \cup {vote}]
      /\ votesReceived' = [votesReceived EXCEPT ![n] = @ + 1]
  BY DEF DrainVote, life, running, sending
<1>2. Forward
  BY <1>1, SameTerms DEF Order
<1>3. /\ vote \in votes /\ vote.to = n /\ vote \notin counted[n]
      /\ QueuedOK' /\ AnswersOK'
  BY <1>1, RingShrinks, AnswersKeep
<1>4. AllAlive' /\ OnceOK' /\ VotesOK' /\ RequestsOK'
  BY <1>1, <1>2, VotesStay, RequestsStay DEF Order, AllAlive
<1>5. /\ counted'[n] = counted[n] \cup {vote} /\ votesReceived'[n] = votesReceived[n] + 1
      /\ \A p \in Nodes \ {n} :
           counted'[p] = counted[p] /\ votesReceived'[p] = votesReceived[p]
  BY <1>1 DEF Order, Turns, TypeOK
<1>6. /\ IsFiniteSet(counted'[n]) /\ Cardinality(counted'[n]) = votesReceived[n] + 1
      /\ counted'[n] \subseteq votes /\ \A v \in counted'[n] : v.to = n
  <2>1. /\ IsFiniteSet(counted[n]) /\ Cardinality(counted[n]) = votesReceived[n]
        /\ counted[n] \subseteq votes /\ \A v \in counted[n] : v.to = n
    BY DEF Order, CountedOK
  <2>2. /\ IsFiniteSet(counted[n] \cup {vote})
        /\ Cardinality(counted[n] \cup {vote}) = Cardinality(counted[n]) + 1
    BY <1>3, <2>1, FS_AddElement
  <2> QED BY <1>3, <1>5, <2>1, <2>2
<1>7. CountedOK'
  <2> SUFFICES ASSUME NEW p \in Nodes
               PROVE  /\ counted'[p] \subseteq votes' /\ \A v \in counted'[p] : v.to = p
                      /\ IsFiniteSet(counted'[p])
                      /\ Cardinality(counted'[p]) = votesReceived'[p]
    BY DEF CountedOK
  <2>1. CASE p = n
    BY <1>1, <1>5, <1>6, <2>1
  <2>2. CASE p # n
    BY <1>1, <1>5, <2>2 DEF Order, CountedOK
  <2> QED BY <2>1, <2>2
<1>8. LeadersOK'
  <2>1. CASE leaders' = leaders
    BY <1>1, <2>1, LeadersStay DEF Order
  <2>2. CASE /\ Enough(n)
             /\ leaders' = leaders \cup
                  {[node |-> n, term |-> term[n], votes |-> counted'[n]]}
    <3>1. Cardinality(counted'[n]) >= QuorumSize
      <4>1. VotesNeeded(n) \in Nat /\ VotesNeeded(n) >= QuorumSize /\ QuorumSize \in Nat
        BY VotesNeededType, ElectionAssumption
      <4>2. votesReceived[n] + 1 \in Nat /\ votesReceived[n] + 1 >= VotesNeeded(n)
        BY <2>2 DEF Enough, Order, Turns, TypeOK
      <4>3. \A a, b, c \in Nat : a >= b /\ b >= c => a >= c
        OBVIOUS
      <4> QED BY <1>6, <4>1, <4>2, <4>3
    <3>2. ASSUME NEW l \in leaders'
          PROVE  /\ l.votes \subseteq votes /\ \A v \in l.votes : v.to = l.node
                 /\ IsFiniteSet(l.votes) /\ Cardinality(l.votes) >= QuorumSize
      <4>1. CASE l \in leaders
        BY <4>1 DEF Order, LeadersOK
      <4>2. CASE l = [node |-> n, term |-> term[n], votes |-> counted'[n]]
        <5>1. l.votes = counted'[n] /\ l.node = n
          BY <4>2
        <5> QED BY <1>6, <3>1, <5>1
      <4> QED BY <2>2, <4>1, <4>2
    <3> QED BY <1>1, <3>2 DEF LeadersOK
  <2> QED BY <2>1, <2>2 DEF DrainVote
<1> QED BY <1>3, <1>4, <1>7, <1>8 DEF OrderInv

\* Timers, heartbeats, Sync and Insert calls.
LEMMA QuietStepOrder ==
  ASSUME Order, NEW n \in Nodes,
         \/ HeartbeatTick(n) \/ SyncTick(n) \/ ReceiveInsert(n)
         \/ \E p \in Peers(n) : SendHeartbeat(n, p)
         \/ \E m \in messages : ReceiveHeartbeat(n, m) \/ ReceiveSync(n, m)
  PROVE  OrderInv'
<1>1. CASE HeartbeatTick(n)
  <2>1. /\ UNCHANGED <<votes, counted, voteRing, votesReceived, leaders, judging, alive>>
        /\ term' = term /\ votedFor' = votedFor
        /\ \A m \in messages' \ messages : m.kind \notin {"vote", "grant"}
    BY <1>1 DEF HeartbeatTick, node, ring, life, history, running, sending
  <2> QED BY <2>1, SameTerms, QuietOrder DEF Order
<1>5. ASSUME NEW p \in Peers(n), SendHeartbeat(n, p)
      PROVE  OrderInv'
  <2>1. /\ UNCHANGED <<votes, counted, voteRing, votesReceived, leaders, judging, alive>>
        /\ term' = term /\ votedFor' = votedFor
        /\ \A m \in messages' \ messages : m.kind \notin {"vote", "grant"}
    BY <1>5 DEF SendHeartbeat, node, ring, life, history, running
  <2> QED BY <2>1, SameTerms, QuietOrder DEF Order
<1>2. CASE SyncTick(n)
  <2>1. /\ UNCHANGED <<votes, counted, voteRing, votesReceived, leaders, judging, alive>>
        /\ term' = term /\ votedFor' = votedFor
        /\ \A m \in messages' \ messages : m.kind \notin {"vote", "grant"}
    BY <1>2 DEF SyncTick, node, ring, life, history, running, sending
  <2> QED BY <2>1, SameTerms, QuietOrder DEF Order
<1>3. CASE ReceiveInsert(n)
  <2>1. /\ UNCHANGED <<votes, counted, voteRing, votesReceived, leaders, judging, alive>>
        /\ term' = term /\ votedFor' = votedFor /\ messages' = messages
    BY <1>3 DEF ReceiveInsert, ring, life, history, running, sending
  <2> QED BY <2>1, SameTerms, QuietOrder DEF Order
<1>4. ASSUME NEW m \in messages, ReceiveHeartbeat(n, m) \/ ReceiveSync(n, m)
      PROVE  OrderInv'
  <2>1. m.term \in Nat
    BY MessageFields DEF Order, Turns, TypeOK
  <2>2. /\ UNCHANGED <<votes, counted, voteRing, votesReceived, leaders, judging, alive>>
        /\ messages' = messages \ {m}
    BY <1>4 DEF ReceiveHeartbeat, ReceiveSync, ring, life, history, running, sending
  <2>3. \/ m.term > term[n] /\ StepDownTo(n, m.term)
        \/ UNCHANGED <<term, votedFor>>
    BY <1>4 DEF ReceiveHeartbeat, ReceiveSync
  <2>4. Forward
    BY <2>1, <2>3, StepDownForward DEF Order
  <2> QED BY <2>2, <2>4, QuietOrder
<1> QED BY <1>1, <1>2, <1>3, <1>4, <1>5

\* A history in which nobody has crashed had no crash before, either.
LEMMA RestartsGrow ==
  ASSUME TypeOK, [Next]_vars, restarts' = 0
  PROVE  restarts = 0 /\ \A n \in Nodes : ~Crash(n)
<1>1. ASSUME NEW n \in Nodes, Crash(n) PROVE FALSE
  BY <1>1 DEF TypeOK, Crash
<1>2. ASSUME NEW n \in Nodes, Step(n), ~Crash(n) PROVE restarts' = restarts
  <2>1. CASE Tick(n)
    BY <2>1 DEF Tick, StartElection, HeartbeatTick, SyncTick, life, running, sending
  <2>2. CASE Finish(n)
    BY <2>2 DEF Finish, DrainStops, DrainVote, Grant, Continue, SendHeartbeat, life
  <2>3. ASSUME NEW m \in messages, Receive(n, m) PROVE restarts' = restarts
    BY <2>3 DEF Receive, Judge, PublishVote, ReceiveHeartbeat, ReceiveSync, Load, life
  <2>4. CASE ReceiveInsert(n) \/ Restart(n)
    BY <2>4 DEF ReceiveInsert, Restart, life, running, sending
  <2> QED BY <1>2, <2>1, <2>2, <2>3, <2>4 DEF Step
<1>3. CASE UNCHANGED vars
  BY <1>1, <1>3 DEF vars, life, running, sending
<1> QED BY <1>1, <1>2, <1>3 DEF Next

LEMMA OrderStep == TypeOK /\ TurnInv /\ OrderInv /\ [Next]_vars => OrderInv'
<1> SUFFICES ASSUME TypeOK, TurnInv, OrderInv, [Next]_vars, Orderly' PROVE OrderInv'
  BY DEF OrderInv
<1>1. overlap' = overlap /\ ~overlap /\ restarts' = 0
  BY DEF Next, vars, Orderly
<1>2. restarts = 0 /\ \A n \in Nodes : ~Crash(n)
  BY <1>1, RestartsGrow
<1>3. Order
  BY <1>1, <1>2, TypeStep, NoneLateStep DEF Order, Turns, TurnInv, OrderInv, Orderly
<1>4. ASSUME NEW n \in Nodes, Step(n) PROVE OrderInv'
  <2>1. CASE Tick(n)
    BY <1>3, <2>1, StartElectionOrder, QuietStepOrder DEF Tick
  <2>2. CASE Finish(n)
    BY <1>3, <2>2, DrainStopsOrder, DrainVoteOrder, GrantOrder, QuietStepOrder
       DEF Finish, Order, Turns, NoneLate
  <2>3. ASSUME NEW m \in messages, Receive(n, m) PROVE OrderInv'
    BY <1>1, <1>3, <2>3, JudgeOrder, PublishVoteOrder, QuietStepOrder DEF Receive, Load
  <2>4. CASE ReceiveInsert(n)
    BY <1>3, <2>4, QuietStepOrder
  <2>5. ~Restart(n)
    BY <1>3 DEF Restart, Order, AllAlive
  <2> QED BY <1>2, <1>4, <2>1, <2>2, <2>3, <2>4, <2>5 DEF Step
<1>5. CASE UNCHANGED vars
  <2>1. /\ UNCHANGED <<votes, counted, voteRing, votesReceived, leaders, judging, alive>>
        /\ term' = term /\ votedFor' = votedFor /\ messages' = messages
    BY <1>5 DEF vars, node, ring, life, history, running, sending
  <2> QED BY <1>3, <2>1, SameTerms, QuietOrder DEF Order
<1> QED BY <1>4, <1>5 DEF Next

-----------------------------------------------------------------------------
(* The theorems *)

LEMMA InitInv == Init => IInv
<1> SUFFICES ASSUME Init PROVE IInv
  OBVIOUS
<1>1. TypeOK
  BY InitType
<1>2. TurnInv
  BY DEF Init, TurnInv, NoneLate, JudgedOK, SentOK, RolesOK, DeadIdle, Follower, Leader
<1>3. OrderInv
  <2>1. AllAlive /\ OnceOK /\ VotesOK /\ RequestsOK /\ AnswersOK /\ LeadersOK
    BY DEF Init, AllAlive, OnceOK, VotesOK, RequestsOK, AnswersOK, LeadersOK
  <2>2. QueuedOK
    BY DEF Init, QueuedOK
  <2>3. CountedOK
    BY FS_EmptySet DEF Init, CountedOK
  <2> QED BY <2>1, <2>2, <2>3 DEF OrderInv
<1> QED BY <1>1, <1>2, <1>3 DEF IInv

LEMMA InvStep == IInv /\ [Next]_vars => IInv'
  BY TypeStep, TurnStep, OrderStep DEF IInv

\* As many different nodes have voted as there are votes of one term for one node.
LEMMA Voters ==
  ASSUME NEW S \in SUBSET Vote, IsFiniteSet(S),
         \A v, w \in S : v.voter = w.voter => v = w
  PROVE  LET W == {v.voter : v \in S}
         IN  W \subseteq Nodes /\ Cardinality(W) = Cardinality(S)
<1> DEFINE W == {v.voter : v \in S}
           voter == [v \in S |-> v.voter]
<1>1. W \subseteq Nodes
  BY VoteFields
<1>2. voter \in Bijection(S, W)
  <2>1. voter \in [S -> W] /\ \A w \in W : \E v \in S : voter[v] = w
    OBVIOUS
  <2>2. \A v, w \in S : voter[v] = voter[w] => v = w
    OBVIOUS
  <2> QED BY <2>1, <2>2 DEF Bijection, Injection, Surjection, IsInjective
<1>3. Cardinality(W) = Cardinality(S)
  BY <1>2, FS_Bijection DEF ExistsBijection
<1> QED BY <1>1, <1>3

\* Two quorums have a voter in common, and it voted for one of the two leaders.
LEMMA LeadersAgree ==
  ASSUME TypeOK, OnceOK, LeadersOK, NEW k \in leaders, NEW l \in leaders,
         k.term = l.term, \A v \in k.votes : v.term = k.term,
         \A v \in l.votes : v.term = l.term
  PROVE  k.node = l.node
<1> DEFINE V(j) == {v.voter : v \in j.votes}
<1>1. \A j \in {k, l} :
         /\ j.votes \subseteq votes /\ \A v \in j.votes : v.to = j.node /\ v.term = k.term
         /\ IsFiniteSet(j.votes) /\ Cardinality(j.votes) >= QuorumSize
  BY DEF LeadersOK
<1>2. \A j \in {k, l} :
         V(j) \subseteq Nodes /\ Cardinality(V(j)) = Cardinality(j.votes)
  <2> SUFFICES ASSUME NEW j \in {k, l}
               PROVE  V(j) \subseteq Nodes /\ Cardinality(V(j)) = Cardinality(j.votes)
    OBVIOUS
  <2>1. j.votes \subseteq Vote
    BY <1>1 DEF TypeOK
  <2>2. \A v \in Vote : v = [voter |-> v.voter, to |-> v.to, term |-> v.term]
    BY DEF Vote
  <2>3. \A v, w \in j.votes : v.voter = w.voter => v = w
    BY <1>1, <2>1, <2>2
  <2> QED BY <1>1, <2>1, <2>3, Voters
<1>3. Cardinality(V(k)) + Cardinality(V(l)) > Cardinality(Nodes)
  <2>1. /\ Cardinality(V(k)) \in Nat /\ Cardinality(V(k)) >= QuorumSize
        /\ Cardinality(V(l)) \in Nat /\ Cardinality(V(l)) >= QuorumSize
    BY <1>1, <1>2, FS_CardinalityType
  <2>2. Cardinality(Nodes) \in Nat
    BY ElectionAssumption, FS_CardinalityType
  <2> QED BY <2>1, <2>2, ElectionAssumption
<1>4. PICK n : n \in V(k) /\ n \in V(l)
  <2>1. V(k) \cap V(l) # {}
    BY <1>2, <1>3, ElectionAssumption, FS_MajoritiesIntersect
  <2> QED BY <2>1
<1>5. PICK v \in k.votes, w \in l.votes : v.voter = n /\ w.voter = n
  BY <1>4
<1>6. v \in votes /\ w \in votes /\ v.term = w.term
  BY <1>1
<1>7. v.to = w.to
  BY <1>5, <1>6 DEF OnceOK
<1> QED BY <1>1, <1>7

LEMMA InvVotes == IInv => VotesHold
<1> SUFFICES ASSUME IInv PROVE VotesHold
  OBVIOUS
<1>1. TypeOK
  BY DEF IInv
<1>2. VoteOnce
  BY DEF IInv, OrderInv, VoteOnce, VotedOnce, OnceOK
<1>3. FreshVotesSafe
  <2> SUFFICES ASSUME Orderly, NEW k \in leaders, NEW l \in leaders,
                      k.term = l.term, \A v \in k.votes : v.term = k.term,
                      \A v \in l.votes : v.term = l.term
               PROVE  k.node = l.node
    BY DEF FreshVotesSafe
  <2> QED BY LeadersAgree DEF IInv, OrderInv
<1> QED BY <1>1, <1>2, <1>3 DEF VotesHold, Inv

LEMMA InvAwake == IInv => LeaderAwake
<1> SUFFICES ASSUME IInv, ~overlap, NEW n \in Nodes, role[n] = Leader,
                    \A b \in heard : b.term = term[n] => b.node = n
             PROVE  electionTimer[n] = "watched"
  BY DEF LeaderAwake
<1>1. \A p \in Nodes \ {n} : ~Heard(p, term[n])
  BY DEF Heard
<1> QED BY <1>1 DEF IInv, TurnInv, RolesOK, Leader, Follower

\* What a step may do to the term and the role of a node that runs.
LEMMA StepRoles ==
  ASSUME TypeOK, TurnInv, ~overlap, NEW p \in Nodes, Step(p), NEW n \in Nodes, alive[n]
  PROVE  \/ term'[n] = term[n] /\ (role'[n] = Follower => role[n] = Follower)
         \/ term'[n] > term[n]
<1> USE DEF TypeOK
<1>1. CASE StartElection(p)
  <2>1. term'[n] \in {term[n], term[n] + 1} /\ term[n] \in Nat
    BY <1>1 DEF StartElection
  <2>2. n # p => term'[n] = term[n] /\ role'[n] = role[n]
    BY <1>1 DEF StartElection
  <2>3. n = p => term'[n] = term[n] + 1
    BY <1>1 DEF StartElection
  <2> QED BY <2>1, <2>2, <2>3
<1>2. CASE HeartbeatTick(p) \/ SyncTick(p) \/ ReceiveInsert(p) \/ DrainStops(p) \/ Crash(p)
  BY <1>2 DEF HeartbeatTick, SyncTick, ReceiveInsert, DrainStops, Crash, node, running, sending
<1>3. CASE DrainVote(p)
  BY <1>3 DEF DrainVote, Leader, Follower
<1>4. ASSUME NEW m \in judging[p], Grant(p, m)
      PROVE  term'[n] = term[n] /\ role'[n] = role[n]
  BY <1>4 DEF Grant
<1>5. ASSUME NEW m \in messages, PublishVote(p, m)
      PROVE  term'[n] = term[n] /\ role'[n] = role[n]
  BY <1>5 DEF PublishVote, node, running, sending
<1>6. ASSUME NEW m \in messages, Judge(p, m) \/ ReceiveHeartbeat(p, m) \/ ReceiveSync(p, m)
      PROVE  \/ term'[n] = term[n] /\ role'[n] = role[n]
             \/ term'[n] > term[n]
  <2>1. \/ m.term > term[p] /\ StepDownTo(p, m.term)
        \/ UNCHANGED <<role, term>>
    BY <1>6 DEF Judge, ReceiveHeartbeat, ReceiveSync
  <2>2. CASE m.term > term[p] /\ StepDownTo(p, m.term)
    BY <2>2 DEF StepDownTo
  <2> QED BY <2>1, <2>2
<1>7. CASE Restart(p)
  BY <1>7 DEF Restart
<1>8. ASSUME NEW q, SendHeartbeat(p, q) PROVE term'[n] = term[n] /\ role'[n] = role[n]
  BY <1>8 DEF SendHeartbeat, node
<1>9. /\ ~ \E h \in late[p] : Continue(p, h)
      /\ ~ \E m \in messages : Load(p, m)
  BY DEF TurnInv, NoneLate, Load
<1> QED BY <1>1, <1>2, <1>3, <1>4, <1>5, <1>6, <1>7, <1>8, <1>9
        DEF Step, Tick, Finish, Receive

LEMMA RolesStep ==
  ASSUME IInv, IInv', [Next]_vars, NEW n \in Nodes, ~overlap, alive[n]
  PROVE  /\ term'[n] >= term[n]
         /\ role[n] # Follower /\ role'[n] = Follower => term'[n] > term[n]
         /\ role'[n] = Leader => votedFor'[n] = n
<1>1. \/ term'[n] = term[n] /\ (role'[n] = Follower => role[n] = Follower)
      \/ term'[n] > term[n]
  <2>1. CASE UNCHANGED vars
    BY <2>1 DEF vars, node, running, sending
  <2> QED BY <2>1, StepRoles DEF Next, IInv
<1>2. term[n] \in Nat /\ term'[n] \in Nat
  BY DEF IInv, TypeOK
<1>3. role'[n] = Leader => votedFor'[n] = n
  BY DEF IInv, TurnInv, RolesOK, Next, vars, Leader, Follower
<1>4. \A a, b \in Nat : (a = b => a >= b) /\ (a > b => a >= b)
  OBVIOUS
<1> QED BY <1>1, <1>2, <1>3, <1>4

\* Whatever is delivered late, out of order or never: nodes whose handlers take
\* turns and stay up vote once in a term, and only votes counted late can make
\* two leaders of one term (handleVoteRequest, drainVotes).
THEOREM Voting == Spec => []VotesHold
<1>1. Spec => []IInv
  BY InitInv, InvStep, PTL DEF Spec
<1> QED BY <1>1, InvVotes, PTL

\* A leader whose handlers take turns waits for a timer that will fire, though
\* becomeLeader replaces the heartbeat timer behind tick's back: its election
\* timer is left running, unless a heartbeat of its term came from elsewhere.
THEOREM Awake == Spec => []LeaderAwake
<1>1. Spec => []IInv
  BY InitInv, InvStep, PTL DEF Spec
<1> QED BY <1>1, InvAwake, PTL

\* While handlers take turns: no term goes back, nobody gives up leading or
\* campaigning but for a higher term, crashes and restarts of others included,
\* and a leader keeps its vote for itself.
THEOREM Roles == Spec => RolesFollowTerms
<1>1. Spec => []IInv
  BY InitInv, InvStep, PTL DEF Spec
<1>2. IInv /\ IInv' /\ [Next]_vars =>
        [\A n \in Nodes : ~overlap /\ alive[n] =>
           /\ term'[n] >= term[n]
           /\ role[n] # Follower /\ role'[n] = Follower => term'[n] > term[n]
           /\ role'[n] = Leader => votedFor'[n] = n]_vars
  BY RolesStep
<1> QED BY <1>1, <1>2, PTL DEF Spec, RolesFollowTerms
=============================================================================
