------------------------------ MODULE Election ------------------------------
(***************************************************************************)
(* dmt/election.go: leader election between the nodes of a cluster, with   *)
(* the RequestVote, Heartbeat, Sync and Insert handlers of dmt/network.go  *)
(* that drive it.                                                          *)
(*                                                                         *)
(* A node runs one tick goroutine (its two timers), one goroutine per      *)
(* vote request and per heartbeat it sends, and one handler at a time for  *)
(* every connection.  overlap says whether these interleave within a node. *)
(* If they take turns, a handler is one action, but for the vote that is   *)
(* stored after the decision and the drain of the vote ring, a loop: no    *)
(* other node sees what is in between.  If they overlap, a handler that    *)
(* loads the term, compares it and steps down does each load and store in  *)
(* a step of its own; startElection and a turn of drainVotes stay whole,   *)
(* so behaviours with overlap show what can go wrong, not all of it.       *)
(*                                                                         *)
(* tick's select evaluates electionTimer.C and heartbeatTimer.C once, on   *)
(* entry: a timer that another goroutine replaces is not the one it waits  *)
(* for.  A message may be delivered late, out of order, or never.          *)
(***************************************************************************)
EXTENDS Integers, Sequences, FiniteSets

CONSTANTS Nodes,
          None,           \* votedFor = 0
          QuorumSize,     \* config.QuorumSize
          MaxIndex,       \* bound: log indexes that Insert calls carry
          MaxEvents,      \* bound: what starts something, see Event
          MaxTogether     \* bound: the same, if handlers overlap

\* NewNetworkNode: QuorumSize is a majority of the configured cluster.
ASSUME ElectionAssumption ==
  /\ IsFiniteSet(Nodes) /\ None \notin Nodes
  /\ QuorumSize \in Nat /\ 2 * QuorumSize > Cardinality(Nodes)
  /\ MaxIndex \in Nat /\ MaxEvents \in Nat /\ MaxTogether \in 0..MaxEvents

VARIABLES overlap,         \* do the goroutines of one node overlap?
          role, term, votedFor, votesReceived,
          lastLog,         \* lastLogTerm and lastLogIndex
          voteRing,        \* the grants published and not yet popped
          drainers,        \* goroutines in drainVotes
          late,            \* if handlers overlap: those that have loaded
                           \* the term, and have a store or a load to do
          judging,         \* vote requests found good whose vote is not stored
          beats,           \* goroutines that have a heartbeat to send, per peer
          electionTimer,   \* does tick's select wait for the current timer?
          heartbeatTimer,  \* the same, stopped, or "both": the one tick waits
                           \* for and the current one will fire
          alive, restarts,
          messages,        \* RPCs in flight
          events,          \* what has been started so far
          heard,           \* history: who sent a heartbeat of which term
          votes,           \* history: every vote cast
          counted,         \* history: the votes counted in this campaign
          leaders          \* history: who led which term on which votes

node    == <<role, term, votedFor, votesReceived, lastLog>>
timers  == <<electionTimer, heartbeatTimer>>
ring    == <<voteRing, drainers, counted>>
life    == <<alive, restarts>>
running == <<late, judging>>
sending == <<beats, heard>>
history == <<votes, leaders>>
vars    == <<overlap, node, timers, ring, life, running, sending, messages, events,
             history>>

Follower  == "Follower"
Candidate == "Candidate"
Leader    == "Leader"

Peers(n) == Nodes \ {n}

\* max(config.QuorumSize, (len(peers)/2)+1)
VotesNeeded(n) == LET half == Cardinality(Peers(n)) \div 2 + 1
                  IN  IF QuorumSize > half THEN QuorumSize ELSE half

Log  == [term : Nat, index : Nat]
Vote == [voter : Nodes, to : Nodes, term : Nat]
Message ==
       [kind : {"vote"}, from : Nodes, to : Nodes, term : Nat, log : Log]
  \cup [kind : {"heartbeat", "sync", "grant"}, from : Nodes, to : Nodes,
        term : Nat]

\* A handler: the term it has loaded, and the store or load it comes to.
Handler == [m : Message, seen : Nat,
            at : {"role", "term", "votedFor", "judge", "reset"}]

TypeOK ==
  /\ overlap \in BOOLEAN
  /\ role \in [Nodes -> {Follower, Candidate, Leader}]
  /\ term \in [Nodes -> Nat]
  /\ votedFor \in [Nodes -> Nodes \cup {None}]
  /\ votesReceived \in [Nodes -> Nat]
  /\ lastLog \in [Nodes -> Log]
  /\ voteRing \in [Nodes -> Seq(Vote)]
  /\ drainers \in [Nodes -> Nat]
  /\ late \in [Nodes -> SUBSET Handler]
  /\ judging \in [Nodes -> SUBSET Message]
  /\ beats \in [Nodes -> [Nodes -> Nat]]
  /\ heard \in SUBSET [node : Nodes, term : Nat]
  /\ electionTimer \in [Nodes -> {"watched", "replaced"}]
  /\ heartbeatTimer \in [Nodes -> {"stopped", "watched", "replaced", "both"}]
  /\ alive \in [Nodes -> BOOLEAN] /\ restarts \in Nat
  /\ messages \in SUBSET Message
  /\ events \in 0..MaxEvents
  /\ votes \in SUBSET Vote
  /\ counted \in [Nodes -> SUBSET Vote]
  /\ leaders \in SUBSET [node : Nodes, term : Nat, votes : SUBSET Vote]

\* NewElection: the heartbeat timer is created and stopped.
Init ==
  /\ overlap \in BOOLEAN
  /\ role = [n \in Nodes |-> Follower]
  /\ term = [n \in Nodes |-> 0]
  /\ votedFor = [n \in Nodes |-> None]
  /\ votesReceived = [n \in Nodes |-> 0]
  /\ lastLog = [n \in Nodes |-> [term |-> 0, index |-> 0]]
  /\ voteRing = [n \in Nodes |-> <<>>]
  /\ drainers = [n \in Nodes |-> 0]
  /\ late = [n \in Nodes |-> {}]
  /\ judging = [n \in Nodes |-> {}]
  /\ beats = [n \in Nodes |-> [p \in Nodes |-> 0]]
  /\ heard = {}
  /\ electionTimer = [n \in Nodes |-> "watched"]
  /\ heartbeatTimer = [n \in Nodes |-> "stopped"]
  /\ alive = [n \in Nodes |-> TRUE] /\ restarts = 0
  /\ messages = {}
  /\ events = 0
  /\ votes = {}
  /\ counted = [n \in Nodes |-> {}]
  /\ leaders = {}

-----------------------------------------------------------------------------
\* n runs, and no other goroutine of n is halfway if they may not overlap.
Free(n) == alive[n] /\ (overlap \/ (judging[n] = {} /\ drainers[n] = 0))

\* n runs, its handlers take turns, and it is free for the next.
InTurn(n) == ~overlap /\ Free(n)

\* What starts something new is bounded: campaigns, heartbeats, Sync rounds,
\* Inserts and crashes.
Event == /\ events < (IF overlap THEN MaxTogether ELSE MaxEvents)
         /\ events' = events + 1

\* stepDownLocked when newTerm is higher; otherwise the caller leaves n alone.
StepDownTo(n, newTerm) ==
  /\ role' = [role EXCEPT ![n] = Follower]
  /\ term' = [term EXCEPT ![n] = newTerm]
  /\ votedFor' = [votedFor EXCEPT ![n] = None]
  /\ electionTimer' = [electionTimer EXCEPT ![n] = "replaced"]

Promoted(n) == leaders \cup
  {[node |-> n, term |-> term'[n], votes |-> counted'[n]]}

\* becomeLeader replaces the heartbeat timer and leaves the old one alone.
Renewed(timer) == IF timer \in {"stopped", "replaced"} THEN "replaced" ELSE "both"

\* What tick's select waits for when it is entered.
Watched(timer) == IF timer = "stopped" THEN "stopped" ELSE "watched"

-----------------------------------------------------------------------------
(* tick *)

\* The election timer fires, whatever the role: startElection.  tick then
\* enters its select again, which sees the timers as they are now.  (A request
\* carries the log of this moment; its goroutine reads it when it sends.)
StartElection(n) ==
  /\ Free(n) /\ electionTimer[n] = "watched" /\ Event
  /\ LET self == [voter |-> n, to |-> n, term |-> term[n] + 1]
         wins == VotesNeeded(n) <= 1
     IN
     /\ term' = [term EXCEPT ![n] = @ + 1]
     /\ votedFor' = [votedFor EXCEPT ![n] = n]
     /\ votesReceived' = [votesReceived EXCEPT ![n] = 1]
     /\ role' = [role EXCEPT ![n] = IF wins THEN Leader ELSE Candidate]
     /\ heartbeatTimer' = [heartbeatTimer EXCEPT ![n] =
                             IF wins THEN "watched" ELSE Watched(@)]
     /\ messages' = messages \cup
          {[kind |-> "vote", from |-> n, to |-> p, term |-> term[n] + 1,
            log |-> lastLog[n]] : p \in Peers(n)}
     /\ votes' = votes \cup {self}
     /\ counted' = [counted EXCEPT ![n] = {self}]
     /\ leaders' = IF wins THEN Promoted(n) ELSE leaders
  /\ UNCHANGED <<lastLog, electionTimer, voteRing, drainers, life, running, sending>>

\* The heartbeat timer that tick waits for fires: a leader starts a goroutine
\* per peer and resets the current one, anyone else lets it run out.  tick's
\* select then waits for the current timers.
HeartbeatTick(n) ==
  /\ Free(n) /\ heartbeatTimer[n] \in {"watched", "both"}
  /\ electionTimer' = [electionTimer EXCEPT ![n] = "watched"]
  /\ \/ /\ role[n] = Leader /\ Event
        /\ beats' = [beats EXCEPT ![n] =
                       [p \in Nodes |-> IF p \in Peers(n) THEN @[p] + 1 ELSE @[p]]]
        /\ heartbeatTimer' = [heartbeatTimer EXCEPT ![n] = "watched"]
     \/ /\ role[n] # Leader
        /\ heartbeatTimer' = [heartbeatTimer EXCEPT ![n] =
                                IF @ = "both" THEN "watched" ELSE "stopped"]
        /\ UNCHANGED <<beats, events>>
  /\ UNCHANGED <<node, ring, life, running, heard, messages, history>>

\* Such a goroutine sends the term of the moment, whatever n is by then.
SendHeartbeat(n, p) ==
  /\ Free(n) /\ beats[n][p] > 0
  /\ beats' = [beats EXCEPT ![n][p] = @ - 1]
  /\ heard' = heard \cup {[node |-> n, term |-> term[n]]}
  /\ messages' = messages \cup
       {[kind |-> "heartbeat", from |-> n, to |-> p, term |-> term[n]]}
  /\ UNCHANGED <<events, node, timers, ring, life, running, history>>

-----------------------------------------------------------------------------
(* handleVoteRequest *)

LogOK(n, m) == \/ m.log.term > lastLog[n].term
               \/ /\ m.log.term = lastLog[n].term
                  /\ m.log.index >= lastLog[n].index

\* Mutant: a node that has voted in this term looks only at the log.
GoodAnyVote(n, m) == m.term >= term[n] /\ LogOK(n, m)

\* What handleVoteRequest grants, after its step down to a higher term.
Good(n, m) == /\ m.term >= term[n]
              /\ m.term > term[n] \/ votedFor[n] \in {None, m.from}
              /\ LogOK(n, m)

\* Mutant: the step down also on a request of the node's own term.
JudgeAnyTerm(n, m) ==
  /\ InTurn(n) /\ m.kind = "vote" /\ m.to = n
  /\ messages' = messages \ {m}
  /\ judging' = [judging EXCEPT ![n] = IF Good(n, m) THEN @ \cup {m} ELSE @]
  /\ m.term >= term[n] /\ StepDownTo(n, m.term)
  /\ UNCHANGED <<events, votesReceived, lastLog, heartbeatTimer, ring, life, late,
                 sending, history>>

\* The part up to the store of votedFor, of handlers that take turns.  A
\* request that is refused and raises no term changes nothing, nor does its
\* answer: it is left among the messages.
Judge(n, m) ==
  /\ InTurn(n) /\ m.kind = "vote" /\ m.to = n
  /\ m.term > term[n] \/ Good(n, m)
  /\ messages' = messages \ {m}
  /\ judging' = [judging EXCEPT ![n] = IF Good(n, m) THEN @ \cup {m} ELSE @]
  /\ \/ m.term > term[n] /\ StepDownTo(n, m.term)
     \/ m.term = term[n] /\ UNCHANGED <<role, term, votedFor, electionTimer>>
  /\ UNCHANGED <<events, votesReceived, lastLog, heartbeatTimer, ring, life, late,
                 sending, history>>

\* votedFor is stored, the timer reset, and the answer sent.
Grant(n, m) ==
  /\ alive[n] /\ m \in judging[n]
  /\ judging' = [judging EXCEPT ![n] = @ \ {m}]
  /\ votedFor' = [votedFor EXCEPT ![n] = m.from]
  /\ electionTimer' = [electionTimer EXCEPT ![n] = "replaced"]
  /\ messages' = messages \cup
       {[kind |-> "grant", from |-> n, to |-> m.from, term |-> m.term]}
  /\ votes' = votes \cup {[voter |-> n, to |-> m.from, term |-> m.term]}
  /\ UNCHANGED <<events, role, term, votesReceived, lastLog, heartbeatTimer, ring,
                 life, late, sending, leaders>>

-----------------------------------------------------------------------------
(* The answer to a vote request: publishVote, drainVotes *)

PublishVote(n, m) ==
  /\ Free(n) /\ m.kind = "grant" /\ m.to = n
  /\ messages' = messages \ {m}
  /\ voteRing' = [voteRing EXCEPT ![n] =
       Append(@, [voter |-> m.from, to |-> n, term |-> m.term])]
  /\ drainers' = [drainers EXCEPT ![n] = @ + 1]
  /\ UNCHANGED <<events, node, timers, life, running, sending, counted, history>>

\* The ring is empty, or n is no candidate and the vote popped is lost.
DrainStops(n) ==
  /\ alive[n] /\ drainers[n] > 0
  /\ \/ voteRing[n] = <<>> /\ UNCHANGED voteRing
     \/ /\ voteRing[n] # <<>> /\ role[n] # Candidate
        /\ voteRing' = [voteRing EXCEPT ![n] = Tail(@)]
  /\ drainers' = [drainers EXCEPT ![n] = @ - 1]
  /\ UNCHANGED <<events, node, timers, life, running, sending, messages, counted,
                 history>>

Enough(n) == votesReceived[n] + 1 >= VotesNeeded(n)

\* One turn of the loop counts one vote; the one that completes the quorum
\* makes n the leader (tryPromoteToLeader, becomeLeader) and ends the loop,
\* whatever is left in the ring.
DrainVote(n) ==
  /\ alive[n] /\ drainers[n] > 0
  /\ voteRing[n] # <<>> /\ role[n] = Candidate
  /\ voteRing' = [voteRing EXCEPT ![n] = Tail(@)]
  /\ votesReceived' = [votesReceived EXCEPT ![n] = @ + 1]
  /\ counted' = [counted EXCEPT ![n] = @ \cup {Head(voteRing[n])}]
  /\ \/ ~Enough(n) /\ UNCHANGED <<role, drainers, heartbeatTimer, leaders>>
     \/ /\ Enough(n)
        /\ role' = [role EXCEPT ![n] = Leader]
        /\ drainers' = [drainers EXCEPT ![n] = @ - 1]
        /\ heartbeatTimer' = [heartbeatTimer EXCEPT ![n] = Renewed(@)]
        /\ leaders' = leaders \cup
             {[node |-> n, term |-> term[n], votes |-> counted'[n]]}
  /\ UNCHANGED <<events, term, votedFor, lastLog, electionTimer, life, running,
                 sending, messages, votes>>

-----------------------------------------------------------------------------
(* The other handlers *)

\* handleHeartbeat, of handlers that take turns.  The answer carries the
\* request's own term, which the sender's has not gone back from: it does not
\* step down on it.
ReceiveHeartbeat(n, m) ==
  /\ InTurn(n) /\ m.kind = "heartbeat" /\ m.to = n
  /\ messages' = messages \ {m}
  /\ \/ m.term > term[n] /\ StepDownTo(n, m.term)
     \/ /\ m.term = term[n] /\ role[n] # Leader
        /\ electionTimer' = [electionTimer EXCEPT ![n] = "replaced"]
        /\ UNCHANGED <<role, term, votedFor>>
     \/ /\ \/ m.term < term[n]
           \/ m.term = term[n] /\ role[n] = Leader
        /\ UNCHANGED <<role, term, votedFor, electionTimer>>
  /\ UNCHANGED <<events, votesReceived, lastLog, heartbeatTimer, ring, life, running,
                 sending, history>>

\* syncWithPeers sends the term with every Sync.
SyncTick(n) ==
  /\ Free(n) /\ term[n] > 0 /\ Event
  /\ messages' = messages \cup
       {[kind |-> "sync", from |-> n, to |-> p, term |-> term[n]] :
          p \in Peers(n)}
  /\ UNCHANGED <<node, timers, ring, life, running, sending, history>>

\* The Sync handler steps down on a higher term (and fails the call); what it
\* does otherwise is not about the election.
ReceiveSync(n, m) ==
  /\ InTurn(n) /\ m.kind = "sync" /\ m.to = n
  /\ m.term > term[n]
  /\ messages' = messages \ {m}
  /\ StepDownTo(n, m.term)
  /\ UNCHANGED <<events, votesReceived, lastLog, heartbeatTimer, ring, life, running,
                 sending, history>>

\* Handlers that overlap, step by step.  The calls of one peer come over one
\* connection, which handles them one after the other.
Load(n, m) ==
  /\ overlap /\ alive[n] /\ m.kind \in {"vote", "heartbeat", "sync"} /\ m.to = n
  /\ \A h \in late[n] : h.m.from # m.from
  /\ \A other \in judging[n] : other.from # m.from
  /\ m.kind = "sync" => m.term > term[n]
  /\ messages' = messages \ {m}
  /\ late' = [late EXCEPT ![n] = @ \cup
       {[m |-> m, seen |-> term[n],
         at |-> CASE m.term > term[n] -> "role"
                  [] m.kind = "vote" -> "judge"
                  [] OTHER -> "reset"]}]
  /\ UNCHANGED <<events, node, timers, ring, life, judging, sending, history>>

\* stepDownLocked, store by store: the role, the term, the vote and the timer.
StoreRole(n, h) ==
  /\ h.at = "role" /\ role' = [role EXCEPT ![n] = Follower]
  /\ late' = [late EXCEPT ![n] = (@ \ {h}) \cup {[h EXCEPT !.at = "term"]}]
  /\ UNCHANGED <<term, votedFor, electionTimer, judging, messages>>

StoreTerm(n, h) ==
  /\ h.at = "term" /\ term' = [term EXCEPT ![n] = h.m.term]
  /\ late' = [late EXCEPT ![n] = (@ \ {h}) \cup {[h EXCEPT !.at = "votedFor"]}]
  /\ UNCHANGED <<role, votedFor, electionTimer, judging, messages>>

\* The answer to a heartbeat carries its term, and makes a sender whose term
\* has gone back step down as a Sync does.
Answers(n, m) ==
  IF m.kind = "heartbeat"
  THEN {[kind |-> "sync", from |-> n, to |-> m.from, term |-> m.term]} ELSE {}

ClearVote(n, h) ==
  /\ h.at = "votedFor" /\ votedFor' = [votedFor EXCEPT ![n] = None]
  /\ electionTimer' = [electionTimer EXCEPT ![n] = "replaced"]
  /\ late' = [late EXCEPT ![n] = (@ \ {h}) \cup
       IF h.m.kind = "vote" THEN {[h EXCEPT !.at = "judge"]} ELSE {}]
  /\ messages' = messages \cup Answers(n, h.m)
  /\ UNCHANGED <<role, term, judging>>

\* handleVoteRequest compares with the term it has loaded.
JudgeLate(n, h) ==
  /\ h.at = "judge" /\ late' = [late EXCEPT ![n] = @ \ {h}]
  /\ judging' = [judging EXCEPT ![n] =
       IF h.m.term >= h.seen /\ votedFor[n] \in {None, h.m.from} /\ LogOK(n, h.m)
       THEN @ \cup {h.m} ELSE @]
  /\ UNCHANGED <<role, term, votedFor, electionTimer, messages>>

\* So does handleHeartbeat.
ResetLate(n, h) ==
  /\ h.at = "reset" /\ late' = [late EXCEPT ![n] = @ \ {h}]
  /\ electionTimer' = [electionTimer EXCEPT ![n] =
       IF h.m.term = h.seen /\ role[n] # Leader THEN "replaced" ELSE @]
  /\ messages' = messages \cup Answers(n, h.m)
  /\ UNCHANGED <<role, term, votedFor, judging>>

Continue(n, h) ==
  /\ alive[n] /\ h \in late[n]
  /\ \/ StoreRole(n, h) \/ StoreTerm(n, h) \/ ClearVote(n, h)
     \/ JudgeLate(n, h) \/ ResetLate(n, h)
  /\ UNCHANGED <<events, votesReceived, lastLog, heartbeatTimer, ring, life, sending,
                 history>>

\* The Insert handler refuses a stale term and otherwise calls updateLogState,
\* which takes only a higher index.
ReceiveInsert(n) ==
  /\ Free(n) /\ Event
  /\ \E p \in Peers(n), index \in 1..MaxIndex :
       /\ term[p] >= term[n] /\ index > lastLog[n].index
       /\ lastLog' = [lastLog EXCEPT ![n] =
                        [term |-> term[p], index |-> index]]
  /\ UNCHANGED <<role, term, votedFor, votesReceived, timers, ring, life,
                 running, sending, messages, history>>

\* A process dies with everything it holds, and its connections.  (The answer
\* to a request of n that a peer is judging would be lost: that is a crash
\* after the answer.)
Crash(n) ==
  /\ alive[n] /\ Event
  /\ \A p \in Nodes : /\ \A m \in judging[p] : m.from # n
                       /\ \A h \in late[p] : h.m.from # n
  /\ alive' = [alive EXCEPT ![n] = FALSE]
  /\ restarts' = restarts + 1
  /\ voteRing' = [voteRing EXCEPT ![n] = <<>>]
  /\ drainers' = [drainers EXCEPT ![n] = 0]
  /\ late' = [late EXCEPT ![n] = {}]
  /\ judging' = [judging EXCEPT ![n] = {}]
  /\ beats' = [beats EXCEPT ![n] = [p \in Nodes |-> 0]]
  /\ messages' = {m \in messages : m.from # n /\ m.to # n}
  /\ UNCHANGED <<node, timers, counted, heard, history>>

\* NewElection: nothing of the election survives, Election never calls
\* PersistentStore.UpdateTerm.
Restart(n) ==
  /\ ~alive[n]
  /\ alive' = [alive EXCEPT ![n] = TRUE]
  /\ role' = [role EXCEPT ![n] = Follower]
  /\ term' = [term EXCEPT ![n] = 0]
  /\ votedFor' = [votedFor EXCEPT ![n] = None]
  /\ votesReceived' = [votesReceived EXCEPT ![n] = 0]
  /\ lastLog' = [lastLog EXCEPT ![n] = [term |-> 0, index |-> 0]]
  /\ electionTimer' = [electionTimer EXCEPT ![n] = "watched"]
  /\ heartbeatTimer' = [heartbeatTimer EXCEPT ![n] = "stopped"]
  /\ counted' = [counted EXCEPT ![n] = {}]
  /\ UNCHANGED <<restarts, events, voteRing, drainers, running, sending, messages,
                 history>>

-----------------------------------------------------------------------------
Tick(n) == StartElection(n) \/ HeartbeatTick(n) \/ SyncTick(n)

Receive(n, m) == \/ Judge(n, m) \/ PublishVote(n, m)
                 \/ ReceiveHeartbeat(n, m) \/ ReceiveSync(n, m)
                 \/ Load(n, m)

Finish(n) == \/ DrainStops(n) \/ DrainVote(n)
             \/ \E m \in judging[n] : Grant(n, m)
             \/ \E h \in late[n] : Continue(n, h)
             \/ \E p \in Peers(n) : SendHeartbeat(n, p)

Step(n) == \/ Tick(n) \/ Finish(n) \/ ReceiveInsert(n)
           \/ \E m \in messages : Receive(n, m)
           \/ Crash(n) \/ Restart(n)

Next == (\E n \in Nodes : Step(n)) /\ UNCHANGED overlap

\* Timers that tick waits for fire, answers and calls arrive, loops go on.
Fairness ==
  \A n \in Nodes :
    /\ WF_vars(StartElection(n) /\ UNCHANGED overlap)
    /\ WF_vars(HeartbeatTick(n) /\ UNCHANGED overlap)
    /\ WF_vars((\E m \in messages : Receive(n, m)) /\ UNCHANGED overlap)
    /\ WF_vars(Finish(n) /\ UNCHANGED overlap)

Spec     == Init /\ [][Next]_vars
FairSpec == Spec /\ Fairness

-----------------------------------------------------------------------------
(* Properties *)

\* Election safety, what the leader election is for ("maintain a consistent
\* leader across the network"): no term has two leaders.
ElectionSafety ==
  \A k, l \in leaders : k.term = l.term => k.node = l.node

\* handleVoteRequest loads votedFor and stores it later, without a lock, and no
\* restart restores it: votes are what they should be while requests are handled
\* one at a time by nodes that stay up.
Orderly == ~overlap /\ restarts = 0

\* A node never votes for two candidates in one term, itself included: the
\* guard "votedFor != 0 && votedFor != candidateHash" of handleVoteRequest.
VotedOnce ==
  \A v, w \in votes : v.voter = w.voter /\ v.term = w.term => v.to = w.to
VoteOnce == Orderly => VotedOnce

\* The same of nodes that stay up, whether their handlers take turns or not
\* ("With already voted in term", the vote is refused).
OneVotePerTerm == restarts = 0 => VotedOnce

\* A request of a lower term is refused ("With lower term"): no vote is granted
\* for a term that its voter has left.
LowerTermRefused ==
  [][\A v \in votes' \ votes : v.term >= term[v.voter]]_vars

\* A node's variables keep to their ranges (no drainer of the vote ring stops
\* twice), and its votes to one candidate per term.
Inv == TypeOK /\ VoteOnce

\* Votes counted late are the only way two leaders of one term come about:
\* leaders that counted votes of their own term only are one.
FreshVotesSafe ==
  LET Fresh(l) == \A v \in l.votes : v.term = l.term
  IN  Orderly => \A k, l \in leaders :
                   k.term = l.term /\ Fresh(k) /\ Fresh(l) => k.node = l.node

\* Votes are held: a node votes once in a term, and only a vote counted in a
\* later campaign than the one it was asked for can make two leaders of a term.
VotesHold == Inv /\ FreshVotesSafe

\* The tick goroutine of a leader waits for a timer that will fire, so it
\* will send heartbeats (if only after its election timer, which nobody
\* stopped), unless a heartbeat of its term came from elsewhere: from another
\* leader of the term, or from a node that had a heartbeat left to send when
\* it gave up its own.  Handlers take turns.
LeaderAwake ==
  LET Alone(n) == \A b \in heard : b.term = term[n] => b.node = n
  IN  ~overlap =>
        \A n \in Nodes : alive[n] /\ role[n] = Leader /\ Alone(n) =>
          electionTimer[n] = "watched" \/ heartbeatTimer[n] \in {"watched", "both"}

\* "handle leader failures gracefully": when a leader has died, some node that
\* runs campaigns or leads in time, or the leader is restarted, or the bound on
\* campaigns is reached.
LeaderReplaced ==
  \A n \in Nodes :
    role[n] = Leader /\ ~alive[n]
      ~> \/ alive[n] \/ events = MaxEvents
         \/ \E p \in Nodes : alive[p] /\ role[p] # Follower

\* While handlers take turns, a node's term does not go back, a node that stops
\* leading or campaigning has seen a higher one, and only a node that cast its
\* vote for itself leads.
RolesFollowTerms ==
  [][\A n \in Nodes : ~overlap /\ alive[n] =>
       /\ term'[n] >= term[n]
       /\ role[n] # Follower /\ role'[n] = Follower => term'[n] > term[n]
       /\ role'[n] = Leader => votedFor'[n] = n]_vars
=============================================================================
