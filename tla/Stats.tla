---------------------------------- MODULE Stats ---------------------------------
(***************************************************************************)
(* Counters on their way to a statsd server: CounterStat and               *)
(* StatsRepository, the StatsdAgent thread that reports them once an       *)
(* interval through a UDPSocket, and StatsdServer, whose UDPServer hands   *)
(* each packet to the threads of its work scheduler.  The network loses    *)
(* packets, a send may raise, and packets are handled in any order.  A     *)
(* line is [path, value]; its text is parsed in module Text.               *)
(***************************************************************************)
EXTENDS Integers, Sequences, SequencesExt

CONSTANTS
  Paths,            \* the stats
  Delta,            \* those exported with EXPORT_DELTA; the others with EXPORT_VALUE
  MaxValue,         \* a bound on what is counted
  MaxPackets,       \* a bound on the packets under way; a send waits
  LineSize,         \* the length of a line
  kMaxPacketSize

VARIABLES
  value,            \* path -> value_ of its CounterStat
  stats_,           \* StatsRepository: the exported paths
  mutex_,           \* StatsRepository: the agent iterates
  running_,
  agent,            \* the agent's thread: [pc, i, lines, pkts]
  last_values_,
  joined,           \* stop() returned
  net,              \* packets on the network
  work,             \* packets whose callback is scheduled
  got,              \* path -> what onSample()'s callback added up, or was told last
  lost              \* path -> deltas that were dropped (history)

vars == <<value, stats_, mutex_, running_, agent, last_values_, joined, net, work, got, lost>>

Zero == [p \in Paths |-> 0]
Idle == [pc |-> "off", i |-> 0, lines |-> <<>>, pkts |-> <<>>]

Init ==
  /\ value = Zero /\ stats_ = <<>> /\ mutex_ = FALSE
  /\ running_ = FALSE /\ agent = Idle /\ last_values_ = Zero /\ joined = FALSE
  /\ net = <<>> /\ work = <<>> /\ got = Zero /\ lost = Zero

\* What the lines say of one path, all together.
SumOf(lines, p) == FoldLeft(LAMBDA n, l : IF l.path = p THEN n + l.value ELSE n, 0, lines)
Lines(pkts) == FlattenSeq(pkts)

incr(p) ==
  /\ value[p] < MaxValue
  /\ value' = [value EXCEPT ![p] = @ + 1]
  /\ UNCHANGED <<stats_, mutex_, running_, agent, last_values_, joined, net, work, got, lost>>

exportStat(p) ==
  /\ ~mutex_ /\ p \notin Range(stats_)
  /\ stats_' = Append(stats_, p)
  /\ UNCHANGED <<value, mutex_, running_, agent, last_values_, joined, net, work, got, lost>>

start ==
  /\ agent.pc = "off"
  /\ running_' = TRUE /\ agent' = [agent EXCEPT !.pc = "wait"]
  /\ UNCHANGED <<value, stats_, mutex_, last_values_, joined, net, work, got, lost>>

\* stop() sets the flag, then joins the thread.
stop ==
  /\ running_
  /\ running_' = FALSE
  /\ UNCHANGED <<value, stats_, mutex_, agent, last_values_, joined, net, work, got, lost>>
join ==
  /\ agent.pc = "exited" /\ ~joined
  /\ joined' = TRUE
  /\ UNCHANGED <<value, stats_, mutex_, running_, agent, last_values_, net, work, got, lost>>

-----------------------------------------------------------------------------
(* The agent's thread.                                                     *)

\* The interval is over, or stop() ended it early: in both cases a report follows.
report ==
  /\ agent.pc = "wait" /\ ~mutex_
  /\ mutex_' = TRUE
  /\ agent' = [pc |-> "export", i |-> 1, lines |-> <<>>, pkts |-> <<>>]
  /\ UNCHANGED <<value, stats_, running_, last_values_, joined, net, work, got, lost>>

\* Mutant: the value reported is not remembered.
reportDelta_forgets(p) == last_values_[p]
\* What last_values_ of a path becomes.
reportDelta(p) == value[p]

\* One step of forEachStat(): reportValue() or reportDelta() of one stat, which
\* other threads may be counting at.
exportAll ==
  /\ agent.pc = "export" /\ agent.i <= Len(stats_)
  /\ LET p == stats_[agent.i]
         v == IF p \in Delta THEN value[p] - last_values_[p] ELSE value[p]
     IN /\ agent' = [agent EXCEPT !.i = @ + 1, !.lines = Append(@, [path |-> p, value |-> v])]
        /\ last_values_' = IF p \in Delta THEN [last_values_ EXCEPT ![p] = reportDelta(p)]
                           ELSE last_values_
  /\ UNCHANGED <<value, stats_, mutex_, running_, joined, net, work, got, lost>>

\* A packet takes lines, each with its newline, while it stays below the limit.
SizeOf(pkt) == Len(pkt) * (LineSize + 1)
addLine(pkts, line) ==
  IF pkts = <<>> \/ SizeOf(Last(pkts)) + LineSize + 2 >= kMaxPacketSize
  THEN Append(pkts, <<line>>) ELSE Append(Front(pkts), Append(Last(pkts), line))

\* The iteration ends, the repository is unlocked, the lines are packed.
sendToStatsd ==
  /\ agent.pc = "export" /\ agent.i > Len(stats_)
  /\ mutex_' = FALSE
  /\ agent' = [agent EXCEPT !.pc = "send", !.lines = <<>>, !.pkts = FoldLeft(addLine, <<>>, agent.lines)]
  /\ UNCHANGED <<value, stats_, running_, last_values_, joined, net, work, got, lost>>

sendTo ==
  /\ agent.pc = "send" /\ agent.pkts # <<>> /\ Len(net) + Len(work) < MaxPackets
  /\ net' = Append(net, Head(agent.pkts))
  /\ agent' = [agent EXCEPT !.pkts = Tail(@)]
  /\ UNCHANGED <<value, stats_, mutex_, running_, last_values_, joined, work, got, lost>>

\* sendto() fails: the report is abandoned, with the packets that are left.
Losing(lines) == [p \in Paths |-> IF p \in Delta THEN lost[p] + SumOf(lines, p) ELSE 0]
sendToFails ==
  /\ agent.pc = "send" /\ agent.pkts # <<>>
  /\ lost' = Losing(Lines(agent.pkts))
  /\ agent' = [agent EXCEPT !.pkts = <<>>]
  /\ UNCHANGED <<value, stats_, mutex_, running_, last_values_, joined, net, work, got>>

\* Mutant: the thread waits for the next interval without a look at the flag.
nextRound_blind == "wait"
nextRound == IF running_ THEN "wait" ELSE "exited"

reported ==
  /\ agent.pc = "send" /\ agent.pkts = <<>>
  /\ agent' = [agent EXCEPT !.pc = nextRound]
  /\ UNCHANGED <<value, stats_, mutex_, running_, last_values_, joined, net, work, got, lost>>

-----------------------------------------------------------------------------
(* The network and the server.                                             *)

Drop(i) ==
  /\ lost' = Losing(net[i])
  /\ net' = RemoveAt(net, i)
  /\ UNCHANGED <<value, stats_, mutex_, running_, agent, last_values_, joined, work, got>>

\* UDPServer::messageReceived(): the callback is scheduled, the socket armed again.
udpReceived(i) ==
  /\ work' = Append(work, net[i])
  /\ net' = RemoveAt(net, i)
  /\ UNCHANGED <<value, stats_, mutex_, running_, agent, last_values_, joined, got, lost>>

\* Mutant: the loop over the samples of a message leaves the last one out.
samples_short(pkt) == Front(pkt)
samples(pkt) == pkt

\* StatsdServer::messageReceived() in some thread of the work scheduler.
messageReceived(i) ==
  /\ LET s == samples(work[i])
     IN got' = [p \in Paths |->
                 IF p \in Delta THEN got[p] + SumOf(s, p)
                 ELSE LET at == SelectSeq(s, LAMBDA l : l.path = p)
                      IN IF at = <<>> THEN got[p] ELSE Last(at).value]
  /\ work' = RemoveAt(work, i)
  /\ UNCHANGED <<value, stats_, mutex_, running_, agent, last_values_, joined, net, lost>>

Agent == report \/ exportAll \/ sendToStatsd \/ sendTo \/ reported

Next ==
  \/ \E p \in Paths : incr(p) \/ exportStat(p)
  \/ start \/ stop \/ join
  \/ Agent \/ sendToFails
  \/ \E i \in DOMAIN net : Drop(i) \/ udpReceived(i)
  \/ \E i \in DOMAIN work : messageReceived(i)

\* The agent's thread and the server's threads run; the packet that waits longest,
\* unless it is dropped, arrives and is handled.
Fairness ==
  /\ WF_vars(Agent) /\ WF_vars(join)
  /\ WF_vars(net # <<>> /\ udpReceived(1))
  /\ WF_vars(work # <<>> /\ messageReceived(1))

Spec == Init /\ [][Next]_vars /\ Fairness

-----------------------------------------------------------------------------
\* A delta is counted once: what the server added up, what is under way and what was
\* lost is together what was reported, which is never more than was counted, however
\* the counting, the reports and the packets interleave.
DeltasConserved ==
  \A p \in Delta :
    /\ got[p] + lost[p] + SumOf(Lines(net) \o Lines(work) \o agent.lines \o Lines(agent.pkts), p)
         = last_values_[p]
    /\ last_values_[p] <= value[p]

\* What was counted at an exported stat reaches the server: while the agent runs and no
\* packet was lost, the server has, again and again, all that was counted.
CountsArrive ==
  \A p \in Delta :
    []<>(p \notin Range(stats_) \/ ~running_ \/ lost[p] # 0 \/ got[p] = value[p])

\* stop() returns, whatever the agent is doing: asleep, at its report, or sending.
AgentStops == []<>(agent.pc # "off" /\ ~running_ => joined)
=============================================================================
