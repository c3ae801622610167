----------------------------- MODULE EventSched -----------------------------
(***************************************************************************)
(* The event scheduler of an experiment, event/sched: programs, groups of  *)
(* programs, timelines and sequences, and the COMPLETE events by which a   *)
(* sequence learns that it may go on and a group that it is done.          *)
(*                                                                         *)
(* Two threads: the one of the event library runs enqueue() when an event  *)
(* arrives, the main thread fires queued events (dequeue()).  They share   *)
(* next_token and the agents without a lock.  enqueue() reads next_token   *)
(* and increments it around a call, so these are two steps; within a step  *)
(* the threads do not interleave.                                          *)
(*                                                                         *)
(* Firing times are left out: any queued event may be the next (EventQueue *)
(* has the times).  Every agent modelled sends COMPLETE for the same event *)
(* types.  Left out: events that arrive with a token, the simulator, node, *)
(* console and topography agents, reports, and failed allocations.         *)
(***************************************************************************)
EXTENDS ProgramAgent, SequencesExt, FiniteSetsExt

CONSTANTS SeqList,          \* the list sequences
          TimelineList,    \* the list timelines
          GroupList,       \* the list groups
          Members,      \* group -> its programs
          Script,       \* timeline or sequence -> agents and types of its events
          Command,      \* what users may send: agent, type and timeline or NoTimeline
          MaxCommands,  \* BOUND: how many commands they send
          Careful       \* do users wait for what they started

NoTimeline == "none"
SeqSet == Range(SeqList)
TSSet  == SeqSet \cup Range(TimelineList)
Group  == Range(GroupList)
Agent  == Prog \cup TSSet \cup Group

ASSUME SchedAssumption ==
    /\ Members \in [Group -> SUBSET Prog]
    /\ \A g \in Group : Members[g] # {}
    /\ \A a \in TSSet : \A e \in Range(Script[a]) :
            e.agent \in Agent /\ e.type \in {"START", "RUN", "STOP", "HALT"}
    /\ \A c \in Command : c.agent \in Agent /\ c.into \in TSSet \cup {NoTimeline}

VARIABLES
    ts,                 \* timelines and sequences: events, ta_token, ta_current_event
    ga,                 \* groups: ga_token, ga_remaining, ga_error
    next_token,
    pending,            \* the event queue
    callback,           \* the event enqueue() works on, in a sequence
    commands            \* sent so far

schedVars == <<ts, ga, next_token, pending, callback, commands>>
vars == <<agentVars, schedVars>>

-----------------------------------------------------------------------------
(* What one call changes, as a function of the state m. *)

State == [ts |-> ts, ga |-> ga, next_token |-> next_token,
          pending |-> pending, wire |-> wire, net |-> net]

Becomes(m) ==
    /\ ts' = m.ts
    /\ ga' = m.ga
    /\ next_token' = m.next_token
    /\ pending' = m.pending
    /\ wire' = m.wire
    /\ net' = m.net

Send(m, e)    == [m EXCEPT !.net = @ (+) One(e)]        \* event_do()
Notify(m, e)  == [m EXCEPT !.wire[e.agent] = Append(@, e)]      \* event_notify()
Enqueue(m, e) == [m EXCEPT !.pending = @ (+) One(e)]    \* sched_event_enqueue()

sends_complete(e) == e.type \in {"RUN", "HALT"}

(* timeline_agent_expand(): every event of the timeline gets a new token,  *)
(* whether or not the timeline is active.                                  *)
Expand(m, a) ==
    LET events == m.ts[a].events
    IN  [m EXCEPT !.ts[a].events = [i \in DOMAIN events |->
                        [events[i] EXCEPT !.token = m.next_token + i - 1]],
                  !.next_token = @ + Len(events)]

(* sched_event_prepare(); group_agent_expand() changes what no one reads.  *)
Prepare(m, e) == IF e.agent \in TSSet THEN Expand(m, e.agent) ELSE m

(* sched_event_enqueue_copy() *)
EnqueueCopy(m, e) == Enqueue(Prepare(m, e), e)

-----------------------------------------------------------------------------
(* Sequences. *)

Idle(m, sa) == [m EXCEPT !.ts[sa].current = -1]
Reset(m, sa) == [m EXCEPT !.ts[sa].current = -1, !.ts[sa].token = None]

(* sequence_agent_enqueue_next(): queue events up to the next one that     *)
(* sends a COMPLETE, or to the end.                                        *)
EnqueueNext(m, sa) ==
    LET t     == m.ts[sa]
        count == Len(t.events)
        waits == {i \in t.current + 1 .. count : sends_complete(t.events[i])}
        stop  == IF waits = {} THEN count ELSE Min(waits)
        n     == FoldLeft(EnqueueCopy, m, SubSeq(t.events, t.current + 1, stop))
    IN  IF waits = {} THEN Reset(Send(n, Complete(sa, t.token, 0)), sa)
                      ELSE [n EXCEPT !.ts[sa].current = stop - 1]

Waits(m, sa) == m.ts[sa].current >= 0
Current(m, sa) == m.ts[sa].events[m.ts[sa].current + 1]

(* Mutant: the token of a COMPLETE is not compared. *)
AnswersAgent(m, sa, c) == Waits(m, sa) /\ Current(m, sa).agent = c.agent

Answers(m, sa, c) ==
    /\ Waits(m, sa)
    /\ Current(m, sa).agent = c.agent
    /\ Current(m, sa).token = c.token

(* sequence_agent_handle_complete(), for one sequence. *)
SequenceComplete(m, sa, c) ==
    IF ~Answers(m, sa, c) THEN m
    ELSE IF c.error = 0
    THEN EnqueueNext([m EXCEPT !.ts[sa].current = @ + 1], sa)
    ELSE Idle(Send(m, Complete(sa, m.ts[sa].token, c.error)), sa)

(* delete_events() *)
Clear(m, a) == Reset([m EXCEPT !.ts[a].events = << >>], a)

(* sequence_agent_immediate() *)
SequenceImmediate(m, e) ==
    CASE e.type \in {"START", "RUN"} ->
            IF m.ts[e.agent].current # -1 \/ m.ts[e.agent].events = << >> THEN m
            ELSE EnqueueNext([m EXCEPT !.ts[e.agent].token = e.token,
                                       !.ts[e.agent].current = 0], e.agent)
      [] e.type = "RESET" -> Reset(m, e.agent)
      [] e.type = "CLEAR" -> Clear(m, e.agent)
      [] OTHER -> m

(* timeline_agent_immediate(); its COMPLETE does not wait for anything. *)
TimelineImmediate(m, e) ==
    CASE e.type \in {"START", "RUN"} ->
            Send(FoldLeft(EnqueueCopy, m, m.ts[e.agent].events),
                 Complete(e.agent, e.token, 0))
      [] e.type = "CLEAR" -> Clear(m, e.agent)
      [] OTHER -> m

-----------------------------------------------------------------------------
(* Groups. *)

GroupDone(m, g) ==
    [Send(m, Complete(g, m.ga[g].token, m.ga[g].error))
        EXCEPT !.ga[g].token = None, !.ga[g].remaining = -1]

(* Mutant: a group of which a member failed is not reported. *)
NoneRemainsIfGood(m, g) == m.ga[g].remaining = 0 /\ m.ga[g].error = 0

NoneRemains(m, g) == m.ga[g].remaining = 0

(* group_agent_handle_complete(), for one group. *)
GroupComplete(m, g, c) ==
    LET counts == /\ m.ga[g].remaining > 0
                  /\ c.agent \in Members[g]
                  /\ m.ga[g].token = c.token
        n == IF counts
             THEN [m EXCEPT !.ga[g].remaining = @ - 1,
                            !.ga[g].error = IF c.error > @ THEN c.error ELSE @]
             ELSE m
    IN  IF NoneRemains(n, g) THEN GroupDone(n, g) ELSE n

StartsCounting(m, e) == m.ga[e.agent].token = None /\ sends_complete(e)

(* group_agent_immediate(): the members get the event even if the group is *)
(* active and does not wait for its answers.                               *)
GroupImmediate(m, e) ==
    LET n == IF StartsCounting(m, e)
             THEN [m EXCEPT !.ga[e.agent] =
                        [token |-> e.token, error |-> 0,
                         remaining |-> Cardinality(Members[e.agent])]]
             ELSE m
    IN  FoldLeft(LAMBDA k, p : Notify(k, Evt(p, e.type, e.token)), n,
                 SetToSeq(Members[e.agent]))

-----------------------------------------------------------------------------
(* The main thread, dequeue(). *)

(* handle_completeevent(): all sequences, then all groups. *)
HandleComplete(m, c) ==
    LET n == FoldLeft(LAMBDA k, sa : SequenceComplete(k, sa, c), m, SeqList)
    IN  FoldLeft(LAMBDA k, g : GroupComplete(k, g, c), n, GroupList)

HandleEvent(m, e) ==
    CASE e.agent \in SeqSet -> SequenceImmediate(m, e)
      [] e.agent \in Range(TimelineList) -> TimelineImmediate(m, e)
      [] e.agent \in Group -> GroupImmediate(m, e)
      [] OTHER -> Notify(m, e)

Fire(e) ==
    LET m == [State EXCEPT !.pending = @ (-) One(e)]
    IN  /\ Becomes(IF e.type = "COMPLETE" THEN HandleComplete(m, e)
                                          ELSE HandleEvent(m, e))
        /\ UNCHANGED <<prog, callback, commands>>

-----------------------------------------------------------------------------
(* The thread of the event library, enqueue(). *)

(* A COMPLETE is queued as it is. *)
EnqueueComplete(c) ==
    /\ callback = << >>
    /\ net' = net (-) One(c)
    /\ pending' = pending (+) One(c)
    /\ UNCHANGED <<prog, wire, ts, ga, next_token, callback, commands>>

(* Another event gets the next token ... *)
EnqueueToken(c) ==
    /\ callback = << >>
    /\ commands < MaxCommands
    /\ commands' = commands + 1
    /\ callback' = <<[event |-> Evt(c.agent, c.type, next_token), into |-> c.into]>>
    /\ UNCHANGED <<agentVars, ts, ga, next_token, pending>>

(* ... which is counted after it has been put into the event; then the     *)
(* event is appended to its timeline or queued.                            *)
EnqueueEvent ==
    /\ callback # << >>
    /\ LET e    == callback[1].event
           into == callback[1].into
           m    == Prepare([State EXCEPT !.next_token = @ + 1], e)
       IN  Becomes(IF into # NoTimeline
                   THEN [m EXCEPT !.ts[into].events = Append(@, e)]
                   ELSE Enqueue(m, e))
    /\ callback' = << >>
    /\ UNCHANGED <<prog, commands>>

-----------------------------------------------------------------------------
(* Users. *)

Active(a) ==
    \/ a \in SeqSet /\ ts[a].current # -1
    \/ a \in Group /\ ga[a].token # None

(* Agent a is not active and no event for it is queued or on its way.  A   *)
(* program may still run, and COMPLETEs may be late.                       *)
Quiet(a) ==
    /\ ~Active(a)
    /\ \A e \in DOMAIN pending : e.agent = a => e.type = "COMPLETE"
    /\ a \in Prog => wire[a] = << >>
    /\ \A c \in Range(callback) : c.event.agent # a

Parts(a) == CASE a \in TSSet -> {e.agent : e \in Range(ts[a].events)}
              [] a \in Group -> Members[a]
              [] OTHER -> {}
Below(A) == A \cup UNION {Parts(a) : a \in A}
Tree(a)  == Below(Below(Below({a})))

(* What has a part in common with a, and what a is a part of. *)
Related(a) == {b \in Agent : Tree(a) \cap Tree(b) # {}}
Over(a)    == {b \in Agent : a \in Tree(b)}

(* A user who waits: what is started has nothing in common with what is    *)
(* active, and no sequence without events; only what was started by itself *)
(* is reset; what is added to a timeline is in use nowhere else.           *)
UserWaits(c) ==
    CASE c.into # NoTimeline ->
            /\ Quiet(c.agent)
            /\ \A b \in Related(c.agent) \ (Over(c.into) \cup Tree(c.into)) : Quiet(b)
      [] c.type \in {"START", "RUN"} ->
            /\ \A b \in Related(c.agent) : Quiet(b)
            /\ \A b \in Tree(c.agent) \cap SeqSet : ts[b].events # << >>
      [] OTHER -> \A b \in Over(c.agent) \ {c.agent} : Quiet(b)

UserSends(c) ==
    /\ EnqueueToken(c)
    /\ Careful => UserWaits(c)

-----------------------------------------------------------------------------
(* The events of the experiment get their tokens before the scheduler      *)
(* starts to serve (AddEvent()), and get_static_events() starts the first  *)
(* sequence, ns_sequence.                                                  *)
Offset(a) ==
    LET lists == SeqList \o TimelineList
        k     == CHOOSE i \in DOMAIN lists : lists[i] = a
    IN  FoldLeft(LAMBDA n, b : n + Len(Script[b]), 0, SubSeq(lists, 1, k - 1))

Init ==
    /\ AgentInit
    /\ ts = [a \in TSSet |->
                [events |-> [i \in DOMAIN Script[a] |->
                                Evt(Script[a][i].agent, Script[a][i].type,
                                    Offset(a) + i - 1)],
                 token |-> None, current |-> -1]]
    /\ ga = [g \in Group |-> [token |-> None, remaining |-> -1, error |-> 0]]
    /\ next_token = FoldLeft(LAMBDA n, b : n + Len(Script[b]), 0, SeqList \o TimelineList)
    /\ pending = EmptyBag
    /\ callback = <<[event |-> Evt(Head(SeqList), "START", next_token),
                     into |-> NoTimeline]>>
    /\ commands = 0

Main == \E e \in DOMAIN pending : Fire(e)
Library == EnqueueEvent \/ \E c \in DOMAIN net : EnqueueComplete(c)
Agents ==
    /\ \/ \E p \in Prog : Callback(p)
       \/ \E p \in Prog, code \in ExitCode : ChildCallback(p, code)
    /\ UNCHANGED schedVars

Next ==
    \/ Main
    \/ Library
    \/ Agents
    \/ \E c \in Command : UserSends(c)

(* The threads and the agents run, and programs end; users need not send.  *)
(* This is WF_vars(Main \/ Library \/ Agents) with its parts spelled out:   *)
(* one of them is enabled unless everything is settled, and their steps    *)
(* are those of which no user is the cause.                                *)
Settled ==
    /\ pending = EmptyBag
    /\ net = EmptyBag
    /\ callback = << >>
    /\ \A p \in Prog : wire[p] = << >> /\ ~prog[p].pid

Fairness == []<>Settled \/ []<><<commands' = commands>>_vars

Spec == Init /\ [][Next]_vars /\ Fairness

-----------------------------------------------------------------------------
(* Properties. *)

Total(B, T(_)) == MapThenSumSet(LAMBDA e : B[e], {e \in DOMAIN B : T(e)})
Bit(b) == IF b THEN 1 ELSE 0

(* In how many places is a COMPLETE of agent a for token k to come from.   *)
Outstanding(a, k) ==
    LET Asks(e)  == e.agent = a /\ e.token = k /\ sends_complete(e)
        IsFor(e) == e.agent = a /\ e.token = k /\ e.type = "COMPLETE"
    IN  Total(pending, Asks)
          + Bit(a \in Prog /\ \E e \in Range(wire[a]) : Asks(e))
          + Total(pending, IsFor) + Total(net, IsFor)
          + Bit(a \in SeqSet /\ Active(a) /\ ts[a].token = k)
          + Bit(a \in Group /\ Active(a) /\ ga[a].token = k)
          + Bit(a \in Prog /\ prog[a].pid /\ prog[a].token = k)
          + Bit(a \in Prog /\ prog[a].halting /\ prog[a].halt_token = k)

(* A reset or cleared sequence has got new tokens already. *)
Withdrawn(sa) ==
    \E e \in DOMAIN pending : e.agent = sa /\ e.type \in {"RESET", "CLEAR"}

(* A sequence that waits (ta_current_event) waits for a COMPLETE that is   *)
(* to come from exactly one place: never for a token that was replaced by  *)
(* timeline_agent_expand(), lost by an agent or given to two events, which *)
(* would make it hang or go on too early.                                  *)
WaitingIsServed ==
    \A sa \in SeqSet : ts[sa].current # -1 =>
        \/ Withdrawn(sa)
        \/ Outstanding(Current(State, sa).agent, Current(State, sa).token) = 1

(* ga_remaining is "the number of agents that still need to send a         *)
(* complete event": as many answers are on their way, none is counted      *)
(* twice and none is missing.                                              *)
GroupExact ==
    \A g \in Group : ga[g].token # None =>
        ga[g].remaining =
            MapThenSumSet(LAMBDA p : Outstanding(p, ga[g].token), Members[g])

(* Every sequence and every group that is active ends: the COMPLETEs that  *)
(* drive sequence_agent_handle_complete() and group_agent_handle_complete  *)
(* arrive and match, through nested sequences, groups and failed programs. *)
Ends == \A a \in SeqSet \cup Group : Active(a) ~> ~Active(a)

=============================================================================
