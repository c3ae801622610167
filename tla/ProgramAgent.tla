---------------------------- MODULE ProgramAgent ----------------------------
(***************************************************************************)
(* The program agent of a node, clientside/event/program-agent: it starts  *)
(* and stops programs on events of the scheduler and answers with COMPLETE *)
(* events that carry the token of the event they answer.  It is one        *)
(* thread: the callbacks and the handler of children that died take turns. *)
(*                                                                         *)
(* Programs end by themselves, by the signal of STOP or HALT or by their   *)
(* timeout; the model makes no difference.  Arguments, log files and the   *)
(* RELOAD of the agent (it exits and is restarted) are left out.           *)
(***************************************************************************)
EXTENDS Integers, Sequences, Bags

CONSTANTS Prog,         \* names of programs
          ExitCode      \* of programs; 0 is the expected one

ASSUME ExitCodeAssumption == ExitCode \subseteq Nat /\ 0 \in ExitCode

None == -1              \* the token ~0

VARIABLES
    prog,               \* program -> pid (is it running), token, halt_token, halting
    wire,               \* program -> events on their way to it, in order
    net                 \* COMPLETEs on their way to the scheduler

agentVars == <<prog, wire, net>>

One(x) == SetToBag({x})
Evt(a, type, token) == [agent |-> a, type |-> type, token |-> token]
Complete(a, token, error) ==
    [agent |-> a, type |-> "COMPLETE", token |-> token, error |-> error]

AgentInit ==
    /\ prog = [p \in Prog |-> [pid |-> FALSE, token |-> None,
                               halt_token |-> None, halting |-> FALSE]]
    /\ wire = [p \in Prog |-> << >>]
    /\ net = EmptyBag

(* Mutant: the answer carries the token of the last program. *)
StartFailedOldToken(e) == Complete(e.agent, prog[e.agent].token, -1)

(* The answer to a START or RUN of which start_program() made nothing. *)
StartFailed(e) == Complete(e.agent, e.token, -1)

(* start_program(): refused while the program runs, and it may fail later, *)
(* when pinfo->token is set.  callback() answers and resets the token.     *)
Start(e) ==
    /\ e.type \in {"START", "RUN"}
    /\ \/ /\ ~prog[e.agent].pid
          /\ prog' = [prog EXCEPT ![e.agent].pid = TRUE, ![e.agent].token = e.token]
          /\ net' = net
       \/ /\ prog' = [prog EXCEPT ![e.agent].token = None]
          /\ net' = net (+) One(StartFailed(e))

(* HALT is answered when the program has exited. *)
Halt(e) ==
    /\ e.type = "HALT"
    /\ \/ /\ ~prog[e.agent].pid
          /\ net' = net (+) One(Complete(e.agent, e.token, 0))
          /\ prog' = prog
       \/ /\ prog[e.agent].pid
          /\ prog' = [prog EXCEPT ![e.agent].halt_token = e.token,
                                  ![e.agent].halting = TRUE]
          /\ net' = net

(* Other events: STOP and KILL signal the program, MODIFY changes how the  *)
(* next one is started, the rest is refused.                               *)
NoAnswer(e) ==
    /\ e.type \notin {"START", "RUN", "HALT"}
    /\ UNCHANGED <<prog, net>>

Callback(p) ==
    /\ wire[p] # << >>
    /\ wire' = [wire EXCEPT ![p] = Tail(@)]
    /\ LET e == Head(wire[p]) IN Start(e) \/ Halt(e) \/ NoAnswer(e)

(* The second COMPLETE, for the HALT that waits for the exit. *)
HaltAnswer(p, exit_code) ==
    IF prog[p].halting THEN One(Complete(p, prog[p].halt_token, exit_code))
                       ELSE EmptyBag

(* child_callback() *)
ChildCallback(p, exit_code) ==
    /\ prog[p].pid
    /\ net' = net (+) One(Complete(p, prog[p].token, exit_code))
                  (+) HaltAnswer(p, exit_code)
    /\ prog' = [prog EXCEPT ![p].pid = FALSE, ![p].token = None, ![p].halting = FALSE]
    /\ wire' = wire

=============================================================================
