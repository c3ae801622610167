---------------------------- MODULE MCEventSched ----------------------------
(***************************************************************************)
(* A sequence of a nested sequence and a group, a timeline, two programs.  *)
(***************************************************************************)
EXTENDS EventSched

Do(a, type) == [agent |-> a, type |-> type]
Sent(a, type) == [agent |-> a, type |-> type, into |-> NoTimeline]
Added(a, type, b) == [agent |-> a, type |-> type, into |-> b]

MCSeqList == <<"outer", "inner">>
MCTimelines == <<"line">>
MCGroups == <<"both">>
MCMembers == [g \in {"both"} |-> {"p", "q"}]
MCScript == [outer |-> <<Do("inner", "RUN"), Do("both", "RUN")>>,
             inner |-> <<Do("q", "HALT"), Do("p", "RUN")>>,
             line  |-> <<Do("inner", "START")>>]

MCCommand ==
    {Sent("outer", "RUN"), Sent("line", "RUN"),
     Sent("outer", "RESET"), Sent("inner", "CLEAR"),
     Added("q", "STOP", "inner"), Sent("q", "START")}

CarelessCommand == {Sent("both", "RUN")}

=============================================================================
