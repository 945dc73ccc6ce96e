------------------------------ MODULE MCPaths ------------------------------
(***************************************************************************)
(* Planning tasks for the extraction of plans, given by their operators.   *)
(***************************************************************************)
EXTENDS MCSearch, PathExtraction

\* After a dear step from 7, and a detour that leads back, two ways to the goal that meet
\* in one cut, with 0-cost operators in the middle and a cycle of them.
MeetingStates == 0 .. 8
MeetingInit == 7
MeetingNoMutex == [d \in {"fw", "bw"} |-> MeetingStates]
MeetingOperators ==
    [c \in {0, 1, 3} |-> IF c = 0 THEN {{<<1, 4>>}, {<<4, 1>>}, {<<2, 3>>, <<3, 2>>},
                                         {<<2, 6>>, <<6, 2>>}}
                         ELSE IF c = 1 THEN {{<<0, 1>>}, {<<0, 2>>}, {<<0, 6>>},
                                             {<<7, 8>>, <<8, 7>>},
                                             {<<4, 5>>, <<2, 0>>}, {<<3, 5>>, <<1, 0>>}}
                         ELSE {{<<7, 0>>, <<0, 5>>, <<1, 5>>}}]

\* The operators of cost 1 are merged into two relations.
MeetingTRs ==
    [c \in {0, 1, 3} |-> IF c = 1 THEN {{<<0, 1>>, <<3, 5>>, <<1, 0>>, <<7, 8>>, <<8, 7>>},
                                         {<<0, 2>>, <<0, 6>>, <<4, 5>>, <<2, 0>>}}
                         ELSE {UNION MeetingOperators[c]}]

\* A 0-cost operator leads away from the initial state, to a state with another plan.
StartOperators ==
    [c \in {0, 1} |-> IF c = 0 THEN {{<<0, 1>>}}
                      ELSE {{<<0, 2>>}, {<<2, 5>>}, {<<1, 3>>}, {<<3, 5>>}}]

StartTRs == [c \in {0, 1} |-> {UNION StartOperators[c]}]

=============================================================================
