------------------------------ MODULE MCEngine ------------------------------
(***************************************************************************)
(* Requests for Engine: every graph over three steps, cyclic ones included, *)
(* some over four, and one request for every check that refuses one.       *)
(***************************************************************************)
EXTENDS Engine

CONSTANTS a, b, c, d, unknown

Step(id, dependsOn, references) ==
  [id |-> id, agent |-> "known", prompt |-> "text",
   references |-> references, dependsOn |-> dependsOn]

Body(list) == [wellFormed |-> TRUE, steps |-> list]

\* A set of dependencies as the list a client might send.
Lists(S) == {SetToSeq(T) : T \in SUBSET S}

Graphs3 ==
  {Body(<<Step(a, p, {}), Step(b, q, {}), Step(c, r, {})>>) :
     p \in Lists({b, c}), q \in Lists({a, c}), r \in Lists({a, b})}

\* Among them a prompt that names a step it does not depend on, or no step at all.
Graphs4 ==
  {Body(<<Step(d, <<c>>, {c}), Step(c, <<b>>, {}), Step(b, <<a>>, {}), Step(a, <<>>, {})>>),
   Body(<<Step(a, <<>>, {}), Step(b, <<a>>, {}), Step(c, <<a>>, {a}), Step(d, <<b, c>>, {})>>),
   Body(<<Step(a, <<>>, {}), Step(b, <<a>>, {}), Step(c, <<>>, {a}), Step(d, <<c>>, {})>>),
   Body(<<Step(a, <<>>, {}), Step(b, <<a>>, {a, unknown}), Step(c, <<b>>, {})>>)}

Refused ==
  {Body(<<>>),
   [wellFormed |-> FALSE, steps |-> <<>>],
   Body(<<[Step(a, <<>>, {}) EXCEPT !.agent = "other"]>>),
   Body(<<Step(Blank, <<>>, {})>>),
   Body(<<[Step(a, <<>>, {}) EXCEPT !.prompt = Blank]>>),
   Body(<<Step(a, <<>>, {}), Step(a, <<>>, {})>>),
   Body(<<Step(a, <<a>>, {})>>),
   Body(<<Step(a, <<unknown>>, {})>>),
   Body(<<Step(a, <<>>, {}), Step(b, <<a, a>>, {})>>)}

MCRequests == Graphs3 \cup Graphs4 \cup Refused
MCAgents == {"known"}

=============================================================================
