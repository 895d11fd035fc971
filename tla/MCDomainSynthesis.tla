-------------------------- MODULE MCDomainSynthesis --------------------------
(***************************************************************************)
(* Instances of DomainSynthesis for TLC.                                    *)
(***************************************************************************)
EXTENDS DomainSynthesis, TLC

CONSTANTS c1, c2, c3, u, v

P(kinds, c, s) == [kind |-> kinds, contract |-> << c1, c >>, service |-> s]

CONSTANTS a, b

\* In one session a stage is computed, or left to a service; in the other it is an
\* integration of another kind and shape, after a template or after a stage whose
\* contract the first session may have asked for.
Computed == << "compute", "compute" >>
First == { P(<< "reasoning", "http" >>, c1, v), P(Computed, c2, u) }
Second == { P(<< "reasoning", "module" >>, c3, v), P(<< "template", "module" >>, c3, v) }
All == First \cup Second
WishesOf == (a :> First) @@ (b :> Second)

ShapeOf == (c1 :> "x") @@ (c2 :> None) @@ (c3 :> "y")

\* A provider with the fallback allowed, with an author's contract required, none.
Environs == { [provider |-> TRUE, require |-> FALSE, allow |-> TRUE],
              [provider |-> TRUE, require |-> TRUE, allow |-> FALSE],
              [provider |-> FALSE, require |-> FALSE, allow |-> FALSE],
              [provider |-> FALSE, require |-> TRUE, allow |-> FALSE] }

\* The second stage of << "compute", "compute" >>, under the key it had.
OlderFile == { [key |-> [stage |-> 2, prompt |-> Prompt(P(Computed, c2, u)), age |-> "old", woven |-> Unwoven],
                body |-> [stage |-> 2, kind |-> "compute", contract |-> c2, woven |-> Unwoven,
                          service |-> u, fallback |-> FALSE]] }
=============================================================================
