---------------------------- MODULE MCDelegation ----------------------------
(* Programs of every shape: what is taken in, and who reads it.              *)
EXTENDS Delegation

Declared(documents, floor, ingest, sources, stages, place) ==
    [documents |-> documents, floor |-> floor, ingest |-> ingest, sources |-> sources,
     stages |-> stages, place |-> place]

\* Most declare the children in the order of their stages.
Shape(documents, floor, ingest, sources, stages) ==
    Declared(documents, floor, ingest, sources, stages, [s \in DOMAIN stages |-> s])

MCPrograms ==
    { Shape("required", TRUE, FALSE, 0, << "upload", "sliced", "sliced", "child" >>),
      Declared("required", FALSE, FALSE, 0, << "upload", "sliced", "sliced", "sliced" >>, << 0, 2, 3, 1 >>),
      Shape("required", TRUE, TRUE, 0, << "upload", "loop", "work", "sliced", "ad_hoc" >>),
      Shape("required", FALSE, FALSE, 0, << "upload", "sliced", "sliced", "loop", "sliced" >>),
      Shape("required", FALSE, FALSE, 0, << "upload", "loop", "sliced" >>),
      Shape("optional", TRUE, FALSE, 0, << "upload", "sliced", "work", "sliced" >>),
      Shape("optional", FALSE, FALSE, 0, << "work", "upload", "child" >>),
      Shape("none", FALSE, FALSE, 3, << "child", "sources", "ad_hoc" >>),
      Shape("none", FALSE, FALSE, 0, << "sources", "work" >>) }
=============================================================================
