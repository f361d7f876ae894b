----------------------------- MODULE MCQuanApp -----------------------------
(* A bounded instance of QuanApp, and the texts for SqlSplitter: each is the content *)
(* in an initial state of its own; the instances run where it is empty.              *)
EXTENDS QuanApp, SqlSplitter

\* 001 (tables and the seeded campaign) and 004 (two statements that work once); 002
\* and 003 are like the first statement of 001.
QuanFiles == << <<"keep", "seed">>, <<"once", "once">> >>

MCInit == AppInit /\ content \in Texts
MCNext == content = <<>> /\ AppNext /\ UNCHANGED content
MCSpec ==
    /\ MCInit /\ [][MCNext]_<<allVars, content>>
    /\ \A i \in Instances : WF_allVars(Progress(i))
=============================================================================
