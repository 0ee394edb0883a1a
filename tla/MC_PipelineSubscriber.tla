----------------------- MODULE MC_PipelineSubscriber -----------------------
(* Model values for checking PipelineSubscriber with TLC. *)
EXTENDS PipelineSubscriber, TLC

CONSTANTS p1, p2

MCPids == {p1, p2}

\* A step reading model m's outputs into model n's inputs, and one with no
\* sources (transformerFor gives no transformer for it).  Names are
\* sequences of dot-separated segments, as in TopicParser.
Chain  == [sources |-> <<<<"m", "outputs">>>>, sink |-> <<"n", "inputs">>]
NoSrc  == [sources |-> <<>>, sink |-> <<"n", "inputs">>]
\* A step whose source has no dot: parseSource gives it the empty topic.
NoDot  == [sources |-> <<<<"m">>>>, sink |-> <<"n", "inputs">>]

\* A complete pipeline, one with a step transformerFor cannot build, and
\* one naming a source without a dot.
MCStepLists == {<<Chain>>, <<Chain, NoSrc>>, <<NoDot>>}

\* Complete pipelines only.
MCValidStepLists == {<<Chain>>}

MCSymmetry == Permutations(MCPids)
====
