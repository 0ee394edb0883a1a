---------------------------- MODULE TopicParser ----------------------------
(***************************************************************************)
(* The data-flow engine's source-name parser (io.seldon.dataflow.kafka,    *)
(* appended to server.go): parseSource splits "topic.tensor" names,        *)
(* parseSources groups a step's sources by topic and classifies them, and  *)
(* transformerFor picks the transformer kind.                              *)
(*                                                                         *)
(* A name is the sequence of its dot-separated segments: "m.outputs.t" is  *)
(* <<"m", "outputs", "t">>, "m" is <<"m">>, the empty name is <<"">>, and  *)
(* "m." is <<"m", "">>. substringAfterLast(".", "") is then the last       *)
(* segment when there are at least two, and "" otherwise;                  *)
(* substringBeforeLast(".") drops the last segment.                        *)
(***************************************************************************)
EXTENDS Naturals, Sequences, SequencesExt

CONSTANTS
    Segments,    \* the segment strings names are built from
    MaxSegments, \* bound on the segments of one name
    MaxSources   \* bound on the sources of one step

NoTensor == "<null>"

Names == {s \in SeqOf(Segments, MaxSegments) : s # <<>>}

\* The empty string as a name.
EmptyName == <<"">>

\* substringAfterLast(".", "")
AfterLastDot(s) == IF Len(s) = 1 THEN "" ELSE Last(s)

\* parseSource: the topic and the tensor (NoTensor for null) a source names.
ParseSource(source) ==
    LET last == AfterLastDot(source) IN
    CASE last = ""                        -> [topic |-> EmptyName, tensor |-> NoTensor]
      [] last \in {"inputs", "outputs"} -> [topic |-> source, tensor |-> NoTensor]
      [] OTHER                          -> [topic |-> Front(source), tensor |-> last]

\* The groupBy / mapValues step of parseSources, keeping only the tensors
\* named the first time a topic is seen.
RECURSIVE GroupTensorsFirstOnly(_)
GroupTensorsFirstOnly(ps) ==
    IF ps = <<>> THEN <<>>
    ELSE LET acc == GroupTensorsFirstOnly(Front(ps))
             p   == Last(ps)
         IN IF \E k \in DOMAIN acc : acc[k].topicName = p.topic
            THEN acc
            ELSE Append(acc, [topicName |-> p.topic,
                              tensors |-> {p.tensor} \ {NoTensor}])

\* The groupBy / mapValues step of parseSources, without filterNotNull: the
\* null tensors of whole-topic sources stay in the tensor sets.
RECURSIVE GroupTensorsKeepingNull(_)
GroupTensorsKeepingNull(ps) ==
    IF ps = <<>> THEN <<>>
    ELSE LET acc == GroupTensorsKeepingNull(Front(ps))
             p   == Last(ps)
             at  == {k \in DOMAIN acc : acc[k].topicName = p.topic}
         IN IF at = {}
            THEN Append(acc, [topicName |-> p.topic, tensors |-> {p.tensor}])
            ELSE [acc EXCEPT ![CHOOSE k \in at : TRUE].tensors = @ \cup {p.tensor}]

\* The groupBy / mapValues / map step of parseSources: the parsed sources,
\* grouped by topic in order of first appearance (groupBy keeps a
\* LinkedHashMap), each topic with the non-null tensors named for it.
RECURSIVE GroupTensors(_)
GroupTensors(ps) ==
    IF ps = <<>> THEN <<>>
    ELSE LET acc   == GroupTensors(Front(ps))
             p     == Last(ps)
             named == {p.tensor} \ {NoTensor}
             at    == {k \in DOMAIN acc : acc[k].topicName = p.topic}
         IN IF at = {}
            THEN Append(acc, [topicName |-> p.topic, tensors |-> named])
            ELSE [acc EXCEPT ![CHOOSE k \in at : TRUE].tensors = @ \cup named]

\* The TopicTensors list parseSources builds from a list of sources.
TopicTensorsOf(sources) ==
    GroupTensors([i \in DOMAIN sources |-> ParseSource(sources[i])])

\* parseSources: the SourceProjection of a step's sources.
ParseSources(sources) ==
    LET tt     == TopicTensorsOf(sources)
        topics == {tt[k].topicName : k \in DOMAIN tt}
    IN CASE tt = <<>> -> [kind |-> "Empty"]
         [] Len(tt) = 1 /\ tt[1].tensors = {} ->
               [kind |-> "Single", topicName |-> tt[1].topicName]
         [] Len(tt) = 1 ->
               [kind |-> "SingleSubset", topicName |-> tt[1].topicName,
                tensors |-> tt[1].tensors]
         [] \A k \in DOMAIN tt : tt[k].tensors = {} ->
               [kind |-> "Many", topicNames |-> topics]
         [] OTHER ->
               [kind |-> "ManySubsets", topicNames |-> topics,
                tensorMap |-> [t \in topics |->
                                 tt[CHOOSE k \in DOMAIN tt : tt[k].topicName = t].tensors]]

\* transformerFor: no transformer for an Empty projection (handleCreate then
\* reports the pipeline as failed), a Chainer for one topic, a Joiner for
\* several.
TransformerFor(sources) ==
    CASE ParseSources(sources).kind = "Empty" -> "none"
      [] ParseSources(sources).kind \in {"Single", "SingleSubset"} -> "Chainer"
      [] OTHER -> "Joiner"

\* areTensorsFromSameTopic: whether the sources name tensors of one topic.
AreTensorsFromSameTopic(sources) ==
    LET ps      == {ParseSource(sources[i]) : i \in DOMAIN sources}
        topics  == {p.topic : p \in ps}
        tensors == {p.tensor : p \in ps} \ {NoTensor}
    IN IF tensors = {} \/ Cardinality(topics) > 1
       THEN [same |-> FALSE, topics |-> topics, tensors |-> {}]
       ELSE [same |-> TRUE, topics |-> topics, tensors |-> tensors]

(***************************************************************************)
(* Every list of at most MaxSources source names is checked as one state.  *)
(***************************************************************************)
VARIABLE sources

Init == sources \in SeqOf(Names, MaxSources)

Next == UNCHANGED sources

Spec == Init /\ [][Next]_sources

\* The topics a projection reads, and the tensors it selects from topic t
\* ({} for the whole topic).
ReadTopics(pr) ==
    CASE pr.kind = "Empty" -> {}
      [] pr.kind \in {"Single", "SingleSubset"} -> {pr.topicName}
      [] OTHER -> pr.topicNames

SelectedTensors(pr, t) ==
    CASE pr.kind = "SingleSubset" -> pr.tensors
      [] pr.kind = "ManySubsets" -> pr.tensorMap[t]
      [] OTHER -> {}

IsProjection(pr) ==
    CASE pr.kind = "Empty" -> DOMAIN pr = {"kind"}
      [] pr.kind = "Single" ->
            DOMAIN pr = {"kind", "topicName"} /\ pr.topicName \in Names
      [] pr.kind = "SingleSubset" ->
            /\ DOMAIN pr = {"kind", "topicName", "tensors"}
            /\ pr.topicName \in Names /\ pr.tensors \subseteq Segments
      [] pr.kind = "Many" ->
            DOMAIN pr = {"kind", "topicNames"} /\ pr.topicNames \subseteq Names
      [] pr.kind = "ManySubsets" ->
            /\ DOMAIN pr = {"kind", "topicNames", "tensorMap"}
            /\ pr.topicNames \subseteq Names
            /\ DOMAIN pr.tensorMap = pr.topicNames
            /\ \A t \in pr.topicNames : pr.tensorMap[t] \subseteq Segments
      [] OTHER -> FALSE

TypeOK ==
    /\ Len(sources) <= MaxSources /\ \A i \in DOMAIN sources : sources[i] \in Names
    /\ IsProjection(ParseSources(sources))

\* parseSources agrees with the reference reading of a step's sources: it
\* reads exactly the topics the sources name, and from each topic it selects
\* exactly the tensors some source names for it. Only an empty source list
\* gets no transformer, and areTensorsFromSameTopic holds exactly for a
\* SingleSubset projection. This is the groupBy,
\* mapValues and classification of parseSources against a set definition.
ParseSourcesMatchesReference ==
    LET pr     == ParseSources(sources)
        parsed == {ParseSource(sources[i]) : i \in DOMAIN sources}
    IN /\ ReadTopics(pr) = {p.topic : p \in parsed}
       /\ TransformerFor(sources) = "none" <=> sources = <<>>
       /\ AreTensorsFromSameTopic(sources).same <=> pr.kind = "SingleSubset"
       /\ \A t \in ReadTopics(pr) :
             SelectedTensors(pr, t) = {p.tensor : p \in {q \in parsed : q.topic = t}} \ {NoTensor}

\* parseSource only splits: a source naming a tensor is its topic followed
\* by the tensor, and any other source is its own topic. createTopics and
\* the transformers use this topic as the Kafka topic name.
ParseSourceRoundTrip ==
    \A i \in DOMAIN sources :
        LET p == ParseSource(sources[i]) IN
        IF p.tensor = NoTensor THEN p.topic = sources[i]
                               ELSE p.topic \o <<p.tensor>> = sources[i]

====
