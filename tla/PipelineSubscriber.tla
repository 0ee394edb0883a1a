------------------------- MODULE PipelineSubscriber -------------------------
(***************************************************************************)
(* The data-flow engine's PipelineSubscriber (PipelineSubscriber.kt): the  *)
(* retry loop around the scheduler's pipeline-update stream, the handling  *)
(* of Create and Delete updates, topic creation through a Kafka admin      *)
(* client, the status replies sent back with pipelineUpdateEvent, and      *)
(* cancelPipelines.                                                        *)
(*                                                                         *)
(* The updates of one stream are handled one at a time (onEach inside     *)
(* collect), so a handler is one step; its failure points are disjuncts.   *)
(* A topology is the update that built it (update numbers are unique), so *)
(* a topology that is started and never stopped can be told apart from     *)
(* the one the map holds for the same pipeline id.                         *)
(*                                                                         *)
(* The module composes with TopicParser: an update carries its steps, and  *)
(* handleCreate's transformers (transformerFor) and createTopics' topic    *)
(* names (parseSource) are computed from them by the parser's operators.   *)
(***************************************************************************)
EXTENDS Naturals, Sequences, Functions

CONSTANTS
    Pids,           \* pipeline ids (update.uid)
    StepLists,      \* the updatesList values a Create may carry: sequences of
                    \* [sources, sink] records over TopicParser names
    RetryCountMax,  \* retryCountMax, 10 in the code
    MaxUpdates,     \* bound on the updates the scheduler sends
    KafkaMayFail,   \* createTopics may fail with an error other than TopicExists
    ReplyMayFail    \* a pipelineUpdateEvent call may fail with a StatusException

TopoIds == 1..MaxUpdates

\* The parser's operators ParseSource, ParseSources and TransformerFor take
\* no constant; its bounds on names only shape its own model.
Parser == INSTANCE TopicParser
            WITH Segments <- {}, MaxSegments <- 0, MaxSources <- 0,
                 sources <- <<>>

\* update.op; "Unknown" stands for every other PipelineOperation value.
Ops == {"Create", "Delete", "Unknown"}

\* A PipelineUpdateMessage: n numbers it, steps is its updatesList (empty
\* for a Delete or an unknown op, whose handlers do not read it).
Update == [n : TopoIds, op : Ops, uid : Pids, steps : StepLists \cup {<<>>}]

\* The pipelines map holds no topology for an id.
NoTopology == [n |-> 0]

\* createTopics without `topicNames += sinks`: the sources' topics only.
TopicNamesOfSourcesOnly(u) ==
    UNION {{Parser!ParseSource(u.steps[k].sources[j]).topic :
              j \in DOMAIN u.steps[k].sources} : k \in DOMAIN u.steps}

\* createTopics: the topic names of every source and every sink, each
\* through parseSource, as a set.
TopicNamesOf(u) ==
    UNION {{Parser!ParseSource(u.steps[k].sources[j]).topic :
              j \in DOMAIN u.steps[k].sources} : k \in DOMAIN u.steps}
    \cup {Parser!ParseSource(u.steps[k].sink).topic : k \in DOMAIN u.steps}

\* Kafka's admin client fails the future of a topic whose name is empty
\* (InvalidTopicException), and result.value.get() rethrows it wrapped in an
\* ExecutionException that is not a TopicExistsException. The other topics
\* of the request are created.
InvalidTopic(u) == Parser!EmptyName \in TopicNamesOf(u)

\* handleCreate: transformers.size == steps.size, i.e. transformerFor
\* (mapNotNull) gave a transformer for every step.
TransformersComplete(u) ==
    \A k \in DOMAIN u.steps : Parser!TransformerFor(u.steps[k].sources) # "none"

\* A PipelineUpdateStatusMessage.
Reply == [op : {"Create", "Delete"}, uid : Pids, n : TopoIds, success : BOOLEAN]

VARIABLES
    phase,      \* "call": about to subscribe; "collect": in collect();
                \* "gaveUp": the StatusException was rethrown;
                \* "crashed": another exception escaped subscribe()
    retries,    \* the retries counter of subscribe()
    inbox,      \* updates the current stream delivered and onEach has not handled
    pipelines,  \* the pipelines map: uid -> topology id, NoTopology if absent
    started,    \* topologies whose transformers were started and not stopped
    topics,     \* pipelines whose Kafka topics exist
    replies,    \* history: the status messages the scheduler received
    nSent,      \* updates the scheduler has sent
    unanswered, \* history: Create/Delete updates handled without a reply
    streak      \* history: StatusExceptions since an update was last handled

vars == <<phase, retries, inbox, pipelines, started, topics, replies, nSent,
          unanswered, streak>>

TypeOK ==
    /\ phase \in {"call", "collect", "gaveUp", "crashed"}
    /\ retries \in 0..RetryCountMax
    /\ inbox \in Seq(Update)
    /\ pipelines \in [Pids -> {NoTopology} \cup Update]
    /\ started \subseteq Update
    /\ topics \subseteq UNION {TopicNamesOf([steps |-> l]) : l \in StepLists}
    /\ replies \in Seq(Reply)
    /\ nSent \in 0..MaxUpdates
    /\ unanswered \subseteq Update
    /\ streak \in Nat

Init ==
    /\ phase = "call"
    /\ retries = 0
    /\ inbox = <<>>
    /\ pipelines = [p \in Pids |-> NoTopology]
    /\ started = {}
    /\ topics = {}
    /\ replies = <<>>
    /\ nSent = 0
    /\ unanswered = {}
    /\ streak = 0

(***************************************************************************)
(* The catch (e: StatusException) branch: count the retry and either loop  *)
(* round to subscribe again or rethrow. The stream is gone either way.     *)
(***************************************************************************)
StatusRetryInclusive ==
    /\ retries' = retries + 1
    /\ phase' = IF retries + 1 <= RetryCountMax THEN "call" ELSE "gaveUp"
    /\ inbox' = <<>>
    /\ streak' = streak + 1

StatusRetry ==
    /\ retries' = retries + 1
    /\ phase' = IF retries + 1 < RetryCountMax THEN "call" ELSE "gaveUp"
    /\ inbox' = <<>>
    /\ streak' = streak + 1

\* client.pipelineUpdateEvent(...) as the last call of a handler: the reply
\* is delivered and onEach moves on, or the call throws a StatusException
\* that ends collect().
SendReply(u, success) ==
    \/ /\ replies' = Append(replies, [op |-> u.op, uid |-> u.uid,
                                      n |-> u.n, success |-> success])
       /\ inbox' = Tail(inbox)
       /\ streak' = 0
       /\ UNCHANGED <<phase, retries>>
    \/ /\ ReplyMayFail
       /\ StatusRetry
       /\ UNCHANGED replies

\* client.subscribePipelineUpdates(...).collect() starts a new stream.
Subscribe ==
    /\ phase = "call"
    /\ phase' = "collect"
    /\ inbox' = <<>>
    /\ UNCHANGED <<retries, pipelines, started, topics, replies, nSent,
                   unanswered, streak>>

\* The scheduler sends update u on the current stream (environment).
ServerSend ==
    /\ phase = "collect"
    /\ nSent < MaxUpdates
    /\ \E op \in Ops, uid \in Pids :
       \E steps \in IF op = "Create" THEN StepLists ELSE {<<>>} :
          inbox' = Append(inbox, [n |-> nSent + 1, op |-> op, uid |-> uid,
                                  steps |-> steps])
    /\ nSent' = nSent + 1
    /\ UNCHANGED <<phase, retries, pipelines, started, topics, replies,
                   unanswered, streak>>

\* The scheduler ends the stream normally: collect() returns, onCompletion
\* logs, and the while (retry) loop subscribes again (environment).
ServerComplete ==
    /\ phase = "collect"
    /\ inbox = <<>>
    /\ phase' = "call"
    /\ UNCHANGED <<retries, inbox, pipelines, started, topics, replies, nSent,
                   unanswered, streak>>

\* The stream fails with a StatusException (environment).
StreamFails ==
    /\ phase = "collect"
    /\ StatusRetry
    /\ UNCHANGED <<pipelines, started, topics, replies, nSent, unanswered>>

\* The head of the stream, taken by onEach.
Current == Head(inbox)

\* The head update, when its op is op.
Handling(op) ==
    /\ phase = "collect"
    /\ inbox # <<>>
    /\ Current.op = op

\* handleCreate after createTopics, with putIfAbsent replaced by put: the
\* topology is stored and started whatever the map held.
HandleCreatedPut(u) ==
    \/ /\ ~TransformersComplete(u)
       /\ SendReply(u, FALSE)
       /\ UNCHANGED <<pipelines, started, unanswered>>
    \/ /\ TransformersComplete(u)
       /\ pipelines' = [pipelines EXCEPT ![u.uid] = u]
       /\ started' = started \cup {u}
       /\ SendReply(u, TRUE)
       /\ UNCHANGED unanswered

\* handleCreate after createTopics returned: a missing transformer is
\* reported as a failure; otherwise putIfAbsent, and only a new topology
\* is started and reported, a duplicate is only logged.
HandleCreated(u) ==
    \/ /\ ~TransformersComplete(u)
       /\ SendReply(u, FALSE)
       /\ UNCHANGED <<pipelines, started, unanswered>>
    \/ /\ TransformersComplete(u)
       /\ pipelines[u.uid] = NoTopology
       /\ pipelines' = [pipelines EXCEPT ![u.uid] = u]
       /\ started' = started \cup {u}
       /\ SendReply(u, TRUE)
       /\ UNCHANGED unanswered
    \/ /\ TransformersComplete(u)
       /\ pipelines[u.uid] # NoTopology
       /\ inbox' = Tail(inbox)
       /\ unanswered' = unanswered \cup {u}
       /\ streak' = 0
       /\ UNCHANGED <<phase, retries, pipelines, started, replies>>

\* createTopics throws an ExecutionException that no handler catches: the
\* subscriber is gone, with some of the topics created.
Crash(made) ==
    /\ phase' = "crashed"
    /\ topics' = topics \cup made
    /\ UNCHANGED <<retries, inbox, pipelines, started, replies, unanswered,
                   streak>>

\* handleCreate: createTopics either throws, for an empty topic name or
\* another Kafka error, or leaves the pipeline's topics in place.
HandleCreate ==
    /\ Handling("Create")
    /\ \/ /\ InvalidTopic(Current)
          /\ Crash(TopicNamesOf(Current) \ {Parser!EmptyName})
       \/ /\ KafkaMayFail
          /\ \E made \in SUBSET TopicNamesOf(Current) : Crash(made)
       \/ /\ ~InvalidTopic(Current)
          /\ topics' = topics \cup TopicNamesOf(Current)
          /\ HandleCreated(Current)
    /\ UNCHANGED nSent

\* handleDelete: remove the topology, stop its transformers if there was
\* one, and report success in any case.
HandleDelete ==
    /\ Handling("Delete")
    /\ pipelines' = [pipelines EXCEPT ![Current.uid] = NoTopology]
    /\ started' = started \ {pipelines[Current.uid]}
    /\ SendReply(Current, TRUE)
    /\ UNCHANGED <<topics, nSent, unanswered>>

\* Any other operation is logged and skipped.
HandleUnknown ==
    /\ Handling("Unknown")
    /\ inbox' = Tail(inbox)
    /\ streak' = 0
    /\ UNCHANGED <<phase, retries, pipelines, started, topics, replies, nSent,
                   unanswered>>

\* cancelPipelines: stop the transformers of every topology in the map; the
\* map itself is left as it is. Called from outside the loop, at shutdown.
CancelPipelines ==
    /\ started' = started \ Range(pipelines)
    /\ UNCHANGED <<phase, retries, inbox, pipelines, topics, replies, nSent,
                   unanswered, streak>>

Next ==
    \/ Subscribe
    \/ HandleCreate
    \/ HandleDelete
    \/ HandleUnknown
    \/ ServerSend
    \/ ServerComplete
    \/ StreamFails
    \/ CancelPipelines

Spec == Init /\ [][Next]_vars

(***************************************************************************)
(* Properties                                                              *)
(***************************************************************************)

\* No topology is left running behind the map's back: every started
\* topology whose transformers were never stopped is the one the pipelines
\* map holds for its id. handleCreate must not start a second topology for
\* an id (putIfAbsent), and handleDelete must stop what it removes.
NoOrphanTopology ==
    started \subseteq Range(pipelines)

\* The Kafka topics a step's transformer uses: the topics parseSources
\* groups its sources by, which the Chainer or Joiner consumes, and the
\* sink it produces to.
TopicsUsedBy(u) ==
    UNION {Parser!ReadTopics(Parser!ParseSources(u.steps[k].sources))
              \cup {u.steps[k].sink} : k \in DOMAIN u.steps}

\* Every topic a running transformer consumes or produces exists: handleCreate
\* starts a topology only after createTopics has created the topics of all
\* its sources and sinks, named by parseSource, while transformerFor names
\* the topics it reads by parseSources and its sink as given.  The two
\* components must agree on the names, and no topic may be missed.
TopicsExistForRunningTopologies ==
    \A u \in started : TopicsUsedBy(u) \subseteq topics

\* Every Create or Delete update that onEach handled got a status reply, so
\* the scheduler is never left waiting for the outcome of an update it sent.
EveryUpdateAnswered ==
    unanswered = {}

\* The subscriber stops serving pipeline updates only at the end of an
\* outage: RetryCountMax StatusExceptions in a row, with no update handled
\* in between.  That is what the while (retry) loop around
\* subscribePipelineUpdates is there for; but its retries counter is never
\* reset, so it bounds the outages of the subscriber's whole lifetime, and
\* createTopics rethrows an ExecutionException whose cause is not
\* TopicExistsException, which the loop does not catch ("TODO - error
\* handling?").
SubscriberStopsOnlyOnOutage ==
    phase \in {"gaveUp", "crashed"} => streak >= RetryCountMax

====
