---------------------------- MODULE AgentServer ----------------------------
(***************************************************************************)
(* The scheduler's agent server (scheduler/pkg/agent/server.go).           *)
(*                                                                         *)
(* One Server holds the registry `agents` of live replica subscriptions,   *)
(* guarded by the RWMutex `mutext`.  Three kinds of goroutine act on it:   *)
(*   - ListenForSyncs takes model events and spawns one Sync per event;    *)
(*     a Sync holds the read lock while it sends LOAD/UNLOAD commands      *)
(*     and writes Loading/Unloading to the store;                          *)
(*   - one Subscribe handler per agent connection registers the replica,   *)
(*     runs syncMessage, then waits for the peer to disconnect and         *)
(*     cleans up (deregister, RemoveServerReplica, reschedule);            *)
(*   - AgentEvent, a unary RPC with no lock, records the state a replica   *)
(*     reports.                                                            *)
(* The store, the scheduler and the agents are external collaborators;     *)
(* they are modelled from their contracts in the specification.            *)
(***************************************************************************)
EXTENDS Naturals, Sequences, FiniteSets, Functions

CONSTANTS
    Servers,        \* server names (model values)
    Idxs,           \* replica indices of a server
    Models,         \* model names (model values)
    MaxVersion,     \* bound on the versions deployed per model
    MaxConns,       \* bound on agent connections (Subscribe calls) in a run
    MaxSyncs,       \* bound on Sync goroutines alive at the same time
    NoConn,         \* sentinel: no registered subscriber
    NoServer,       \* sentinel: version not placed on any server
    LoadOutcomes,   \* events an agent may report for a LOAD_MODEL command
    SubscribeMayFail,        \* may AddServerReplica or ScheduleFailedModels
                             \* fail inside syncMessage?
    ReconnectBeforeCleanup,  \* may an agent reconnect before the server
                             \* has noticed its previous stream ended?
    StoreMayFail,            \* may Sync's UpdateModelState return an error?
    RemoveMayFail,           \* may the cleanup's RemoveServerReplica?
    ScheduleMayFail          \* may the cleanup's scheduler.Schedule fail?

ASSUME MaxVersion \in Nat \ {0} /\ MaxConns \in Nat \ {0} /\ MaxSyncs \in Nat \ {0}
ASSUME NoConn \notin Nat /\ NoServer \notin Servers
ASSUME LoadOutcomes \subseteq {"LOADED", "LOAD_FAILED", "LOAD_FAIL_MEMORY"}
ASSUME SubscribeMayFail \in BOOLEAN /\ ReconnectBeforeCleanup \in BOOLEAN
ASSUME StoreMayFail \in BOOLEAN /\ RemoveMayFail \in BOOLEAN /\ ScheduleMayFail \in BOOLEAN

\* ServerKey{serverName, replicaIdx}
Replicas == Servers \X Idxs
Conns    == 1..MaxConns
SyncIds  == 1..MaxSyncs
Versions == 1..MaxVersion

\* store.ModelReplicaState; "None" stands for "no entry for this replica".
States == {"None", "Unknown", "LoadRequested", "Loading", "Loaded",
           "LoadFailed", "UnloadRequested", "Unloading", "Unloaded"}
\* states in which a replica holds or is getting the version
Active == {"LoadRequested", "Loading", "Loaded"}

\* Agent events of pb.ModelEventMessage, and the commands on the stream.
AgentEvents == {"LOADED", "UNLOADED", "LOAD_FAILED", "LOAD_FAIL_MEMORY", "OTHER"}
Command == [op : {"LOAD_MODEL", "UNLOAD_MODEL"}, m : Models, v : Versions]

VARIABLES
    \* ---- external ModelStore ----
    versions,       \* versions[m]: latest version number, 0 = no model
    vserver,        \* vserver[m][v]: server the version is placed on
    rstate,         \* rstate[m][v][i]: state of replica i of that server
    storeReplicas,  \* replicas the store knows (AddServerReplica)
    \* ---- the Server ----
    agents,         \* agents[r]: connection registered for replica r
    mutext,         \* set of Sync goroutines holding the read lock
    source,         \* model events waiting for ListenForSyncs
    syncs,          \* syncs[s]: program state of Sync goroutine s
    hpc,            \* hpc[c]: program counter of the Subscribe handler of c
    changed,        \* changed[c]: models still to reschedule after disconnect
    \* ---- agents and their streams ----
    connOf,         \* connOf[c]: replica that opened connection c
    nextConn,       \* next connection id
    agentConn,      \* agentConn[r]: the connection agent r is using
    peerGone,       \* peerGone[c]: the stream's context is done
    stream,         \* stream[c]: commands sent on c, not yet read
    sent            \* history: every command Send delivered, with its target

store  == <<versions, vserver, rstate, storeReplicas>>
server == <<agents, mutext, source, syncs, hpc, changed>>
env    == <<connOf, nextConn, agentConn, peerGone, stream, sent>>
vars   == <<store, server, env>>

SyncIdle == [pc |-> "idle"]
\* Fields of a Sync that only matter between Send and UpdateModelState.
AnyIdx == CHOOSE i \in Idxs : TRUE
\* A Sync holds a subscriber's stream only inside Send and the store write
\* that follows it.
SyncRecOf(pcs, cs) ==
    [pc : pcs, m : Models, op : {"LOAD_MODEL", "UNLOAD_MODEL"},
     latest : Versions, ver : Versions, srv : Servers \cup {NoServer},
     todo : SUBSET Idxs, cur : Idxs, conn : cs]
SyncRec == SyncRecOf({"rlock", "pick"}, {NoConn}) \cup SyncRecOf({"send", "update"}, Conns)
HPCs == {"none", "reg", "syncMsg", "wait", "remove", "resched", "done"}

TypeOK ==
    /\ versions \in [Models -> 0..MaxVersion]
    /\ vserver \in [Models -> [Versions -> Servers \cup {NoServer}]]
    /\ rstate \in [Models -> [Versions -> [Idxs -> States]]]
    /\ storeReplicas \subseteq Replicas
    /\ agents \in [Replicas -> Conns \cup {NoConn}]
    /\ mutext \subseteq SyncIds
    /\ source \in Seq(Models)
    /\ syncs \in [SyncIds -> SyncRec \cup {SyncIdle}]
    /\ hpc \in [Conns -> HPCs]
    /\ changed \in [Conns -> SUBSET Models]
    /\ connOf \in [Conns -> Replicas]
    /\ nextConn \in 1..MaxConns + 1
    /\ agentConn \in [Replicas -> Conns \cup {NoConn}]
    /\ peerGone \in [Conns -> BOOLEAN]
    /\ stream \in [Conns -> Seq(Command)]
    /\ sent \subseteq [cmd : Command, r : Replicas]

-----------------------------------------------------------------------------
(***************************************************************************)
(* The external collaborators, from the contracts in the specification.    *)
(***************************************************************************)

\* store.UpdateModelState: an atomic write of one replica's state.  A write
\* naming a server the version is not placed on, or a replica the store no
\* longer knows, is a stale reference (specification 7) and changes nothing.
UpdateModelState(m, v, srv, i, st) ==
    rstate' = IF vserver[m][v] = srv /\ <<srv, i>> \in storeReplicas
              THEN [rstate EXCEPT ![m][v][i] = st]
              ELSE rstate

\* The latest version of m has no replica holding or getting it.
Unplaced(m) ==
    /\ versions[m] > 0
    /\ \A i \in Idxs : rstate[m][versions[m]][i] \notin Active

\* Outcome of scheduling the models `ms` onto the replicas `reps`: every
\* unplaced model of ms is put on one replica of reps (when there is one)
\* in LoadRequested, and an event is published for every model placed.
\* `rs` is the replica-state table before the scheduler runs.
ScheduleOnto(ms, reps, rs) ==
    LET todo == {m \in ms : Unplaced(m)}
    IN  IF todo = {} \/ reps = {}
        THEN /\ rstate' = rs
             /\ UNCHANGED <<vserver, source>>
        ELSE \E place \in [todo -> reps], order \in [1..Cardinality(todo) -> todo] :
               /\ Range(order) = todo
               /\ vserver' = [m \in Models |->
                    IF m \in todo THEN [vserver[m] EXCEPT ![versions[m]] = place[m][1]]
                    ELSE vserver[m]]
               /\ rstate' = [m \in Models |->
                    IF m \in todo
                    THEN [rs[m] EXCEPT ![versions[m]] =
                            [i \in Idxs |-> IF i = place[m][2] THEN "LoadRequested"
                                                                ELSE "None"]]
                    ELSE rs[m]]
               /\ source' = source \o order

\* store.RemoveServerReplica: clear every entry of replica r, and return
\* the models that had one.
RemovedModels(r) ==
    {m \in Models : \E v \in Versions :
        vserver[m][v] = r[1] /\ rstate[m][v][r[2]] # "None"}
WithoutReplica(r) ==
    [m \in Models |-> [v \in Versions |-> [i \in Idxs |->
        IF vserver[m][v] = r[1] /\ i = r[2] THEN "None" ELSE rstate[m][v][i]]]]

-----------------------------------------------------------------------------
(***************************************************************************)
(* ListenForSyncs: one Sync goroutine per event.                           *)
(***************************************************************************)
ListenForSyncs ==
    /\ source # <<>>
    /\ \E s \in SyncIds :
         /\ syncs[s] = SyncIdle
         /\ syncs' = [syncs EXCEPT ![s] =
              [pc |-> "rlock", m |-> Head(source), op |-> "LOAD_MODEL",
               latest |-> 1, ver |-> 1, srv |-> NoServer, todo |-> {},
               cur |-> AnyIdx, conn |-> NoConn]]
    /\ source' = Tail(source)
    /\ UNCHANGED <<store, agents, mutext, hpc, changed, env>>

(***************************************************************************)
(* Sync(modelName).  The read lock is taken for the whole call; a writer   *)
(* (Subscribe, syncMessage, the disconnect branch) is one atomic step      *)
(* that needs no reader, so the write lock is never seen held.             *)
(***************************************************************************)
SyncState(s) == syncs[s]
SetSync(s, r) == syncs' = [syncs EXCEPT ![s] = r]

\* RLock, GetModel, GetLatest and the LoadRequested replicas of the latest
\* version (the range expression is evaluated once).  A GetModel error is
\* logged and Sync returns, releasing the read lock it took.
SyncGetModel(s) ==
    LET y == SyncState(s)
        v == versions[y.m]
    IN /\ y.pc = "rlock"
       /\ \/ /\ mutext' = mutext \cup {s}
             /\ SetSync(s, [y EXCEPT !.pc = "pick", !.op = "LOAD_MODEL", !.latest = v,
                            !.ver = v, !.srv = vserver[y.m][v],
                            !.todo = {i \in Idxs : rstate[y.m][v][i] = "LoadRequested"}])
          \/ /\ StoreMayFail
             /\ SetSync(s, SyncIdle)
             /\ UNCHANGED mutext
       /\ UNCHANGED <<store, agents, source, hpc, changed, env>>

\* Mutant of SyncPick: the `if !ok` check after the lookup is missing.
SyncPickNoOkCheck(s) ==
    LET y == SyncState(s) IN
    /\ y.pc = "pick"
    /\ \E i \in y.todo :
         SetSync(s, [y EXCEPT !.todo = @ \ {i}, !.pc = "send",
                              !.cur = i, !.conn = agents[<<y.srv, i>>]])
    /\ UNCHANGED <<store, agents, mutext, source, hpc, changed, env>>

\* Next replica of the current loop: look up its subscriber; a miss is
\* logged and skipped (continue).  A hit starts stream.Send.
SyncPick(s) ==
    LET y == SyncState(s) IN
    /\ y.pc = "pick"
    /\ \E i \in y.todo :
         LET as == agents[<<y.srv, i>>] IN
         SetSync(s, IF as = NoConn
                    THEN [y EXCEPT !.todo = @ \ {i}]
                    ELSE [y EXCEPT !.todo = @ \ {i}, !.pc = "send",
                                   !.cur = i, !.conn = as])
    /\ UNCHANGED <<store, agents, mutext, source, hpc, changed, env>>

\* stream.Send returns.  It fails once the stream's context is done or the
\* handler has returned; a failure is logged and the loop continues.
Alive(c) == ~peerGone[c] /\ hpc[c] # "done"

\* Mutant of SyncSend: a failed Send falls through to UpdateModelState.
SyncSendIgnoringError(s) ==
    LET y   == SyncState(s)
        cmd == [op |-> y.op, m |-> y.m, v |-> y.ver]
    IN /\ y.pc = "send"
       /\ IF Alive(y.conn)
          THEN /\ stream' = [stream EXCEPT ![y.conn] = Append(@, cmd)]
               /\ sent' = sent \cup {[cmd |-> cmd, r |-> connOf[y.conn]]}
          ELSE UNCHANGED <<stream, sent>>
       /\ SetSync(s, [y EXCEPT !.pc = "update"])
       /\ UNCHANGED <<store, agents, mutext, source, hpc, changed,
                      connOf, nextConn, agentConn, peerGone>>

SyncSend(s) ==
    LET y   == SyncState(s)
        cmd == [op |-> y.op, m |-> y.m, v |-> y.ver]
    IN /\ y.pc = "send"
       /\ IF Alive(y.conn)
          THEN /\ stream' = [stream EXCEPT ![y.conn] = Append(@, cmd)]
               /\ sent' = sent \cup {[cmd |-> cmd, r |-> connOf[y.conn]]}
               /\ SetSync(s, [y EXCEPT !.pc = "update"])
          ELSE /\ SetSync(s, [y EXCEPT !.pc = "pick", !.cur = AnyIdx, !.conn = NoConn])
               /\ UNCHANGED <<stream, sent>>
       /\ UNCHANGED <<store, agents, mutext, source, hpc, changed,
                      connOf, nextConn, agentConn, peerGone>>

\* UpdateModelState(..., Loading | Unloading) after a successful send; an
\* error is logged and the loop continues with the state left as it was.
SyncUpdate(s) ==
    LET y == SyncState(s) IN
    /\ y.pc = "update"
    /\ \/ UpdateModelState(y.m, y.ver, y.srv, y.cur,
                           IF y.op = "LOAD_MODEL" THEN "Loading" ELSE "Unloading")
       \/ StoreMayFail /\ UNCHANGED rstate
    /\ SetSync(s, [y EXCEPT !.pc = "pick", !.cur = AnyIdx, !.conn = NoConn])
    /\ UNCHANGED <<versions, vserver, storeReplicas, agents, mutext, source,
                   hpc, changed, env>>

\* The unload loop at version v of model.Versions: the UnloadRequested
\* replicas of v (the range expression is evaluated once).  Past the
\* latest version read, Sync returns.
AtVersion(y, v) ==
    IF v > y.latest THEN SyncIdle
    ELSE [y EXCEPT !.pc = "pick", !.op = "UNLOAD_MODEL", !.ver = v,
                   !.srv = vserver[y.m][v],
                   !.todo = {i \in Idxs : rstate[y.m][v][i] = "UnloadRequested"}]

\* Mutant of SyncLoopDone: the unload loop visits the latest version only.
SyncLoopDoneLatestOnly(s) ==
    LET y   == SyncState(s)
        nxt == AtVersion(y, IF y.op = "LOAD_MODEL" THEN y.latest ELSE y.ver + 1)
    IN /\ y.pc = "pick"
       /\ y.todo = {}
       /\ SetSync(s, nxt)
       /\ mutext' = IF nxt = SyncIdle THEN mutext \ {s} ELSE mutext
       /\ UNCHANGED <<store, agents, source, hpc, changed, env>>

\* Mutant of SyncLoopDone: Sync returns without RUnlock.
SyncLoopDoneNoUnlock(s) ==
    LET y   == SyncState(s)
        nxt == AtVersion(y, IF y.op = "LOAD_MODEL" THEN 1 ELSE y.ver + 1)
    IN /\ y.pc = "pick"
       /\ y.todo = {}
       /\ SetSync(s, nxt)
       /\ UNCHANGED <<store, agents, mutext, source, hpc, changed, env>>

\* A loop is exhausted: the load loop is followed by the unload loop over
\* model.Versions from the first version; when Sync returns the deferred
\* RUnlock runs.
SyncLoopDone(s) ==
    LET y   == SyncState(s)
        nxt == AtVersion(y, IF y.op = "LOAD_MODEL" THEN 1 ELSE y.ver + 1)
    IN /\ y.pc = "pick"
       /\ y.todo = {}
       /\ SetSync(s, nxt)
       /\ mutext' = IF nxt = SyncIdle THEN mutext \ {s} ELSE mutext
       /\ UNCHANGED <<store, agents, source, hpc, changed, env>>

-----------------------------------------------------------------------------
(***************************************************************************)
(* AgentEvent: the state a replica reports, written without the lock.      *)
(***************************************************************************)
EventState(e) ==
    CASE e = "LOADED" -> "Loaded"
      [] e = "UNLOADED" -> "Unloaded"
      [] e \in {"LOAD_FAILED", "LOAD_FAIL_MEMORY"} -> "LoadFailed"
      [] OTHER -> "Unknown"

\* A failing UpdateModelState is returned to the agent as codes.Internal
\* with the store left as it was.
AgentEvent(m, v, r, e) ==
    \/ UpdateModelState(m, v, r[1], r[2], EventState(e))
    \/ StoreMayFail /\ UNCHANGED rstate

-----------------------------------------------------------------------------
(***************************************************************************)
(* Subscribe: the handler of connection c, one step per critical section.  *)
(***************************************************************************)
NoReaders == mutext = {}

\* Lock; agents[key] = subscriber; Unlock.  An entry of the same key is
\* replaced.
Subscribe(c) ==
    /\ hpc[c] = "reg"
    /\ NoReaders
    /\ agents' = [agents EXCEPT ![connOf[c]] = c]
    /\ hpc' = [hpc EXCEPT ![c] = "syncMsg"]
    /\ UNCHANGED <<store, mutext, source, syncs, changed, env>>

\* syncMessage under the write lock: AddServerReplica, then
\* ScheduleFailedModels.  If either fails, Subscribe returns the error and
\* leaves its registry entry behind; a failing ScheduleFailedModels leaves
\* the replica added to the store as well.
SyncMessage(c) ==
    /\ hpc[c] = "syncMsg"
    /\ NoReaders
    /\ \/ /\ storeReplicas' = storeReplicas \cup {connOf[c]}
          /\ ScheduleOnto(Models, storeReplicas', rstate)
          /\ hpc' = [hpc EXCEPT ![c] = "wait"]
       \/ /\ SubscribeMayFail
          /\ hpc' = [hpc EXCEPT ![c] = "done"]
          /\ UNCHANGED <<storeReplicas, vserver, rstate, source>>
       \/ /\ SubscribeMayFail
          /\ storeReplicas' = storeReplicas \cup {connOf[c]}
          /\ hpc' = [hpc EXCEPT ![c] = "done"]
          /\ UNCHANGED <<vserver, rstate, source>>
    /\ UNCHANGED <<versions, agents, mutext, syncs, changed, env>>

\* <-ctx.Done(): Lock; delete(agents, key); Unlock.  The key is the
\* replica's, whichever connection it now maps to.
Disconnect(c) ==
    /\ hpc[c] = "wait"
    /\ peerGone[c]
    /\ NoReaders
    /\ agents' = [agents EXCEPT ![connOf[c]] = NoConn]
    /\ hpc' = [hpc EXCEPT ![c] = "remove"]
    /\ UNCHANGED <<store, mutext, source, syncs, changed, env>>

\* RemoveServerReplica, outside the lock.  An error is logged and leaves
\* no models to reschedule (the store is taken to change nothing then).
RemoveServerReplica(c) ==
    LET r == connOf[c] IN
    /\ hpc[c] = "remove"
    /\ \/ /\ storeReplicas' = storeReplicas \ {r}
          /\ rstate' = WithoutReplica(r)
          /\ changed' = [changed EXCEPT ![c] = RemovedModels(r)]
       \/ /\ RemoveMayFail
          /\ UNCHANGED <<storeReplicas, rstate, changed>>
    /\ hpc' = [hpc EXCEPT ![c] = "resched"]
    /\ UNCHANGED <<versions, vserver, agents, mutext, source, syncs, env>>

\* scheduler.Schedule(modelName) for each changed model; an error is
\* logged and the loop goes on; then the handler returns.
Reschedule(c) ==
    /\ hpc[c] = "resched"
    /\ \/ \E m \in changed[c] :
            /\ \/ ScheduleOnto({m}, storeReplicas, rstate)
               \/ ScheduleMayFail /\ UNCHANGED <<vserver, rstate, source>>
            /\ changed' = [changed EXCEPT ![c] = @ \ {m}]
            /\ UNCHANGED hpc
       \/ /\ changed[c] = {}
          /\ hpc' = [hpc EXCEPT ![c] = "done"]
          /\ UNCHANGED <<vserver, rstate, source, changed>>
    /\ UNCHANGED <<versions, storeReplicas, agents, mutext, syncs, env>>

-----------------------------------------------------------------------------
(***************************************************************************)
(* The environment: deployments and agents.                                *)
(***************************************************************************)

\* A new version of m is deployed: every replica holding or getting an
\* older version is asked to unload it (Sync never loads a version that
\* is not the latest), and the new version is scheduled.
Deploy(m) ==
    LET v  == versions[m] + 1
        rs == [rstate EXCEPT ![m] = [u \in Versions |-> [i \in Idxs |->
                 IF u < v /\ rstate[m][u][i] \in Active THEN "UnloadRequested"
                 ELSE rstate[m][u][i]]]]
    IN /\ versions[m] < MaxVersion
       /\ versions' = [versions EXCEPT ![m] = v]
       /\ IF storeReplicas = {}
          THEN /\ rstate' = rs
               /\ source' = Append(source, m)
               /\ UNCHANGED vserver
          ELSE \E r \in storeReplicas :
                 /\ vserver' = [vserver EXCEPT ![m][v] = r[1]]
                 /\ rstate' = [rs EXCEPT ![m][v][r[2]] = "LoadRequested"]
                 /\ source' = Append(source, m)
       /\ UNCHANGED <<storeReplicas, agents, mutext, syncs, hpc, changed, env>>

\* Agent r opens a new Subscribe stream.
AgentConnect(r) ==
    /\ agentConn[r] = NoConn
    /\ nextConn <= MaxConns
    /\ ReconnectBeforeCleanup \/ \A c \in Conns : connOf[c] = r => hpc[c] \in {"none", "done"}
    /\ connOf' = [connOf EXCEPT ![nextConn] = r]
    /\ agentConn' = [agentConn EXCEPT ![r] = nextConn]
    /\ hpc' = [hpc EXCEPT ![nextConn] = "reg"]
    /\ nextConn' = nextConn + 1
    /\ UNCHANGED <<store, agents, mutext, source, syncs, changed,
                   peerGone, stream, sent>>

\* Agent r's stream breaks (or was ended by the server); the server sees
\* ctx.Done() later.  Commands not yet read are lost with the stream.
AgentDrop(r) ==
    /\ agentConn[r] # NoConn
    /\ peerGone' = [peerGone EXCEPT ![agentConn[r]] = TRUE]
    /\ agentConn' = [agentConn EXCEPT ![r] = NoConn]
    /\ stream' = [stream EXCEPT ![agentConn[r]] = <<>>]
    /\ UNCHANGED <<store, server, connOf, nextConn, sent>>

\* Agent r reads the next command and reports the outcome by AgentEvent.
\* An agent that retries a failed report is one that has not taken this
\* step yet; one that moves on leaves the store unchanged.
AgentProcess(r) ==
    LET c == agentConn[r] IN
    /\ c # NoConn
    /\ Alive(c)
    /\ stream[c] # <<>>
    /\ LET cmd == Head(stream[c]) IN
       \E e \in IF cmd.op = "LOAD_MODEL" THEN LoadOutcomes
                                         ELSE {"UNLOADED"} :
          AgentEvent(cmd.m, cmd.v, r, e)
    /\ stream' = [stream EXCEPT ![c] = Tail(@)]
    /\ UNCHANGED <<versions, vserver, storeReplicas, server,
                   connOf, nextConn, agentConn, peerGone, sent>>

-----------------------------------------------------------------------------
Init ==
    /\ versions = [m \in Models |-> 0]
    /\ vserver = [m \in Models |-> [v \in Versions |-> NoServer]]
    /\ rstate = [m \in Models |-> [v \in Versions |-> [i \in Idxs |-> "None"]]]
    /\ storeReplicas = {}
    /\ agents = [r \in Replicas |-> NoConn]
    /\ mutext = {}
    /\ source = <<>>
    /\ syncs = [s \in SyncIds |-> SyncIdle]
    /\ hpc = [c \in Conns |-> "none"]
    /\ changed = [c \in Conns |-> {}]
    /\ connOf = [c \in Conns |-> CHOOSE r \in Replicas : TRUE]
    /\ nextConn = 1
    /\ agentConn = [r \in Replicas |-> NoConn]
    /\ peerGone = [c \in Conns |-> FALSE]
    /\ stream = [c \in Conns |-> <<>>]
    /\ sent = {}

SyncStep(s) ==
    \/ SyncGetModel(s) \/ SyncPick(s) \/ SyncSend(s) \/ SyncUpdate(s)
    \/ SyncLoopDone(s)

HandlerStep(c) ==
    \/ Subscribe(c) \/ SyncMessage(c) \/ Disconnect(c)
    \/ RemoveServerReplica(c) \/ Reschedule(c)

Environment ==
    \/ \E m \in Models : Deploy(m)
    \/ \E r \in Replicas : AgentConnect(r) \/ AgentDrop(r)

Next ==
    \/ ListenForSyncs
    \/ \E s \in SyncIds : SyncStep(s)
    \/ \E c \in Conns : HandlerStep(c)
    \/ \E r \in Replicas : AgentProcess(r)
    \/ Environment

\* Goroutines of the server run when they can; agents read their streams.
\* Deployments, connects and drops are the environment's choice.
Fairness ==
    /\ WF_vars(ListenForSyncs)
    /\ \A s \in SyncIds : WF_vars(SyncStep(s))
    /\ \A c \in Conns : WF_vars(HandlerStep(c))
    /\ \A r \in Replicas : WF_vars(AgentProcess(r))

Spec == Init /\ [][Next]_vars /\ Fairness


-----------------------------------------------------------------------------
(***************************************************************************)
(* Properties.                                                             *)
(***************************************************************************)

\* Sync advances a replica to Loading (Unloading) only after stream.Send
\* of LOAD_MODEL (UNLOAD_MODEL) for that model version to that replica has
\* succeeded (server.go Sync: the `continue` after a failed Send).  The
\* store's state must never claim a command the replica was not sent.
CommandPrecedesProgress ==
    \A m \in Models, v \in Versions, i \in Idxs :
        LET r == <<vserver[m][v], i>>
            Was(op) == [cmd |-> [op |-> op, m |-> m, v |-> v], r |-> r] \in sent
        IN  /\ rstate[m][v][i] = "Loading" => Was("LOAD_MODEL")
            /\ rstate[m][v][i] = "Unloading" => Was("UNLOAD_MODEL")


\* Every replica the store asks to load or unload a version leaves that
\* request state: a Sync sends the command (the scheduler publishes an
\* event with each request, and a Sync that cannot reach the replica
\* leaves the request to the disconnect cleanup, which clears it).  This
\* is the promise "skip and leave the state for the next sync pass" of
\* Sync's `continue` branches, combined with Subscribe's cleanup.  It fails
\* when syncMessage fails: Subscribe then returns without the cleanup.
RequestEventuallyCommanded ==
    \A m \in Models, v \in Versions, i \in Idxs :
        /\ rstate[m][v][i] = "LoadRequested" ~> rstate[m][v][i] # "LoadRequested"
        /\ rstate[m][v][i] = "UnloadRequested" ~> rstate[m][v][i] # "UnloadRequested"

\* A Subscribe handler whose peer has gone eventually finishes its cleanup:
\* the write lock it needs is never held forever by Sync's read lock.
DisconnectEventuallyHandled ==
    \A c \in Conns : (hpc[c] = "wait" /\ peerGone[c]) ~> hpc[c] = "done"


\* The store says Loading only while the LOAD_MODEL command is still on its
\* way to the replica's live, registered stream.  The specification (5)
\* states that LoadRequested -> Loading strictly precedes Loading ->
\* Loaded, since the replica reports only after receiving the command;
\* Sync writes Loading after stream.Send returns, while AgentEvent takes
\* no lock.
LoadingMeansPending ==
    \A m \in Models, v \in Versions, i \in Idxs :
        LET r == <<vserver[m][v], i>>
            c == agents[r]
        IN  (rstate[m][v][i] = "Loading" /\ c # NoConn /\ Alive(c))
                => [op |-> "LOAD_MODEL", m |-> m, v |-> v] \in Range(stream[c])

\* No two Sync goroutines are inside stream.Send on the same stream: the
\* comment on AgentSubscriber notes that gRPC streams are not safe for
\* concurrent SendMsg, and Sync holds only the shared read lock.
NoConcurrentSend ==
    \A s1, s2 \in SyncIds :
        (s1 # s2 /\ syncs[s1].pc = "send" /\ syncs[s2].pc = "send")
            => syncs[s1].conn # syncs[s2].conn

\* A LOAD_MODEL command goes out only when the replica needs it: it names
\* the model's latest version at the moment it is sent, and the same
\* command is not already waiting on that stream.  Server.go says "we
\* don't want to load models from older versions", and specification (8)
\* asks that a reconciliation pass sends exactly one load command to a
\* LoadRequested replica.  Sync reads the latest version and the
\* LoadRequested replicas once, sends, and only then writes Loading, all
\* under the shared read lock; a failed write leaves the replica
\* LoadRequested for the next event.
LoadSentOnlyWhenNeeded ==
    [][\A c \in Conns :
          Len(stream'[c]) > Len(stream[c]) =>
             LET x == stream'[c][Len(stream'[c])] IN
             x.op = "LOAD_MODEL" => /\ x.v = versions[x.m]
                                    /\ x \notin Range(stream[c])]_vars

\* The registry holds exactly the live subscriptions.  A replica whose
\* agent is connected on a stream the server holds open is registered for
\* that stream and known to the store, and every registry entry belongs to
\* a Subscribe handler that is still running.  Specification (3, 4.1)
\* destroys a connection record only on that connection's disconnect or
\* close.  Subscribe's cleanup deletes by key, whichever connection the key
\* now maps to, and Subscribe returns the error of syncMessage without
\* deleting its entry.
RegistryMatchesStreams ==
    \A r \in Replicas :
        /\ LET c == agentConn[r] IN
           (c # NoConn /\ hpc[c] = "wait" /\ ~peerGone[c])
               => agents[r] = c /\ r \in storeReplicas
        /\ agents[r] # NoConn => hpc[agents[r]] # "done"

\* The store's replica lifecycle under the agent server is the one of the
\* specification (3, 9), module ReplicaState: request states are written
\* only by scheduling and cleanup, Loading and Unloading only after the
\* command reached the replica (Sync's Send before UpdateModelState), and
\* a report only names a version the replica was commanded, on the server
\* the version is placed on, with an outcome of that command (AgentEvent).
RS == INSTANCE ReplicaState WITH
        latest <- versions, placed <- vserver, table <- rstate, delivered <- sent

ImplementsReplicaState == RS!Spec

=============================================================================
