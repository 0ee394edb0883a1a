---------------------------- MODULE ReplicaState ----------------------------
(***************************************************************************)
(* The replica lifecycle of the specification (3, 9), as the store sees   *)
(* it: the per-replica state table of every model version, the server     *)
(* each version is placed on, and the commands delivered to replicas.     *)
(*                                                                         *)
(* Three kinds of step change it:                                          *)
(*   - Schedule: the scheduler and the store place versions and write     *)
(*     request states (a deployment, a placement, a replica's removal);   *)
(*   - Deliver: a LOAD_MODEL or UNLOAD_MODEL command reaches a replica;   *)
(*   - CommandSent and Report: the two transition functions of 9.         *)
(*     A replica moves to Loading (Unloading) only once the matching      *)
(*     command was delivered to it, and it reports only on a version it   *)
(*     was commanded, with an outcome that fits the command.              *)
(* No step of the agent server, the agents or the store is visible here;  *)
(* AgentServer is checked to implement this module.                       *)
(***************************************************************************)
EXTENDS Naturals

CONSTANTS Servers, Idxs, Models, MaxVersion, NoServer

VARIABLES
    latest,     \* latest[m]: the model's latest version, 0 = no model
    placed,     \* placed[m][v]: the server version v is placed on
    table,      \* table[m][v][i]: the state of replica i of that server
    delivered   \* the commands delivered, each with the replica it reached

vars == <<latest, placed, table, delivered>>

Vers        == 1..MaxVersion
Replicas    == Servers \X Idxs
Ops         == {"LOAD_MODEL", "UNLOAD_MODEL"}
Active      == {"LoadRequested", "Loading", "Loaded"}
Outcome(op) == IF op = "LOAD_MODEL" THEN {"Loaded", "LoadFailed", "Unknown"}
                                    ELSE {"Unloaded", "Unknown"}

Init ==
    /\ latest = [m \in Models |-> 0]
    /\ placed = [m \in Models |-> [v \in Vers |-> NoServer]]
    /\ table = [m \in Models |-> [v \in Vers |-> [i \in Idxs |-> "None"]]]
    /\ delivered = {}

\* A request write: an entry is cleared, asked to load, or, while it holds
\* or is getting its version, asked to unload.
RequestWrite(old, new) ==
    \/ new = old
    \/ new \in {"None", "LoadRequested"}
    \/ new = "UnloadRequested" /\ old \in Active

\* The scheduler and the store: a model may get one new version, versions
\* may be (re)placed, and replica entries take request states.
Schedule ==
    /\ \E ms \in SUBSET Models :
          latest' = [m \in Models |-> IF m \in ms THEN latest[m] + 1 ELSE latest[m]]
    /\ \A m \in Models : latest'[m] <= MaxVersion
    /\ placed' \in [Models -> [Vers -> Servers \cup {NoServer}]]
    /\ table' \in [Models -> [Vers -> [Idxs -> {"None", "Unknown", "LoadRequested",
          "Loading", "Loaded", "LoadFailed", "UnloadRequested", "Unloading",
          "Unloaded"}]]]
    /\ \A m \in Models, v \in Vers, i \in Idxs :
          RequestWrite(table[m][v][i], table'[m][v][i])
    /\ UNCHANGED delivered

\* A command for an existing version reaches replica r.
Deliver(op, m, v, r) ==
    /\ v <= latest[m]
    /\ delivered' = delivered \cup {[cmd |-> [op |-> op, m |-> m, v |-> v], r |-> r]}
    /\ UNCHANGED <<latest, placed, table>>

\* applyCommandSent: Loading (Unloading) once LOAD_MODEL (UNLOAD_MODEL) for
\* the version reached the replica it is placed on.
CommandSent(m, v, i) ==
    LET Got(op) == [cmd |-> [op |-> op, m |-> m, v |-> v],
                    r |-> <<placed[m][v], i>>] \in delivered
    IN /\ \/ Got("LOAD_MODEL") /\ table' = [table EXCEPT ![m][v][i] = "Loading"]
          \/ Got("UNLOAD_MODEL") /\ table' = [table EXCEPT ![m][v][i] = "Unloading"]
       /\ UNCHANGED <<latest, placed, delivered>>

\* applyReport: replica i of the server the version is placed on reports
\* on a version it was sent a command for, with an outcome of that command.
Report(m, v, i) ==
    /\ \E x \in delivered :
          /\ x.cmd.m = m /\ x.cmd.v = v /\ x.r = <<placed[m][v], i>>
          /\ \E st \in Outcome(x.cmd.op) : table' = [table EXCEPT ![m][v][i] = st]
    /\ UNCHANGED <<latest, placed, delivered>>

Next ==
    \/ Schedule
    \/ \E op \in Ops, m \in Models, v \in Vers, r \in Replicas : Deliver(op, m, v, r)
    \/ \E m \in Models, v \in Vers, i \in Idxs : CommandSent(m, v, i) \/ Report(m, v, i)

Spec == Init /\ [][Next]_vars

=============================================================================
