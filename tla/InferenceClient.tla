--------------------------- MODULE InferenceClient ---------------------------
(***************************************************************************)
(* The CLI's inference client (operator/pkg/cli/infer.go): one Infer call  *)
(* dispatches on the mode, and InferRest or InferGrpc sends the request    *)
(* `iterations` times, stopping at the first error.  A single iteration    *)
(* shows its response; several are summarised by counting the responding   *)
(* model names with updateSummary and printing the counts at the end.     *)
(*                                                                         *)
(* The HTTP and gRPC servers are the environment: each call's outcome is  *)
(* chosen from the outcomes call() and ModelInfer can produce.  Payloads   *)
(* are abstracted to the model name a response carries.                   *)
(***************************************************************************)
EXTENDS Integers, Sequences, FiniteSets

CONSTANTS
    Names,          \* model names a response may carry ("" when omitted)
    IterationFlags, \* values the --iterations flag may take
    Modes           \* values the --inference-mode flag may take

ASSUME IterationFlags \subseteq Int

\* How a REST call() can fail: http.NewRequest, httpClient.Do, ReadAll and
\* Body.Close errors; a 400 whose body is or is not a V2Error; any other
\* non-200 status; or a 200 whose body is not a V2InferenceResponse.
RestFailures == {"request", "transport", "read", "close",
                 "status400", "status400Unparsable", "status", "unmarshal"}
\* How grpcClient.ModelInfer can fail (its retry interceptor gives up).
GrpcFailures == {"rpc"}

VARIABLES
    pc,           \* "idle", "grpcSetup", "loop" or "done"
    mode,         \* the mode Infer was called with
    iterations,   \* the iterations argument
    showResponse, \* the showResponse argument
    i,            \* the loop counter
    counts,       \* ic.counts: model name -> count, 0 when absent
    shown,        \* responses printed (printPrettyJson / printProto)
    summary,      \* <<the counts printed after the loop>>, or <<>>
    result,       \* "none", "ok" or "error": what Infer returned
    answers       \* history: the model names of the responses received

vars == <<pc, mode, iterations, showResponse, i, counts, shown, summary,
          result, answers>>

TypeOK ==
    /\ pc \in {"idle", "grpcSetup", "loop", "done"}
    /\ iterations \in IterationFlags \cup {0}
    /\ showResponse \in BOOLEAN
    /\ i \in 0..(IF iterations > 0 THEN iterations ELSE 0)
    /\ counts \in [Names -> Nat]
    /\ shown \in Seq(Names)
    /\ summary \in Seq([Names -> Nat]) /\ Len(summary) <= 1
    /\ result \in {"none", "ok", "error"}
    /\ answers \in Seq(Names)

Init ==
    /\ pc = "idle"
    /\ mode \in Modes
    /\ iterations = 0
    /\ showResponse = FALSE
    /\ i = 0
    /\ counts = [n \in Names |-> 0]
    /\ shown = <<>>
    /\ summary = <<>>
    /\ result = "none"
    /\ answers = <<>>

\* The method returns err.
Fail ==
    /\ pc' = "done"
    /\ result' = "error"

\* Infer: "rest" enters InferRest's loop (it has nothing to set up), "grpc"
\* first unmarshals the request and dials, and any other mode is an error.
Infer ==
    /\ pc = "idle"
    /\ \E n \in IterationFlags, show \in BOOLEAN :
          /\ iterations' = n
          /\ showResponse' = show
    /\ CASE mode = "rest" -> pc' = "loop" /\ UNCHANGED result
         [] mode = "grpc" -> pc' = "grpcSetup" /\ UNCHANGED result
         [] OTHER         -> Fail
    /\ UNCHANGED <<mode, i, counts, shown, summary, answers>>

\* getConnection: grpc.Dial with the retry interceptors returns a
\* connection, or an error that InferGrpc returns.  Dial does not block,
\* so an unreachable server shows only in the calls of the loop.
GetConnection ==
    \/ pc' = "loop" /\ UNCHANGED result
    \/ Fail

\* InferGrpc before its loop: protojson.Unmarshal of the request fails, or
\* getConnection is called; the metadata header is set.
GrpcSetup ==
    /\ pc = "grpcSetup"
    /\ \/ Fail
       \/ GetConnection
    /\ UNCHANGED <<mode, iterations, showResponse, i, counts, shown, summary,
                   answers>>

\* updateSummary with the ok check dropped: every name is counted once.
UpdateSummaryNoOkCheck(n) ==
    counts' = [counts EXCEPT ![n] = 1]

\* updateSummary: add one to the name's count, or store 1 for a new name.
UpdateSummary(n) ==
    counts' = [counts EXCEPT ![n] = IF counts[n] # 0 THEN counts[n] + 1 ELSE 1]

\* A response of model n arrived: one iteration shows it (if asked to),
\* several count it.
Received(n) ==
    /\ answers' = Append(answers, n)
    /\ IF iterations = 1
       THEN /\ shown' = IF showResponse THEN Append(shown, n) ELSE shown
            /\ UNCHANGED counts
       ELSE /\ UpdateSummary(n)
            /\ UNCHANGED shown

\* Mutant of Iterate: the loop runs while i <= iterations.
IterateInclusive ==
    /\ pc = "loop"
    /\ i <= iterations
    /\ \/ /\ \E f \in IF mode = "rest" THEN RestFailures ELSE GrpcFailures : Fail
          /\ UNCHANGED <<i, counts, shown, answers>>
       \/ /\ \E n \in Names : Received(n)
          /\ i' = i + 1
          /\ UNCHANGED <<pc, result>>
    /\ UNCHANGED <<mode, iterations, showResponse, summary>>

\* One iteration of the loop: the call fails with one of the mode's
\* failures and the method returns it, or a response arrives.
Iterate ==
    /\ pc = "loop"
    /\ i < iterations
    /\ \/ /\ \E f \in IF mode = "rest" THEN RestFailures ELSE GrpcFailures : Fail
          /\ UNCHANGED <<i, counts, shown, answers>>
       \/ /\ \E n \in Names : Received(n)
          /\ i' = i + 1
          /\ UNCHANGED <<pc, result>>
    /\ UNCHANGED <<mode, iterations, showResponse, summary>>

\* The loop is over: several iterations print the counts; return nil.
Finish ==
    /\ pc = "loop"
    /\ i >= iterations
    /\ summary' = IF iterations > 1 THEN <<counts>> ELSE <<>>
    /\ pc' = "done"
    /\ result' = "ok"
    /\ UNCHANGED <<mode, iterations, showResponse, i, counts, shown, answers>>

Next == Infer \/ GrpcSetup \/ Iterate \/ Finish

Spec == Init /\ [][Next]_vars

-----------------------------------------------------------------------------
(***************************************************************************)
(* Properties                                                              *)
(***************************************************************************)

\* The number of responses of model n in the history.
Occurrences(n) == Cardinality({k \in DOMAIN answers : answers[k] = n})

\* The printed summary accounts for every iteration of this Infer call:
\* each model name is counted as often as it answered, and the counts add
\* up to the iterations asked for (updateSummary's ok branch, the loop
\* bound, and the early returns on error).
SummaryMatchesResponses ==
    summary # <<>> =>
        /\ Len(answers) = iterations
        /\ \A n \in Names : summary[1][n] = Occurrences(n)

\* Infer returns success only after making an inference: the CLI's
\* documentation of `seldon model infer` says it calls the model and gets
\* a prediction.  InferRest and InferGrpc loop `for i < iterations`.
SuccessMeansInferred ==
    result = "ok" => answers # <<>>

=============================================================================
