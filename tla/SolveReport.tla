---------------------------- MODULE SolveReport ----------------------------
(***************************************************************************)
(* What Solve adds to Run: the function that it hands to the workers, and   *)
(* what that function shares with the other workers and with the caller:    *)
(* the schema cache, the lists of the JSON output, the counters, and the    *)
(* channel of results.                                                      *)
(*                                                                          *)
(* A worker of Syncer that is at "call" is inside that function; step says  *)
(* where.  Every step taken here is a step of Syncer or leaves all of its   *)
(* variables alone, so what is proved of Syncer holds of Solve.             *)
(***************************************************************************)
EXTENDS Syncer

CONSTANTS
  OpOf,         \* the operation of every event
  SchemaOf,     \* the schema of a plugin or partial, by event, or NoSchema
  NoSchema,
  ResultBuffer, \* capacity of resultChan
  Mode          \* the ways in which a caller may call Solve

Op == {"create", "update", "delete"}
Modes == [dry : BOOLEAN, isJSONOut : BOOLEAN, enableEntityActions : BOOLEAN,
          receiving : BOOLEAN,        \* the caller receives from resultChan
          workspaceExists : BOOLEAN]

ASSUME ReportAssumption ==
  /\ OpOf \in [Event -> Op] /\ DOMAIN SchemaOf = Event
  /\ ResultBuffer \in Nat \ {0}
  /\ Mode \subseteq Modes

VARIABLES
  mode,
  step,         \* where each worker is in the function
  header,       \* the list that an append under way has read
  answer,       \* the error of the attempt, if there is one
  stats,        \* CreateOps, UpdateOps, DeleteOps
  output,       \* Creating, Updating, Deleting
  schemas,      \* the keys in the schema cache
  resultChan, resultChanClosed,
  received,     \* what the caller has received for each event
  accepted,     \* history: the events that Kong, or a dry run, answered well
  overlapped,   \* history: the events whose append overlapped with another
  fetched       \* history: how often each schema was fetched

callVars == <<step, header, answer>>
resultVars == <<resultChan, resultChanClosed, received>>
historyVars == <<accepted, overlapped, fetched>>
reportVars == <<mode, callVars, stats, output, schemas, resultVars, historyVars>>
solveVars == <<vars, reportVars>>

Schema == {SchemaOf[e] : e \in Event} \ {NoSchema}
Step == {"workspace", "lookup", "fetch", "store", "describe", "write", "request", "send"}
Answer == {"none", "ok", "500", "other"}

SolveInit ==
  /\ Init
  /\ mode \in Mode
  /\ step = [w \in Worker |-> "workspace"]
  /\ header = [w \in Worker |-> <<>>]
  /\ answer = [w \in Worker |-> "none"]
  /\ stats = [op \in Op |-> 0]
  /\ output = [op \in Op |-> <<>>]
  /\ schemas = {}
  /\ resultChan = <<>> /\ resultChanClosed = FALSE
  /\ received = [e \in Event |-> <<>>]
  /\ accepted = {} /\ overlapped = {} /\ fetched = [s \in Schema |-> 0]

-----------------------------------------------------------------------------
(* Inside the function.                                                     *)

schemaOf(w) == SchemaOf[wev[w]]
opOf(w) == OpOf[wev[w]]
At(w, s) == wpc[w] = "call" /\ step[w] = s
Move(w, s) == step' = [step EXCEPT ![w] = s]

\* An error that the function returns as it came keeps its status code, and
\* handleEvent retries a 500.
ReturnsBare(w) ==
  /\ \/ ServerError(w) /\ answer' = [answer EXCEPT ![w] = "500"]
     \/ CallFails(w) /\ answer' = [answer EXCEPT ![w] = "other"]
  /\ Move(w, "workspace")
  /\ UNCHANGED <<mode, header, stats, output, schemas, resultVars, historyVars>>

\* Whether the workspace exists is asked for every event.  Without it Kong
\* has no schemas to ask for.
WorkspaceExists(w) ==
  /\ At(w, "workspace")
  /\ Move(w, IF mode.workspaceExists /\ schemaOf(w) # NoSchema THEN "lookup" ELSE "describe")
  /\ UNCHANGED <<vars, mode, header, answer, stats, output, schemas, resultVars, historyVars>>

WorkspaceFails(w) == At(w, "workspace") /\ ReturnsBare(w)

\* Cache.Get: the lookup under the read lock, the fetch without a lock, the
\* store under the write lock.
Lookup(w) ==
  /\ At(w, "lookup")
  /\ Move(w, IF schemaOf(w) \in schemas THEN "describe" ELSE "fetch")
  /\ UNCHANGED <<vars, mode, header, answer, stats, output, schemas, resultVars, historyVars>>

Fetch(w) ==
  /\ At(w, "fetch")
  /\ fetched' = [fetched EXCEPT ![schemaOf(w)] = @ + 1]
  /\ Move(w, "store")
  /\ UNCHANGED <<vars, mode, header, answer, stats, output, schemas, resultVars, accepted, overlapped>>

FetchFails(w) == At(w, "fetch") /\ ReturnsBare(w)

\* Mutant: what was fetched is returned and not kept.
StoreNothing(w) ==
  /\ At(w, "store")
  /\ Move(w, "describe")
  /\ UNCHANGED <<vars, mode, header, answer, stats, output, schemas, resultVars, historyVars>>

Store(w) ==
  /\ At(w, "store")
  /\ schemas' = schemas \cup {schemaOf(w)}
  /\ Move(w, "describe")
  /\ UNCHANGED <<vars, mode, header, answer, stats, output, resultVars, historyVars>>

\* A partial that a plugin links to cannot be fetched, or no defaults be
\* filled in.
FillDefaultsFails(w) ==
  /\ At(w, "describe") /\ mode.workspaceExists /\ schemaOf(w) # NoSchema
  /\ ReturnsBare(w)

\* generateDiffString fails; with entity actions there is a result to send.
DescribeFails(w) ==
  /\ At(w, "describe") /\ opOf(w) = "update"
  /\ answer' = [answer EXCEPT ![w] = "other"]
  /\ IF mode.enableEntityActions
       THEN Move(w, "send") /\ UNCHANGED vars
       ELSE Move(w, "workspace") /\ CallFails(w)
  /\ UNCHANGED <<mode, header, stats, output, schemas, resultVars, historyVars>>

\* The JSON output lists the events if there are no entity actions.
listing == mode.isJSONOut /\ ~mode.enableEntityActions

\* Mutant: Updating and Deleting are appended to what is in Creating.
ReadHeaderOfCreating(w) ==
  /\ At(w, "describe") /\ listing
  /\ header' = [header EXCEPT ![w] = output["create"]]
  /\ LET others == {v \in Worker \ {w} : At(v, "write") /\ opOf(v) = opOf(w)}
     IN overlapped' = overlapped \cup (IF others = {} THEN {} ELSE {wev[v] : v \in others \cup {w}})
  /\ Move(w, "write")
  /\ UNCHANGED <<vars, mode, answer, stats, output, schemas, resultVars, accepted, fetched>>

\* output.Creating = append(output.Creating, item), and so for the others:
\* the list is read and later written, with no lock around.
ReadHeader(w) ==
  /\ At(w, "describe") /\ listing
  /\ header' = [header EXCEPT ![w] = output[opOf(w)]]
  /\ LET others == {v \in Worker \ {w} : At(v, "write") /\ opOf(v) = opOf(w)}
     IN overlapped' = overlapped \cup (IF others = {} THEN {} ELSE {wev[v] : v \in others \cup {w}})
  /\ Move(w, "write")
  /\ UNCHANGED <<vars, mode, answer, stats, output, schemas, resultVars, accepted, fetched>>

WriteHeader(w) ==
  /\ At(w, "write")
  /\ output' = [output EXCEPT ![opOf(w)] = Append(header[w], wev[w])]
  /\ header' = [header EXCEPT ![w] = <<>>]
  /\ Move(w, "request")
  /\ UNCHANGED <<vars, mode, answer, stats, schemas, resultVars, historyVars>>

\* The function returns.  The error of a request is wrapped in an ActionError,
\* which has no Unwrap method: handleEvent does not find the status code in
\* it.  recordOp comes last.
\* Mutant: an operation is recorded when it is sent.
ReturnsRecorded(w, a) ==
  /\ stats' = [stats EXCEPT ![opOf(w)] = @ + 1]
  /\ IF a = "ok" THEN CallSucceeds(w) ELSE CallFails(w)

Returns(w, a) ==
  IF a = "ok" THEN CallSucceeds(w) /\ stats' = [stats EXCEPT ![opOf(w)] = @ + 1]
              ELSE CallFails(w) /\ stats' = stats

\* processor.Do in a synchronisation; a dry run does without.
Request(w) ==
  /\ At(w, "request") \/ (At(w, "describe") /\ ~listing)
  /\ \E a \in IF mode.dry THEN {"ok"} ELSE {"ok", "500", "other"} :
       /\ answer' = [answer EXCEPT ![w] = a]
       /\ accepted' = IF a = "ok" THEN accepted \cup {wev[w]} ELSE accepted
       /\ IF mode.enableEntityActions
            THEN Move(w, "send") /\ UNCHANGED <<vars, stats>>
            ELSE Move(w, "workspace") /\ Returns(w, a)
  /\ UNCHANGED <<mode, header, output, schemas, resultVars, overlapped, fetched>>

\* Mutants: the channel has no bound; the result does not say that there was an
\* error; the worker does not look at the context while it waits for room.
SendResultUnbounded(w) ==
  /\ At(w, "send")
  /\ \/ resultChan' = Append(resultChan, <<wev[w], answer[w] = "ok">>)
     \/ ctxDone /\ UNCHANGED resultChan
  /\ Move(w, "workspace") /\ Returns(w, answer[w])
  /\ UNCHANGED <<mode, header, answer, output, schemas, resultChanClosed, received, historyVars>>

SendResultWithoutError(w) ==
  /\ At(w, "send")
  /\ \/ /\ Len(resultChan) < ResultBuffer
        /\ resultChan' = Append(resultChan, <<wev[w], TRUE>>)
     \/ ctxDone /\ UNCHANGED resultChan
  /\ Move(w, "workspace") /\ Returns(w, answer[w])
  /\ UNCHANGED <<mode, header, answer, output, schemas, resultChanClosed, received, historyVars>>

SendResultBlocking(w) ==
  /\ At(w, "send")
  /\ Len(resultChan) < ResultBuffer
  /\ resultChan' = Append(resultChan, <<wev[w], answer[w] = "ok">>)
  /\ Move(w, "workspace") /\ Returns(w, answer[w])
  /\ UNCHANGED <<mode, header, answer, output, schemas, resultChanClosed, received, historyVars>>

\* The select takes either branch when there is room and the context is done.
SendResult(w) ==
  /\ At(w, "send")
  /\ \/ /\ Len(resultChan) < ResultBuffer
        /\ resultChan' = Append(resultChan, <<wev[w], answer[w] = "ok">>)
     \/ ctxDone /\ UNCHANGED resultChan
  /\ Move(w, "workspace") /\ Returns(w, answer[w])
  /\ UNCHANGED <<mode, header, answer, output, schemas, resultChanClosed, received, historyVars>>

InFunction(w) ==
  \/ WorkspaceExists(w) \/ WorkspaceFails(w) \/ Lookup(w) \/ Fetch(w) \/ FetchFails(w) \/ Store(w)
  \/ FillDefaultsFails(w) \/ DescribeFails(w)
  \/ ReadHeader(w) \/ WriteHeader(w) \/ Request(w) \/ SendResult(w)

-----------------------------------------------------------------------------
(* Outside of it.                                                           *)

OutsideFunction(w) ==
  /\ \/ Receive(w) \/ LoopEnds(w) \/ StopSeen(w) \/ HandleEvent(w) \/ Retry(w)
     \/ PostProcessed(w) \/ PostProcessFails(w) \/ EventCompleted(w) \/ SendWorkerErr(w)
  /\ answer' = [answer EXCEPT ![w] = IF wpc'[w] \in {"post", "ok", "err"} THEN @ ELSE "none"]
  /\ UNCHANGED <<mode, step, header, stats, output, schemas, resultVars, historyVars>>

\* Mutant: the channel is closed when the producer is told to stop.
CloseResultChanAtStop ==
  /\ stopped /\ ~resultChanClosed
  /\ resultChanClosed' = TRUE
  /\ UNCHANGED <<vars, mode, callVars, stats, output, schemas, resultChan, received, historyVars>>

\* The goroutine that closed errChan.  Run may have returned by now.
CloseResultChan ==
  /\ errChanClosed /\ ~resultChanClosed
  /\ resultChanClosed' = TRUE
  /\ UNCHANGED <<vars, mode, callVars, stats, output, schemas, resultChan, received, historyVars>>

ReceiveResult ==
  /\ mode.receiving /\ resultChan # <<>>
  /\ LET r == Head(resultChan) IN received' = [received EXCEPT ![r[1]] = Append(@, r[2])]
  /\ resultChan' = Tail(resultChan)
  /\ UNCHANGED <<vars, mode, callVars, stats, output, schemas, resultChanClosed, historyVars>>

SolveWorker(w) == InFunction(w) \/ OutsideFunction(w)

\* The steps of the goroutines of Solve and of a caller that receives.
Running ==
  \/ \E w \in Worker : SolveWorker(w)
  \/ ((Producer \/ Main) /\ UNCHANGED reportVars)
  \/ CloseResultChan \/ ReceiveResult

SolveNext == Running \/ ((CancelContext \/ Done) /\ UNCHANGED reportVars)

(***************************************************************************)
(* As long as some goroutine can run, one of them does.  This is less than  *)
(* Syncer assumes, and enough, because no goroutine can go round for ever.  *)
(* Nothing makes the caller cancel.                                         *)
(***************************************************************************)
SolveFairness == WF_solveVars(Running)

SolveSpec == SolveInit /\ [][SolveNext]_solveVars
FairSolveSpec == SolveSpec /\ SolveFairness

-----------------------------------------------------------------------------
(* Properties.                                                             *)

\* The types of the variables of the function and of what it shares.
ReportTypeOK ==
  /\ mode \in Modes
  /\ step \in [Worker -> Step] /\ header \in [Worker -> Seq(Event)]
  /\ answer \in [Worker -> Answer]
  /\ stats \in [Op -> Nat] /\ output \in [Op -> Seq(Event)]
  /\ schemas \subseteq Schema
  /\ resultChan \in Seq(Event \X BOOLEAN) /\ Len(resultChan) <= ResultBuffer
  /\ resultChanClosed \in BOOLEAN /\ received \in [Event -> Seq(BOOLEAN)]
  /\ accepted \subseteq Event /\ overlapped \subseteq Event /\ fetched \in [Schema -> Nat]

\* The counters that Solve returns are the numbers of the operations that were
\* carried out (or would be, in a dry run), each counted once: whatever was
\* retried, failed before or after its request, or was dropped.
StatsExact ==
  mainPc = "solved" =>
    \A op \in Op : stats[op] = Cardinality({e \in accepted : OpOf[e] = op})

\* A caller that receives until the channel is closed, and does not cancel,
\* has one result for every event that was carried out, free of error, and no
\* such result for any other event.
ResultsMatch ==
  mode.enableEntityActions /\ mode.receiving /\ ~ctxDone /\ resultChanClosed /\ resultChan = <<>> =>
    \A e \in Event : IF e \in accepted THEN received[e] = <<TRUE>>
                                       ELSE received[e] \in {<<>>, <<FALSE>>}

\* Every event that was applied is in the list of its operation, unless its
\* append overlapped with that of another worker, which may lose it; and a
\* list holds no event that was not processed.
OutputComplete ==
  listing =>
    \A e \in Event : \A op \in Op :
      LET listed == \E i \in 1..Len(output[op]) : output[op][i] = e
      IN /\ status[e] = "applied" /\ OpOf[e] = op /\ e \notin overlapped => listed
         /\ listed => OpOf[e] = op /\ status[e] \in {"executing"} \cup Settled

\* A schema is fetched at most once by every worker, however many events need
\* it and however often they are retried: once it is stored nobody fetches it,
\* and a worker stores what it has fetched before it goes on.
FetchesBounded == \A s \in Schema : fetched[s] <= Cardinality(Worker)

\* No worker is about to send a result when the channel is closed, which would
\* panic.
NoSendOnClosedResults == resultChanClosed => \A w \in Worker : ~At(w, "send")

\* What the comment on defaultBackOff says of every request: a worker gives an
\* event up because of a 500 only after three retries.
ServerErrorsRetried == \A w \in Worker : wpc[w] = "err" /\ answer[w] = "500" => attempts[w] > 3

\* If results are not sent, or somebody receives them, or as soon as the context
\* is cancelled, Solve goes on to its end and the results come to theirs.
SolveReturnsInTheEnd ==
  (~mode.enableEntityActions \/ mode.receiving \/ ctxDone)
    ~> (mainPc = "solved" /\ resultChanClosed /\ (mode.receiving => resultChan = <<>>))
=============================================================================
