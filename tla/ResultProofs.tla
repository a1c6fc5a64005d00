---------------------------- MODULE ResultProofs ----------------------------
(* What a caller of Solve is told: the lists of the JSON output and the     *)
(* channel of results, for any workers, events and capacities and any way   *)
(* to call Solve.                                                           *)
EXTENDS ReportProofs

USE DEF prodVars, chanVars, workVars, mainVars, callVars, resultVars, historyVars

-----------------------------------------------------------------------------
(* The lists.                                                               *)

Elements(s) == {s[i] : i \in 1..Len(s)}

\* What append adds to the elements of a list.
LEMMA AppendElements ==
  ASSUME NEW S, NEW s \in Seq(S), NEW x \in S
  PROVE  Elements(Append(s, x)) = Elements(s) \cup {x}
<1>1. /\ Len(Append(s, x)) = Len(s) + 1 /\ Append(s, x)[Len(s) + 1] = x
      /\ \A i \in 1..Len(s) : Append(s, x)[i] = s[i]
      /\ Len(s) \in Nat
  BY AppendProperties, LenProperties
<1>2. \A y : y \in Elements(Append(s, x)) <=> y \in Elements(s) \/ y = x
  BY <1>1 DEF Elements
<1> QED
  BY <1>2

\* The events that have to be in their lists.
Listable(e) ==
  \/ status[e] = "applied"
  \/ \E w \in Worker : wev[w] = e /\ (At(w, "request") \/ wpc[w] \in {"post", "ok"})

Kept(s) == Elements(s) \ overlapped

\* The lists and what workers have read of them hold events that have begun.
ContentInv ==
  /\ \A op \in Op : \A e \in Elements(output[op]) : OpOf[e] = op /\ status[e] \in Begun
  /\ \A w \in Worker : At(w, "write") =>
       \A e \in Elements(header[w]) : OpOf[e] = opOf(w) /\ status[e] \in Begun

\* Who is about to write has read all that is not lost to an overlap.
HeaderInv ==
  /\ \A w \in Worker : At(w, "write") => Kept(header[w]) = Kept(output[opOf(w)])
  /\ \A v, w \in Worker :
       v # w /\ At(v, "write") /\ At(w, "write") /\ opOf(v) = opOf(w) => wev[w] \in overlapped

ListedInv == \A e \in Event : Listable(e) => e \in Elements(output[OpOf[e]]) \/ e \in overlapped

ListInv == listing => /\ ContentInv /\ HeaderInv /\ ListedInv
                      /\ \A w \in Worker : ~At(w, "send")

\* The lists are empty at the start.
LEMMA InitListInv == SolveInit => ListInv
<1> SUFFICES ASSUME SolveInit PROVE ListInv
  OBVIOUS
<1>1. \A op \in Op : Elements(output[op]) = {}
  BY DEF SolveInit, Elements
<1>2. \A w \in Worker : wpc[w] = "recv" /\ wev[w] = NoEvent
  BY DEF SolveInit, Init
<1>3. \A e \in Event : ~Listable(e)
  BY <1>2 DEF Listable, At, SolveInit, Init
<1> QED
  BY <1>1, <1>2, <1>3 DEF ListInv, ContentInv, HeaderInv, ListedInv, At

\* An event is applied when a worker whose call and post-processing succeeded
\* says so.
LEMMA AppliedFromOk ==
  ASSUME IInv, [Next]_vars, NEW e \in Event, status'[e] = "applied"
  PROVE  status[e] = "applied" \/ \E w \in Worker : wev[w] = e /\ wpc[w] = "ok"
<1>1. status \in [Event -> Status] /\ wev \in [Worker -> Event \cup {NoEvent}]
  BY DEF IInv, TypeOK
<1>2. CASE UNCHANGED status
  BY <1>2
<1>3. ASSUME NEW w \in Worker, EventCompleted(w) PROVE status[e] = "applied" \/ (wev[w] = e /\ wpc[w] = "ok")
  BY <1>1, <1>3 DEF EventCompleted
<1>4. ASSUME NEW w \in Worker, Receive(w) \/ StopSeen(w) \/ HandleEvent(w) PROVE status[e] = "applied"
  BY <1>1, <1>4 DEF Receive, StopSeen, HandleEvent, StartHandling
<1>5. ASSUME NEW f \in Event, EmitEvent(f) PROVE status[e] = "applied"
  BY <1>1, <1>5 DEF EmitEvent
<1>6. CASE EnqueueEvent \/ EnqueueRefused \/ CollectDropped
  BY <1>1, <1>6 DEF EnqueueEvent, EnqueueRefused, CollectDropped
<1>7. CASE UNCHANGED vars
  BY <1>7 DEF vars
<1> QED
  BY <1>2, <1>3, <1>4, <1>5, <1>6, <1>7, StatusSteps

\* Steps that read or write no list.
LEMMA QuietLists ==
  ASSUME ReportTypeOK, ListInv, UNCHANGED <<mode, output, header, overlapped>>, BegunStays,
         \A w \in Worker : At(w, "write")' => At(w, "write") /\ wev'[w] = wev[w],
         \A w \in Worker : listing => ~At(w, "send")',
         \A e \in Event : listing /\ Listable(e)' => Listable(e)
  PROVE  ListInv'
<1> SUFFICES ASSUME listing PROVE (ContentInv /\ HeaderInv /\ ListedInv)'
  BY DEF ListInv, listing
<1>1. /\ \A op \in Op : Elements(output[op]) \subseteq Event
      /\ \A w \in Worker : Elements(header[w]) \subseteq Event
  BY DEF ReportTypeOK, Elements
<1>2. \A w \in Worker : At(w, "write")' => At(w, "write") /\ wev'[w] = wev[w] /\ opOf(w)' = opOf(w)
  BY DEF opOf
<1>3. ContentInv'
  BY <1>1, <1>2 DEF ListInv, ContentInv, BegunStays
<1>4. HeaderInv'
  BY <1>2 DEF ListInv, HeaderInv, Kept
<1>5. ListedInv'
  BY DEF ListInv, ListedInv
<1> QED
  BY <1>3, <1>4, <1>5

\* Reading a list marks all who are about to write it.
LEMMA ReadLists ==
  ASSUME IInv, ReportTypeOK, ListInv, NEW w \in Worker, InFunction(w), ReadHeader(w)
  PROVE  ListInv'
<1>1. /\ wpc' = wpc /\ wev' = wev /\ status' = status /\ output' = output /\ mode' = mode
      /\ wpc[w] = "call" /\ opOf(w) \in Op /\ listing
      /\ header' = [header EXCEPT ![w] = output[opOf(w)]]
      /\ step' = [step EXCEPT ![w] = "write"]
      /\ step \in [Worker -> Step] /\ header \in [Worker -> Seq(Event)]
  BY TypesOfHand DEF ReadHeader, At, Move, vars, ReportTypeOK
<1>2. overlapped \subseteq overlapped'
  BY DEF ReadHeader
<1>3. \A v \in Worker : v # w => /\ header'[v] = header[v] /\ step'[v] = step[v]
                                 /\ At(v, "write")' = At(v, "write")
  BY <1>1 DEF At
<1>4. header'[w] = output[opOf(w)] /\ step'[w] = "write"
  BY <1>1
<1>5. \A v \in Worker : opOf(v)' = opOf(v)
  BY <1>1 DEF opOf
<1>6. ContentInv'
  BY <1>1, <1>3, <1>4, <1>5 DEF ListInv, ContentInv
<1>7. ASSUME NEW v \in Worker, At(v, "write")' PROVE Kept(header[v])' = Kept(output[opOf(v)])'
  <2>1. CASE v = w
    BY <1>1, <1>4, <1>5, <2>1 DEF Kept
  <2>2. CASE v # w
    <3>1. Kept(header[v]) = Kept(output[opOf(v)])
      BY <1>1, <1>3, <1>7, <2>2 DEF ListInv, HeaderInv
    <3>2. Elements(header[v]) \ overlapped' = Elements(output[opOf(v)]) \ overlapped'
      BY <1>2, <3>1 DEF Kept
    <3> QED
      BY <1>1, <1>3, <1>5, <2>2, <3>2 DEF Kept
  <2> QED
    BY <2>1, <2>2
<1>8. ASSUME NEW u \in Worker, NEW v \in Worker, u # v, At(u, "write")', At(v, "write")',
             opOf(u)' = opOf(v)'
      PROVE  wev'[v] \in overlapped'
  <2>1. CASE u # w /\ v # w
    <3>1. At(u, "write") /\ At(v, "write") /\ opOf(u) = opOf(v)
      BY <1>3, <1>5, <1>8, <2>1
    <3> QED
      BY <1>1, <1>2, <1>8, <3>1 DEF ListInv, HeaderInv
  <2>2. CASE u = w \/ v = w
    <3> DEFINE others == {x \in Worker \ {w} : At(x, "write") /\ opOf(x) = opOf(w)}
    <3>1. u \in others \/ v \in others
      BY <1>3, <1>5, <1>8, <2>2
    <3>2. overlapped' = overlapped \cup {wev[x] : x \in others \cup {w}}
      BY <3>1 DEF ReadHeader
    <3>3. v \in others \cup {w}
      BY <1>3, <1>5, <1>8, <2>2
    <3> QED
      BY <1>1, <3>2, <3>3
  <2> QED
    BY <2>1, <2>2
<1>9. \A e \in Event : Listable(e)' => Listable(e)
  BY <1>1, <1>3, <1>4 DEF Listable, At
<1>10. ListedInv'
  BY <1>1, <1>2, <1>9 DEF ListInv, ListedInv
<1>11. \A v \in Worker : ~At(v, "send")'
  BY <1>1, <1>3, <1>4 DEF ListInv, At
<1> QED
  BY <1>6, <1>7, <1>8, <1>10, <1>11 DEF ListInv, HeaderInv

\* A list that is written has what it had and what was appended, except what
\* overlapped.
LEMMA WriteLists ==
  ASSUME IInv, ReportTypeOK, ListInv, listing, NEW w \in Worker, InFunction(w), WriteHeader(w)
  PROVE  ListInv'
<1> DEFINE op == opOf(w)
           e == wev[w]
<1>1. /\ wpc' = wpc /\ wev' = wev /\ status' = status /\ mode' = mode /\ overlapped' = overlapped
      /\ wpc[w] = "call" /\ step[w] = "write" /\ op \in Op /\ e \in Event /\ OpOf[e] = op
      /\ status[e] = "executing"
      /\ step \in [Worker -> Step] /\ header \in [Worker -> Seq(Event)] /\ output \in [Op -> Seq(Event)]
      /\ At(w, "write")
  BY InHand, TypesOfHand DEF WriteHeader, At, Move, vars, ReportTypeOK, opOf
<1>2. /\ output' = [output EXCEPT ![op] = Append(header[w], e)]
      /\ header' = [header EXCEPT ![w] = <<>>] /\ step' = [step EXCEPT ![w] = "request"]
  BY DEF WriteHeader, Move
<1>3. \A v \in Worker : v # w => /\ header'[v] = header[v] /\ step'[v] = step[v]
                                 /\ At(v, "write")' = At(v, "write")
  BY <1>1, <1>2 DEF At
<1>4. ~At(w, "write")' /\ step'[w] = "request"
  BY <1>1, <1>2 DEF At
<1>5. \A v \in Worker : opOf(v)' = opOf(v)
  BY <1>1 DEF opOf
<1> HIDE DEF op, e
<1>6. output'[op] = Append(header[w], e) /\ \A o \in Op \ {op} : output'[o] = output[o]
  BY <1>1, <1>2
<1>7. Elements(output'[op]) = Elements(header[w]) \cup {e}
  <2>1. header[w] \in Seq(Event)
    BY <1>1
  <2> QED
    BY <1>1, <1>6, <2>1, AppendElements
<1>8. Kept(header[w]) = Kept(output[op])
  BY <1>1 DEF ListInv, HeaderInv, op
<1>9. ContentInv'
  <2>1. \A f \in Elements(header[w]) : OpOf[f] = op /\ status[f] \in Begun
    BY <1>1 DEF ListInv, ContentInv, op
  <2>2. ASSUME NEW o \in Op, NEW f \in Elements(output'[o]) PROVE OpOf[f] = o /\ status[f] \in Begun
    <3>1. CASE o = op
      BY <1>1, <1>7, <2>1, <2>2, <3>1 DEF Begun
    <3>2. CASE o # op
      BY <1>6, <2>2, <3>2 DEF ListInv, ContentInv
    <3> QED
      BY <3>1, <3>2
  <2>3. ASSUME NEW v \in Worker, At(v, "write")', NEW f \in Elements(header'[v])
        PROVE  OpOf[f] = opOf(v) /\ status[f] \in Begun
    BY <1>3, <1>4, <2>3 DEF ListInv, ContentInv
  <2> QED
    BY <1>1, <1>5, <2>2, <2>3 DEF ContentInv
<1>10. ASSUME NEW v \in Worker, At(v, "write")' PROVE Kept(header[v])' = Kept(output[opOf(v)])'
  <2>1. v # w /\ At(v, "write") /\ header'[v] = header[v]
    BY <1>3, <1>4, <1>10
  <2>2. Kept(header[v]) = Kept(output[opOf(v)])
    BY <2>1 DEF ListInv, HeaderInv
  <2>3. CASE opOf(v) = op
    <3>1. e \in overlapped
      BY <1>1, <2>1, <2>3 DEF ListInv, HeaderInv, op, e
    <3>2. Elements(output'[op]) \ overlapped = Elements(header[w]) \ overlapped
      BY <1>7, <3>1
    <3> QED
      BY <1>1, <1>5, <1>8, <2>1, <2>2, <2>3, <3>2 DEF Kept
  <2>4. CASE opOf(v) # op
    <3>1. opOf(v) \in Op
      BY <2>1, TypesOfHand DEF At
    <3> QED
      BY <1>1, <1>5, <1>6, <2>1, <2>2, <2>4, <3>1 DEF Kept
  <2> QED
    BY <2>3, <2>4
<1>11. \A u, v \in Worker : u # v /\ At(u, "write")' /\ At(v, "write")' /\ opOf(u)' = opOf(v)' =>
          wev'[v] \in overlapped'
  <2>1. \A v \in Worker : At(v, "write")' => At(v, "write") /\ v # w
    BY <1>3, <1>4
  <2>2. \A u, v \in Worker : u # v /\ At(u, "write") /\ At(v, "write") /\ opOf(u) = opOf(v) =>
          wev[v] \in overlapped
    BY <1>1 DEF ListInv, HeaderInv
  <2>3. wev' = wev /\ overlapped' = overlapped /\ \A v \in Worker : opOf(v)' = opOf(v)
    BY <1>1, <1>5
  <2> QED
    BY <2>1, <2>2, <2>3
<1>12. ASSUME NEW f \in Event, Listable(f)' PROVE f \in Elements(output'[OpOf[f]]) \/ f \in overlapped
  <2>1. Listable(f) \/ f = e
    BY <1>1, <1>3, <1>12 DEF Listable, At, e
  <2>2. CASE f = e
    BY <1>1, <1>7, <2>2
  <2>3. CASE Listable(f) /\ f \notin overlapped
    <3>1. f \in Elements(output[OpOf[f]]) /\ OpOf[f] \in Op
      BY <2>3, ReportAssumption DEF ListInv, ListedInv
    <3>2. CASE OpOf[f] = op
      BY <1>7, <1>8, <2>3, <3>1, <3>2 DEF Kept
    <3>3. CASE OpOf[f] # op
      BY <1>6, <3>1, <3>3
    <3> QED
      BY <3>2, <3>3
  <2> QED
    BY <2>1, <2>2, <2>3
<1>13. \A v \in Worker : ~At(v, "send")'
  BY <1>1, <1>3, <1>4 DEF ListInv, At
<1>14. ListedInv'
  BY <1>1, <1>12 DEF ListedInv
<1> QED
  BY <1>9, <1>10, <1>11, <1>13, <1>14 DEF ListInv, HeaderInv

\* The other steps of the function come to the request only from the list, and
\* end well only after it.
LEMMA InFunctionLists ==
  ASSUME IInv, ReportTypeOK, PlaceInv, ListInv, NEW w \in Worker, InFunction(w)
  PROVE  ListInv'
<1>1. CASE ReadHeader(w)
  BY <1>1, ReadLists
<1>2. CASE ~ReadHeader(w)
  <2>1. mode' = mode
    BY DEF InFunction, WorkspaceExists, WorkspaceFails, Lookup, Fetch, FetchFails, Store,
       FillDefaultsFails, DescribeFails, ReadHeader, WriteHeader, Request, SendResult, ReturnsBare
  <2>2. CASE ~listing
    BY <2>1, <2>2 DEF ListInv, listing
  <2>3. CASE listing /\ WriteHeader(w)
    BY <2>3, WriteLists
  <2>4. CASE listing /\ ~WriteHeader(w)
    <3>1. UNCHANGED <<output, header, overlapped>>
      BY <1>2, <2>4 DEF InFunction, WorkspaceExists, WorkspaceFails, Lookup, Fetch, FetchFails, Store,
         FillDefaultsFails, DescribeFails, Request, SendResult, ReturnsBare
    <3>2. InsideMoves(w) /\ Others(w) /\ step \in [Worker -> Step]
      BY InsideFrame DEF ReportTypeOK
    <3>3. \A v \in Worker \ {w} : step'[v] = step[v]
      BY OthersStay
    <3>4. step'[w] \notin {"write", "request", "send"}
      BY <1>2, <2>4, <3>2 DEF ListInv, listing, InFunction, WorkspaceExists, WorkspaceFails, Lookup,
         Fetch, FetchFails, Store, FillDefaultsFails, DescribeFails, Request, SendResult, ReturnsBare, Move
    <3>5. wpc'[w] = "post" => At(w, "request")
      <4>1. CASE Request(w) \/ SendResult(w)
        BY <2>4, <4>1 DEF Request, SendResult, ListInv
      <4>2. CASE WorkspaceFails(w) \/ FetchFails(w) \/ FillDefaultsFails(w)
        <5>1. wpc'[w] \in {"backoff", "err"}
          BY <3>2, <4>2, BareFrame DEF WorkspaceFails, FetchFails, FillDefaultsFails, InsideMoves
        <5> QED
          BY <5>1
      <4>3. CASE WorkspaceExists(w) \/ Lookup(w) \/ Fetch(w) \/ Store(w)
        BY <3>2, <4>3 DEF WorkspaceExists, Lookup, Fetch, Store, vars, InsideMoves
      <4>4. CASE DescribeFails(w)
        BY <3>2, <4>4 DEF DescribeFails, CallFails, Goto, InsideMoves, vars, IInv, TypeOK
      <4> QED
        BY <1>2, <2>4, <4>1, <4>2, <4>3, <4>4 DEF InFunction
    <3>6. BegunStays
      BY <3>2 DEF InsideMoves, BegunStays
    <3>7. \A v \in Worker : At(v, "write")' => At(v, "write") /\ wev'[v] = wev[v]
      BY <3>2, <3>3, <3>4 DEF At, InsideMoves, Others
    <3>8. \A v \in Worker : ~At(v, "send")'
      BY <2>4, <3>2, <3>3, <3>4 DEF At, Others, ListInv
    <3>9. ASSUME NEW e \in Event, Listable(e)' PROVE Listable(e)
      <4>1. CASE status'[e] = "applied"
        BY <3>2, <4>1 DEF InsideMoves, Listable
      <4>2. ASSUME NEW v \in Worker, wev'[v] = e, At(v, "request")' \/ wpc'[v] \in {"post", "ok"}
            PROVE  Listable(e)
        <5>1. CASE v = w
          <6>1. wpc'[w] = "post"
            BY <3>2, <3>4, <4>2, <5>1 DEF At, InsideMoves
          <6> QED
            BY <3>2, <3>5, <4>2, <5>1, <6>1 DEF InsideMoves, Listable
        <5>2. CASE v # w
          BY <3>2, <3>3, <4>2, <5>2 DEF InsideMoves, Others, At, Listable
        <5> QED
          BY <5>1, <5>2
      <4> QED
        BY <3>9, <4>1, <4>2 DEF Listable
    <3> QED
      BY <2>1, <3>1, <3>6, <3>7, <3>8, <3>9, QuietLists
  <2> QED
    BY <2>2, <2>3, <2>4
<1> QED
  BY <1>1, <1>2

\* What a worker does outside the function of Solve leaves the lists alone.
LEMMA OutsideLists ==
  ASSUME IInv, ReportTypeOK, PlaceInv, ListInv, NEW w \in Worker, OutsideFunction(w)
  PROVE  ListInv'
<1>1. /\ OutsideMoves(w) /\ Others(w) /\ BegunStays /\ step' = step
      /\ UNCHANGED <<mode, output, header, overlapped>>
  BY OutsideFrame DEF OutsideFunction
<1>2. step[w] = "workspace"
  BY <1>1 DEF OutsideMoves, PlaceInv
<1>3. \A s : ~At(w, s)' \/ s = "workspace"
  BY <1>1, <1>2 DEF At
<1>4. \A v \in Worker : At(v, "write")' => At(v, "write") /\ wev'[v] = wev[v]
  BY <1>1, <1>3 DEF At, Others
<1>5. \A v \in Worker : listing => ~At(v, "send")'
  BY <1>1, <1>3 DEF At, Others, ListInv
<1>6. ASSUME NEW e \in Event, Listable(e)' PROVE Listable(e)
  <2>1. CASE status'[e] = "applied"
    <3>1. [Next]_vars
      BY OutsideMapped DEF Next
    <3> QED
      BY <2>1, <3>1, AppliedFromOk DEF Listable
  <2>2. ASSUME NEW v \in Worker, wev'[v] = e, At(v, "request")' \/ wpc'[v] \in {"post", "ok"}
        PROVE  Listable(e)
    <3>1. CASE v = w
      <4>1. wpc'[w] \in {"post", "ok"}
        BY <1>3, <2>2, <3>1
      <4>2. wpc[w] = "post" /\ wev[w] = e
        BY <1>1, <2>2, <3>1, <4>1 DEF OutsideMoves
      <4> QED
        BY <4>2 DEF Listable
    <3>2. CASE v # w
      BY <1>1, <2>2, <3>2 DEF Others, At, Listable
    <3> QED
      BY <3>1, <3>2
  <2> QED
    BY <1>6, <2>1, <2>2 DEF Listable
<1> QED
  BY <1>1, <1>4, <1>5, <1>6, QuietLists

\* The steps of the others.
LEMMA EngineLists ==
  ASSUME IInv, ReportTypeOK, ListInv, [Next]_vars, BegunStays,
         UNCHANGED <<wpc, wev, mode, step, output, header, overlapped>>
  PROVE  ListInv'
<1>1. ASSUME NEW e \in Event, Listable(e)' PROVE Listable(e)
  BY <1>1, AppliedFromOk DEF Listable, At
<1>2. /\ \A v \in Worker : At(v, "write")' => At(v, "write") /\ wev'[v] = wev[v]
      /\ \A v \in Worker : listing => ~At(v, "send")'
  BY DEF At, ListInv
<1> QED
  BY <1>1, <1>2, QuietLists

\* The steps of the producer, of Run, of the caller, of the goroutine that
\* closes the channel, and stuttering.
Elsewhere ==
  \/ (Producer \/ Main \/ CancelContext \/ Done) /\ UNCHANGED reportVars
  \/ CloseResultChan \/ ReceiveResult \/ UNCHANGED solveVars

\* The producer, Run and the caller touch neither a worker nor a list.
LEMMA ElsewhereFrame ==
  ASSUME IInv, Elsewhere
  PROVE  /\ BegunStays
         /\ UNCHANGED <<wpc, wev, mode, callVars, stats, output, schemas, historyVars>>
<1>1. CASE (Producer \/ Main \/ CancelContext \/ Done) /\ UNCHANGED reportVars
  BY <1>1, EngineFrame DEF reportVars
<1>2. CASE CloseResultChan \/ ReceiveResult \/ UNCHANGED solveVars
  BY <1>2 DEF CloseResultChan, ReceiveResult, solveVars, reportVars, vars, BegunStays
<1> QED
  BY <1>1, <1>2 DEF Elsewhere

\* The steps of a Solve: inside the function, outside it, and of no worker.
LEMMA SolveCases ==
  ASSUME [SolveNext]_solveVars
  PROVE  (\E w \in Worker : InFunction(w) \/ OutsideFunction(w)) \/ Elsewhere
BY DEF SolveNext, Running, SolveWorker, Elsewhere

\* The lists of the JSON output are complete up to overlaps.
THEOREM ListInvariance == SolveSpec => []ListInv
<1>1. ASSUME IInv, ReportInv, ListInv, [SolveNext]_solveVars PROVE ListInv'
  <2>1. ASSUME NEW w \in Worker, InFunction(w) \/ OutsideFunction(w) PROVE ListInv'
    BY <1>1, <2>1, InFunctionLists, OutsideLists DEF ReportInv
  <2>2. CASE Elsewhere
    <3>1. [Next]_vars
      BY <1>1, SolveStepMapped DEF solveVars
    <3> QED
      BY <1>1, <2>2, <3>1, ElsewhereFrame, EngineLists DEF ReportInv
  <2> QED
    BY <1>1, <2>1, <2>2, SolveCases
<1> QED
  BY <1>1, InitListInv, SolveKeepsEngine, ReportInvariance, PTL DEF SolveSpec

\* Every applied event is in the list of its operation, and in no other, unless
\* its append overlapped; and no list holds an event that was not begun.
THEOREM ListsAreComplete == SolveSpec => []OutputComplete
<1>1. ASSUME ReportTypeOK, ListInv, listing, NEW e \in Event, NEW op \in Op
      PROVE  LET listed == \E i \in 1..Len(output[op]) : output[op][i] = e
             IN /\ status[e] = "applied" /\ OpOf[e] = op /\ e \notin overlapped => listed
                /\ listed => OpOf[e] = op /\ status[e] \in {"executing"} \cup Settled
  <2>1. (\E i \in 1..Len(output[op]) : output[op][i] = e) <=> e \in Elements(output[op])
    BY DEF Elements
  <2>2. status[e] = "applied" /\ OpOf[e] = op /\ e \notin overlapped => e \in Elements(output[op])
    BY <1>1 DEF ListInv, ListedInv, Listable
  <2>3. e \in Elements(output[op]) => OpOf[e] = op /\ status[e] \in Begun
    BY <1>1 DEF ListInv, ContentInv
  <2> QED
    BY <2>1, <2>2, <2>3 DEF Begun, Settled
<1>2. ReportInv /\ ListInv => OutputComplete
  BY <1>1 DEF OutputComplete, ReportInv
<1> QED
  BY <1>2, ListInvariance, ReportInvariance, PTL

-----------------------------------------------------------------------------
(* The results.                                                             *)

\* The call of an event is over for good.
Over(e) == status[e] \in Begun /\ \A w \in Worker : wev[w] = e => wpc[w] \notin {"call", "backoff"}

\* The result of an event, as the channel carries it and as it is received.
Result(e) == IF e \in accepted THEN <<e, TRUE>> ELSE <<e, FALSE>>
Told(e) == IF e \in accepted THEN <<TRUE>> ELSE <<FALSE>>

InChan(e) == \E i \in 1..Len(resultChan) : resultChan[i] = Result(e)

\* The channel and the caller together have at most one result for each event.
ChanInv ==
  /\ \A i \in 1..Len(resultChan) : \E e \in Event :
       resultChan[i] = Result(e) /\ Over(e) /\ received[e] = <<>>
  /\ \A i, j \in 1..Len(resultChan) : resultChan[i] = resultChan[j] => i = j

ReceivedInv == \A e \in Event : received[e] # <<>> => received[e] = Told(e) /\ Over(e)

\* What was answered well has its result on the way.
SentInv ==
  \A e \in accepted :
    (\E w \in Worker : wev[w] = e /\ Pending(w)) \/ received[e] # <<>> \/ InChan(e)

SendInv == mode.enableEntityActions /\ ~ctxDone => ChanInv /\ ReceivedInv /\ SentInv

\* Nothing is sent or received at the start.
LEMMA InitSendInv == SolveInit => SendInv
<1> SUFFICES ASSUME SolveInit PROVE ChanInv /\ ReceivedInv /\ SentInv
  BY DEF SendInv
<1>1. Len(resultChan) = 0 /\ accepted = {} /\ \A e \in Event : received[e] = <<>>
  BY DEF SolveInit
<1> QED
  BY <1>1 DEF ChanInv, ReceivedInv, SentInv

\* A cancelled context stays cancelled.
LEMMA CancelledStays == ASSUME [Next]_vars, ctxDone PROVE ctxDone'
<1>1. CASE UNCHANGED vars
  BY <1>1 DEF vars
<1>2. CASE Producer
  BY <1>2 DEF Producer, EmitEvent, EnqueueEvent, EnqueueRefused, DifferFails, StageEmitted,
     WaitReturns, NextStage, SendProducerErr, CloseEventChan
<1>3. ASSUME NEW w \in Worker, WorkerStep(w) PROVE ctxDone'
  BY <1>3 DEF WorkerStep, Receive, LoopEnds, StopSeen, HandleEvent, StartHandling,
     CallSucceeds, CallFails, ServerError, Retry, PostProcessed, PostProcessFails, Goto,
     EventCompleted, SendWorkerErr, WorkerErrSent
<1>4. CASE Main \/ CancelContext \/ Done
  BY <1>4 DEF Main, CloseErrChan, SelectCtxDone, SelectErrChanClosed, CloseStopChan,
     RunReturns, CollectDropped, SolveReturns, CancelContext, Done, vars
<1> QED
  BY <1>1, <1>2, <1>3, <1>4 DEF Next

\* Steps that neither send nor receive a result.
LEMMA QuietResults ==
  ASSUME ReportTypeOK, ReportTypeOK', SendInv, UNCHANGED <<resultChan, received>>,
         mode.enableEntityActions, ~ctxDone,
         \A e \in Event : Over(e) => Over(e)' /\ (e \in accepted' <=> e \in accepted),
         \A e \in accepted' : \/ e \in accepted /\ ~\E w \in Worker : wev[w] = e /\ Pending(w)
                              \/ \E w \in Worker : wev'[w] = e /\ Pending(w)'
  PROVE  (ChanInv /\ ReceivedInv /\ SentInv)'
<1>1. ChanInv /\ ReceivedInv /\ SentInv
  BY DEF SendInv
<1>2. \A e \in Event : Over(e) => Result(e)' = Result(e) /\ Told(e)' = Told(e)
  BY DEF Result, Told
<1>3. ASSUME NEW i \in 1..Len(resultChan)
      PROVE  \E e \in Event : resultChan[i] = Result(e)' /\ Over(e)' /\ received[e] = <<>>
  <2>1. PICK e \in Event : resultChan[i] = Result(e) /\ Over(e) /\ received[e] = <<>>
    BY <1>1 DEF ChanInv
  <2> QED
    BY <1>2, <2>1
<1>4. ChanInv'
  BY <1>1, <1>3 DEF ChanInv
<1>5. ReceivedInv'
  BY <1>1, <1>2 DEF ReceivedInv
<1>6. ASSUME NEW e \in accepted, ~\E w \in Worker : wev[w] = e /\ Pending(w)
      PROVE  received[e] # <<>> \/ InChan(e)'
  <2>1. e \in Event /\ (received[e] # <<>> \/ InChan(e))
    BY <1>1, <1>6 DEF SentInv, ReportTypeOK
  <2>2. ASSUME NEW i \in 1..Len(resultChan), resultChan[i] = Result(e) PROVE InChan(e)'
    <3>1. PICK f \in Event : resultChan[i] = Result(f) /\ Over(f)
      BY <1>1 DEF ChanInv
    <3>2. f = e
      BY <2>2, <3>1 DEF Result
    <3> QED
      BY <1>2, <2>2, <3>1, <3>2 DEF InChan
  <2> QED
    BY <2>1, <2>2 DEF InChan
<1>7. SentInv'
  BY <1>6 DEF SentInv
<1> QED
  BY <1>4, <1>5, <1>7

\* Sending a result keeps the account of what is in the channel and what came out of it.
LEMMA SendResults ==
  ASSUME IInv, ReportTypeOK, ReportTypeOK', AcceptedInv, SendInv, mode.enableEntityActions, ~ctxDone,
         NEW w \in Worker, InFunction(w), SendResult(w)
  PROVE  (ChanInv /\ ReceivedInv /\ SentInv)'
<1>1. /\ InsideMoves(w) /\ Others(w) /\ wpc[w] = "call" /\ wev[w] \in Event
      /\ status[wev[w]] = "executing" /\ \A v \in Worker \ {w} : wev[v] # wev[w]
  BY InsideFrame, InHand DEF InsideMoves, IInv, WorkerInv, TypeOK, EventAssumption
<1>2. PICK e \in Event : e = wev[w]
  BY <1>1
<1>3. /\ At(w, "send") /\ accepted' = accepted /\ received' = received
      /\ resultChan' = Append(resultChan, <<e, answer[w] = "ok">>)
      /\ step'[w] = "workspace" /\ Returns(w, answer[w])
  BY <1>2 DEF SendResult, Move, ReportTypeOK
<1>4. wpc'[w] \in {"post", "err"}
  BY <1>1, <1>3, ReturnFrame
<1>5. e \in accepted <=> answer[w] = "ok"
  BY <1>1, <1>2, <1>3 DEF AcceptedInv, Pending
<1>6. \A v \in Worker \ {w} : Pending(v)' = Pending(v)
  <2>1. \A v \in Worker \ {w} : step'[v] = step[v] /\ answer'[v] = answer[v]
    BY OthersStay
  <2> QED
    BY <1>1, <2>1 DEF Pending, At, Others
<1>7. <<e, answer[w] = "ok">> = Result(e)
  <2>1. CASE answer[w] = "ok"
    BY <1>5, <2>1 DEF Result
  <2>2. CASE answer[w] # "ok"
    BY <1>5, <2>2 DEF Result
  <2> QED
    BY <2>1, <2>2
<1>8. ChanInv /\ ReceivedInv /\ SentInv /\ ~Over(e)
  BY <1>1, <1>2 DEF SendInv, Over
<1>9. wev' = wev /\ status' = status
  BY <1>1 DEF InsideMoves
<1>10. \A f : Result(f)' = Result(f) /\ Told(f)' = Told(f)
  BY <1>3 DEF Result, Told
<1>11. \A f \in Event : Over(f) => Over(f)'
  BY <1>1, <1>4, <1>9 DEF Over, Others
<1>12. Over(e)'
  BY <1>1, <1>2, <1>4, <1>9 DEF Over, Begun
<1> DEFINE n == Len(resultChan) + 1
<1>13. /\ Len(resultChan) \in Nat /\ Len(resultChan') = n
       /\ \A i \in 1..Len(resultChan) : resultChan'[i] = resultChan[i]
       /\ resultChan'[n] = Result(e)
  <2>1. Result(e) \in Event \X BOOLEAN /\ resultChan \in Seq(Event \X BOOLEAN)
    BY DEF Result, ReportTypeOK
  <2> QED
    BY <1>3, <1>7, <2>1, AppendProperties, LenProperties
<1>14. received[e] = <<>>
  BY <1>8 DEF ReceivedInv
<1>15. ASSUME NEW i \in 1..Len(resultChan) PROVE resultChan[i] # Result(e)
  <2>1. PICK f \in Event : resultChan[i] = Result(f) /\ Over(f)
    BY <1>8 DEF ChanInv
  <2>2. f # e
    BY <1>8, <2>1
  <2> QED
    BY <2>1, <2>2 DEF Result
<1>16. ASSUME NEW i \in 1..n
       PROVE  \E f \in Event : resultChan'[i] = Result(f) /\ Over(f)' /\ received[f] = <<>>
  <2>1. CASE i = n
    BY <1>12, <1>13, <1>14, <2>1
  <2>2. CASE i \in 1..Len(resultChan)
    <3>1. PICK f \in Event : resultChan[i] = Result(f) /\ Over(f) /\ received[f] = <<>>
      BY <1>8, <2>2 DEF ChanInv
    <3> QED
      BY <1>11, <1>13, <2>2, <3>1
  <2> QED
    BY <1>13, <2>1, <2>2
<1>17. ASSUME NEW i \in 1..n, NEW j \in 1..n, resultChan'[i] = resultChan'[j]
       PROVE  i = j
  <2>1. \A k \in 1..n : k \in 1..Len(resultChan) \/ k = n
    BY <1>13
  <2> QED
    BY <1>8, <1>13, <1>15, <1>17, <2>1 DEF ChanInv
<1>18. n \in 1..n
  BY <1>13
<1>19. \A f : InChan(f) => InChan(f)'
  BY <1>10, <1>13 DEF InChan
<1>20. InChan(e)'
  <2>1. resultChan'[n] = Result(e)' /\ n \in 1..Len(resultChan')
    BY <1>10, <1>13, <1>18
  <2> QED
    BY <2>1 DEF InChan
<1> HIDE DEF n
<1>21. ChanInv'
  BY <1>3, <1>10, <1>13, <1>16, <1>17 DEF ChanInv
<1>22. ReceivedInv'
  BY <1>3, <1>8, <1>10, <1>11 DEF ReceivedInv
<1>23. ASSUME NEW f \in accepted, f # e
       PROVE  (\E v \in Worker : wev[v] = f /\ Pending(v)') \/ received[f] # <<>> \/ InChan(f)'
  <2>1. (\E v \in Worker : wev[v] = f /\ Pending(v)) \/ received[f] # <<>> \/ InChan(f)
    BY <1>8 DEF SentInv
  <2> QED
    BY <1>2, <1>6, <1>19, <1>23, <2>1
<1>24. SentInv'
  BY <1>3, <1>9, <1>20, <1>23 DEF SentInv
<1> QED
  BY <1>21, <1>22, <1>24

\* Before its result is sent, an event that is answered well waits for that.
LEMMA OtherCallResults ==
  ASSUME IInv, ReportTypeOK, ReportTypeOK', AcceptedInv, SendInv, mode.enableEntityActions, ~ctxDone,
         NEW w \in Worker, InFunction(w), ~SendResult(w)
  PROVE  (ChanInv /\ ReceivedInv /\ SentInv)'
<1>1. /\ InsideMoves(w) /\ Others(w) /\ wpc[w] = "call" /\ wev[w] \in Event
      /\ status[wev[w]] = "executing" /\ \A v \in Worker \ {w} : wev[v] # wev[w]
  BY InsideFrame, InHand DEF InsideMoves, IInv, WorkerInv, TypeOK, EventAssumption
<1>2. UNCHANGED <<resultChan, received>>
  BY DEF InFunction, WorkspaceExists, WorkspaceFails, Lookup, Fetch, FetchFails, Store,
     FillDefaultsFails, DescribeFails, ReadHeader, WriteHeader, Request, ReturnsBare
<1>3. ~Pending(w)
  BY DEF InFunction, WorkspaceExists, WorkspaceFails, Lookup, Fetch, FetchFails, Store,
     FillDefaultsFails, DescribeFails, ReadHeader, WriteHeader, Request, Pending, At
<1>4. wpc'[w] # "post"
  <2>1. CASE UNCHANGED vars
    BY <1>1, <2>1 DEF vars
  <2>2. CASE ReturnsBare(w)
    BY <1>1, <2>2, BareFrame
  <2>3. CASE CallFails(w)
    BY <1>1, <2>3 DEF CallFails, Goto, IInv, TypeOK
  <2>4. CASE Request(w)
    BY <1>1, <2>4 DEF Request, vars
  <2> QED
    BY <2>1, <2>2, <2>3, <2>4 DEF InFunction, WorkspaceExists, WorkspaceFails, Lookup, Fetch, FetchFails,
       Store, FillDefaultsFails, DescribeFails, ReadHeader, WriteHeader
<1>5. /\ accepted' \subseteq accepted \cup {wev[w]} /\ accepted \subseteq accepted'
      /\ wev[w] \in accepted' => Pending(w)'
  BY <1>1, <1>3, <1>4, CallCases DEF Counts, Waits, GivesUp, AcceptedInv, Pending, At
<1>6. \A v \in Worker \ {w} : Pending(v)' = Pending(v)
  <2>1. \A v \in Worker \ {w} : step'[v] = step[v] /\ answer'[v] = answer[v]
    BY OthersStay
  <2> QED
    BY <1>1, <2>1 DEF Pending, At, Others
<1>7. \A e \in Event : Over(e) => e # wev[w] /\ Over(e)'
  BY <1>1 DEF Over, Others, InsideMoves
<1>8. \A e \in Event : Over(e) => Over(e)' /\ (e \in accepted' <=> e \in accepted)
  BY <1>5, <1>7
<1>9. ASSUME NEW e \in accepted'
      PROVE  \/ e \in accepted /\ ~\E v \in Worker : wev[v] = e /\ Pending(v)
             \/ \E v \in Worker : wev'[v] = e /\ Pending(v)'
  <2>1. wev' = wev
    BY <1>1 DEF InsideMoves
  <2>2. CASE e = wev[w]
    BY <1>5, <2>1, <2>2
  <2>3. ASSUME NEW v \in Worker, wev[v] = e, Pending(v) PROVE Pending(v)'
    BY <1>3, <1>6, <2>3
  <2> QED
    BY <1>5, <2>1, <2>2, <2>3
<1> QED
  BY <1>2, <1>8, <1>9, QuietResults

LEMMA OutsideResults ==
  ASSUME IInv, ReportTypeOK, ReportTypeOK', PlaceInv, SendInv, mode.enableEntityActions, ~ctxDone,
         NEW w \in Worker, OutsideFunction(w)
  PROVE  (ChanInv /\ ReceivedInv /\ SentInv)'
<1>1. /\ OutsideMoves(w) /\ Others(w) /\ BegunStays /\ step' = step /\ accepted' = accepted
      /\ UNCHANGED <<resultChan, received>>
  BY OutsideFrame DEF OutsideFunction
<1>2. wpc[w] # "call" /\ step[w] = "workspace"
  BY <1>1 DEF OutsideMoves, PlaceInv
<1>3. ~Pending(w)
  BY <1>2 DEF Pending, At
<1>4. \A v \in Worker \ {w} : answer'[v] = answer[v]
  BY DEF OutsideFunction, ReportTypeOK
<1>5. \A v \in Worker \ {w} : wev'[v] = wev[v] /\ Pending(v)' = Pending(v)
  BY <1>1, <1>4 DEF Pending, At, Others
<1>6. wpc[w] = "check" => wev[w] \in Event /\ status[wev[w]] = "taken"
  BY Held DEF IInv
<1>7. ASSUME NEW e \in Event, Over(e) PROVE Over(e)'
  <2>1. status'[e] \in Begun
    BY <1>1, <1>7 DEF Over, BegunStays
  <2>2. wev'[w] = e => wpc'[w] \notin {"call", "backoff"}
    BY <1>1, <1>6, <1>7 DEF OutsideMoves, Over, Begun
  <2> QED
    BY <1>1, <1>7, <2>1, <2>2 DEF Over, Others
<1>8. ASSUME NEW e \in accepted'
      PROVE  \/ e \in accepted /\ ~\E v \in Worker : wev[v] = e /\ Pending(v)
             \/ \E v \in Worker : wev'[v] = e /\ Pending(v)'
  BY <1>1, <1>3, <1>5
<1> QED
  BY <1>1, <1>7, <1>8, QuietResults

LEMMA ElsewhereResults ==
  ASSUME IInv, ReportTypeOK, ReportTypeOK', SendInv, mode.enableEntityActions, ~ctxDone,
         Elsewhere, ~ReceiveResult
  PROVE  (ChanInv /\ ReceivedInv /\ SentInv)'
<1>1. BegunStays /\ UNCHANGED <<wpc, wev, step, answer, accepted>>
  BY ElsewhereFrame
<1>2. UNCHANGED <<resultChan, received>>
  BY DEF Elsewhere, CloseResultChan, solveVars, reportVars
<1>3. \A e \in Event : Over(e) => Over(e)'
  BY <1>1 DEF Over, BegunStays
<1>4. \A w \in Worker : Pending(w)' = Pending(w)
  BY <1>1 DEF Pending, At
<1>5. \A e \in accepted' : \/ e \in accepted /\ ~\E w \in Worker : wev[w] = e /\ Pending(w)
                           \/ \E w \in Worker : wev'[w] = e /\ Pending(w)'
  BY <1>1, <1>4
<1> QED
  BY <1>1, <1>2, <1>3, <1>5, QuietResults

\* The caller takes the oldest result, which is that of an event of which it
\* had heard nothing.
LEMMA ReceiveResults ==
  ASSUME ReportTypeOK, SendInv, mode.enableEntityActions, ~ctxDone, ReceiveResult
  PROVE  (ChanInv /\ ReceivedInv /\ SentInv)'
<1>1. ChanInv /\ ReceivedInv /\ SentInv
  BY DEF SendInv
<1>2. UNCHANGED <<wpc, wev, status, step, answer, accepted>>
  BY DEF ReceiveResult, vars
<1>3. \A f : /\ Result(f)' = Result(f) /\ Told(f)' = Told(f) /\ Over(f)' = Over(f)
  BY <1>2 DEF Result, Told, Over
<1>4. \A v : Pending(v)' = Pending(v)
  BY <1>2 DEF Pending, At
<1>5. /\ Len(resultChan) \in Nat \ {0} /\ Head(resultChan) = resultChan[1]
      /\ Len(resultChan') = Len(resultChan) - 1
      /\ \A i \in 1..Len(resultChan') : resultChan'[i] = resultChan[i + 1]
  <2>1. resultChan \in Seq(Event \X BOOLEAN) /\ resultChan # <<>> /\ resultChan' = Tail(resultChan)
    BY DEF ReportTypeOK, ReceiveResult
  <2> QED
    BY <2>1, EmptySeq, HeadTailProperties, LenProperties
<1>6. PICK e \in Event : resultChan[1] = Result(e) /\ Over(e) /\ received[e] = <<>>
  BY <1>1, <1>5 DEF ChanInv
<1>7. /\ received'[e] = Told(e)
      /\ \A f \in Event \ {e} : received'[f] = received[f]
  <2>1. received \in [Event -> Seq(BOOLEAN)]
    BY DEF ReportTypeOK
  <2>2. Result(e)[1] = e /\ Append(<<>>, Result(e)[2]) = Told(e)
    <3>1. Append(<<>>, TRUE) = <<TRUE>> /\ Append(<<>>, FALSE) = <<FALSE>>
      OBVIOUS
    <3>2. CASE e \in accepted
      BY <3>1, <3>2 DEF Result, Told
    <3>3. CASE e \notin accepted
      BY <3>1, <3>3 DEF Result, Told
    <3> QED
      BY <3>2, <3>3
  <2>3. received' = [received EXCEPT ![Result(e)[1]] = Append(@, Result(e)[2])]
    BY <1>5, <1>6 DEF ReceiveResult
  <2> QED
    BY <1>6, <2>1, <2>2, <2>3
<1>8. Told(e) # <<>>
  BY DEF Told
<1>9. ASSUME NEW i \in 1..Len(resultChan')
      PROVE  \E f \in Event : resultChan'[i] = Result(f) /\ Over(f) /\ received'[f] = <<>>
  <2>1. i + 1 \in 1..Len(resultChan) /\ 1 \in 1..Len(resultChan) /\ i + 1 # 1
    BY <1>5
  <2>2. PICK f \in Event : resultChan[i + 1] = Result(f) /\ Over(f) /\ received[f] = <<>>
    BY <1>1, <2>1 DEF ChanInv
  <2>3. f # e
    BY <1>1, <1>6, <2>1, <2>2 DEF ChanInv
  <2> QED
    BY <1>5, <1>7, <2>2, <2>3
<1>10. ASSUME NEW i \in 1..Len(resultChan'), NEW j \in 1..Len(resultChan'), resultChan'[i] = resultChan'[j]
       PROVE  i = j
  <2>1. i + 1 \in 1..Len(resultChan) /\ j + 1 \in 1..Len(resultChan) /\ resultChan[i + 1] = resultChan[j + 1]
    BY <1>5, <1>10
  <2>2. i + 1 = j + 1
    BY <1>1, <2>1 DEF ChanInv
  <2> QED
    BY <2>2
<1>11. ASSUME NEW f, f # e, InChan(f) PROVE InChan(f)'
  <2>1. PICK i \in 1..Len(resultChan) : resultChan[i] = Result(f)
    BY <1>11 DEF InChan
  <2>2. i # 1
    BY <1>6, <1>11, <2>1 DEF Result
  <2>3. i - 1 \in 1..Len(resultChan') /\ resultChan'[i - 1] = Result(f)'
    BY <1>3, <1>5, <2>1, <2>2
  <2> QED
    BY <2>3 DEF InChan
<1>12. ChanInv'
  BY <1>3, <1>9, <1>10 DEF ChanInv
<1>13. ReceivedInv'
  BY <1>1, <1>3, <1>6, <1>7 DEF ReceivedInv
<1>14. ASSUME NEW f \in accepted
       PROVE  (\E w \in Worker : wev[w] = f /\ Pending(w)) \/ received'[f] # <<>> \/ InChan(f)'
  <2>1. CASE f = e
    BY <1>7, <1>8, <2>1
  <2>2. CASE f # e
    BY <1>1, <1>7, <1>11, <2>2 DEF SentInv, ReportTypeOK
  <2> QED
    BY <2>1, <2>2
<1>15. SentInv'
  BY <1>2, <1>4, <1>14 DEF SentInv
<1> QED
  BY <1>12, <1>13, <1>15

\* As long as the context is not cancelled, no result is lost and none is sent
\* twice.
THEOREM ResultInvariance == SolveSpec => []SendInv
<1>1. ASSUME IInv, ReportInv, ReportInv', SendInv, [SolveNext]_solveVars PROVE SendInv'
  <2>1. [Next]_vars
    BY <1>1, SolveStepMapped DEF solveVars
  <2>2. ctxDone => ctxDone'
    BY <2>1, CancelledStays
  <2>3. ASSUME NEW w \in Worker, InFunction(w), mode.enableEntityActions, ~ctxDone PROVE SendInv'
    BY <1>1, <2>3, SendResults, OtherCallResults DEF ReportInv, SendInv
  <2>4. ASSUME NEW w \in Worker, OutsideFunction(w), mode.enableEntityActions, ~ctxDone PROVE SendInv'
    BY <1>1, <2>4, OutsideResults DEF ReportInv, SendInv
  <2>5. CASE Elsewhere /\ mode.enableEntityActions /\ ~ctxDone
    BY <1>1, <2>5, ElsewhereResults, ReceiveResults DEF ReportInv, SendInv
  <2>6. mode' = mode
    <3>1. ASSUME NEW w \in Worker, InFunction(w) PROVE mode' = mode
      BY <3>1 DEF InFunction, WorkspaceExists, WorkspaceFails, Lookup, Fetch, FetchFails, Store,
         FillDefaultsFails, DescribeFails, ReadHeader, WriteHeader, Request, SendResult, ReturnsBare
    <3>2. ASSUME NEW w \in Worker, OutsideFunction(w) PROVE mode' = mode
      BY <3>2 DEF OutsideFunction
    <3>3. CASE Elsewhere
      BY <1>1, <3>3, ElsewhereFrame
    <3> QED
      BY <1>1, <3>1, <3>2, <3>3, SolveCases
  <2>7. CASE ctxDone \/ ~mode.enableEntityActions
    BY <2>2, <2>6, <2>7 DEF SendInv
  <2> QED
    BY <1>1, <2>3, <2>4, <2>5, <2>7, SolveCases
<1> QED
  BY <1>1, InitSendInv, SolveKeepsEngine, ReportInvariance, PTL DEF SolveSpec

\* A caller that receives to the end, and does not cancel, is told of every
\* operation that was carried out, once, and of no other that it was.
THEOREM ResultsAreExact == SolveSpec => []ResultsMatch
<1>1. ASSUME IInv, ReportTypeOK, SendInv, ClosedLast, mode.enableEntityActions, ~ctxDone,
             resultChanClosed, resultChan = <<>>, NEW e \in Event
      PROVE  IF e \in accepted THEN received[e] = <<TRUE>> ELSE received[e] \in {<<>>, <<FALSE>>}
  <2>1. \A w \in Worker : ~Pending(w)
    BY <1>1 DEF ClosedLast, IInv, MainInv, Pending, At
  <2>2. ~InChan(e)
    BY <1>1 DEF InChan
  <2>3. e \in accepted => received[e] # <<>>
    BY <1>1, <2>1, <2>2 DEF SendInv, SentInv
  <2>4. received[e] # <<>> => received[e] = Told(e)
    BY <1>1 DEF SendInv, ReceivedInv
  <2> QED
    BY <2>3, <2>4 DEF Told
<1>2. IInv /\ ReportInv /\ SendInv /\ ClosedLast => ResultsMatch
  BY <1>1 DEF ResultsMatch, ReportInv
<1> QED
  BY <1>2, ResultInvariance, ReportInvariance, SolveKeepsEngine, ClosedLastHolds, PTL
=============================================================================
