------------------------------- MODULE Engine -------------------------------
(***************************************************************************)
(* One request of the synchronous API: runHandler in                       *)
(* internal/httpapi/router.go, and under it NewWorkflow, hasCycle, Run,    *)
(* readyWave, skipBlocked and runStep of internal/workflow/workflow.go with *)
(* the agent adapter of internal/einoagent/agent.go.  Go ranges over a map *)
(* in any order, so every such loop takes its elements in any order here.  *)
(* Once NewWorkflow has found the IDs distinct, a step is its ordinal.     *)
(***************************************************************************)
EXTENDS Naturals, FiniteSets, Sequences, SequencesExt

CONSTANTS
  Requests,   \* the bodies: [wellFormed, steps], a step [id, agent, prompt, references, dependsOn]
  Agents,     \* the names in the AgentRegistry
  Blank,      \* the empty string
  MaxRetries  \* Options.MaxRetries

\* The steps of a request, and the dependencies of a step, are lists.
ASSUME EngineAssumption ==
  /\ MaxRetries \in Nat
  /\ \A r \in Requests :
       /\ r.steps \in Seq(Range(r.steps))
       /\ \A i \in DOMAIN r.steps : r.steps[i].dependsOn \in Seq(Range(r.steps[i].dependsOn))

VARIABLES
  request,  \* the body
  phase,    \* where the handler is
  degree,   \* hasCycle: the dependencies not yet visited, by step
  ready,    \* hasCycle: its queue
  visited,  \* hasCycle: how many steps it took off the queue
  results,  \* Run: the outcome of every step, "none" before it has one
  calls,    \* how often the agent of a step was called
  flight,   \* the steps of the wave that have no result yet
  pass,     \* skipBlocked: the steps the pass has still to look at
  blocked,  \* skipBlocked: whether the pass has skipped a step
  gone,     \* whether the client has closed the connection
  answer    \* the response: its status, and the step that WorkflowError names

sortVars == <<degree, ready, visited>>
runVars == <<results, calls, flight>>
skipVars == <<pass, blocked>>
engineVars == <<request, phase, sortVars, runVars, skipVars, gone, answer>>

Outcomes == {"succeeded", "failed", "skipped"}
NoStep == 0
steps == request.steps
Ordinals == 1..Len(steps)

\* The steps that a set of IDs names.
Named(ids) == {k \in Ordinals : steps[k].id \in ids}
Dependencies == [i \in Ordinals |-> Named(Range(steps[i].dependsOn))]
Referenced == [i \in Ordinals |-> Named(steps[i].references)]

\* The rules of one run, over the request's own graph.
Plan == INSTANCE Workflow WITH NumSteps <- Len(steps), DependsOn <- Dependencies,
                               References <- Referenced

-----------------------------------------------------------------------------

Init ==
  /\ request \in Requests
  /\ phase = "decode"
  /\ degree = <<>> /\ ready = <<>> /\ visited = 0
  /\ results = <<>> /\ calls = <<>> /\ flight = {}
  /\ pass = {} /\ blocked = FALSE
  /\ gone = FALSE
  /\ answer = [status |-> 0, step |-> NoStep]

Respond(status, step) ==
  /\ phase' = "answered"
  /\ answer' = [status |-> status, step |-> step]

\* NewWorkflow, up to hasCycle: its checks of the steps and of their dependencies.
Valid ==
  /\ steps # <<>>
  /\ \A i \in Ordinals : Blank \notin {steps[i].id, steps[i].prompt}
  /\ \A i, k \in Ordinals : steps[i].id = steps[k].id => i = k
  /\ \A i \in Ordinals : LET dependsOn == steps[i].dependsOn IN
       /\ \A d \in Range(dependsOn) :
            d \notin {Blank, steps[i].id} /\ \E k \in Ordinals : steps[k].id = d
       /\ IsInjective(dependsOn)

\* decodeRunRequest and the agents' resolution: either may refuse the request.
Decode ==
  /\ phase = "decode"
  /\ IF request.wellFormed /\ (\A i \in Ordinals : steps[i].agent \in Agents) /\ Valid
       THEN phase' = "count" /\ UNCHANGED answer
       ELSE Respond(400, NoStep)
  /\ UNCHANGED <<request, sortVars, runVars, skipVars, gone>>

\* hasCycle counts the dependencies and queues the steps without one.
CountDependencies ==
  /\ phase = "count"
  /\ phase' = "sort"
  /\ degree' = [i \in Ordinals |-> Len(steps[i].dependsOn)]
  /\ ready' \in SetToSeqs({i \in Ordinals : steps[i].dependsOn = <<>>})
  /\ UNCHANGED <<request, visited, runVars, skipVars, gone, answer>>

\* The listing of some steps in declaration order.
InOrder(S) == {q \in SetToSeqs(S) : \A i, k \in DOMAIN q : i < k => q[i] < q[k]}

\* Mutation of Visit: the queued child is not counted down to zero first.
VisitEager ==
  /\ phase = "sort" /\ ready # <<>>
  /\ LET children == {i \in Ordinals : Head(ready) \in Dependencies[i]} IN
       /\ degree' = [i \in Ordinals |-> IF i \in children THEN 0 ELSE degree[i]]
       /\ \E q \in InOrder({i \in children : degree[i] # 0}) : ready' = Tail(ready) \o q
  /\ visited' = visited + 1
  /\ UNCHANGED <<request, phase, runVars, skipVars, gone, answer>>

\* hasCycle visits a step and counts it off its children, in declaration order.
Visit ==
  /\ phase = "sort" /\ ready # <<>>
  /\ LET IsChild(i) == Head(ready) \in Dependencies[i]
         IsFree(i) == IsChild(i) /\ degree[i] = 1
     IN  /\ degree' = [i \in Ordinals |-> IF IsChild(i) THEN degree[i] - 1 ELSE degree[i]]
         /\ \E q \in InOrder({i \in Ordinals : IsFree(i)}) : ready' = Tail(ready) \o q
  /\ visited' = visited + 1
  /\ UNCHANGED <<request, phase, runVars, skipVars, gone, answer>>

\* NewWorkflow returns, and Run starts with every step remaining.
Accept ==
  /\ phase = "sort" /\ ready = <<>>
  /\ IF visited = Len(steps)
       THEN /\ phase' = "wave"
            /\ results' = [i \in Ordinals |-> "none"]
            /\ calls' = [i \in Ordinals |-> 0]
            /\ UNCHANGED answer
       ELSE Respond(400, NoStep) /\ UNCHANGED <<results, calls>>
  /\ UNCHANGED <<request, sortVars, flight, skipVars, gone>>

\* renderPrompt finds an output for every ID in the prompt.
Renders(i) ==
  \A id \in steps[i].references : \E k \in Named({id}) : results[k] = "succeeded"

\* Mutation of StartWave: a prompt that cannot be rendered skips its step.
StartWaveLenient ==
  /\ phase = "wave"
  /\ LET wave == Plan!ReadyWave(results)
         rendered == {i \in wave : Renders(i)}
     IN  /\ wave # {}
         /\ flight' = rendered
         /\ results' = [i \in Ordinals |->
                          IF i \in wave \ rendered THEN "skipped" ELSE results[i]]
         /\ calls' = [i \in Ordinals |-> IF i \in rendered THEN 1 ELSE calls[i]]
  /\ phase' = "drain"
  /\ UNCHANGED <<request, sortVars, skipVars, gone, answer>>

\* Run takes a wave: a step whose prompt does not render has failed, and every
\* other one calls its agent.
StartWave ==
  /\ phase = "wave"
  /\ LET wave == Plan!ReadyWave(results)
         rendered == {i \in wave : Renders(i)}
     IN  /\ wave # {}
         /\ flight' = rendered
         /\ results' = [i \in Ordinals |->
                          IF i \in wave \ rendered THEN "failed" ELSE results[i]]
         /\ calls' = [i \in Ordinals |-> IF i \in rendered THEN 1 ELSE calls[i]]
  /\ phase' = "drain"
  /\ UNCHANGED <<request, sortVars, skipVars, gone, answer>>

Deliver(i, outcome) ==
  /\ results' = [results EXCEPT ![i] = outcome]
  /\ flight' = flight \ {i}
  /\ UNCHANGED <<request, phase, sortVars, calls, skipVars, gone, answer>>

\* Agent.Run returns text.
AgentReplies(i) ==
  /\ phase = "drain" /\ i \in flight
  /\ Deliver(i, "succeeded")

\* Mutation of AgentFails: the comparison with MaxRetries is off by one.
AgentFailsEarly(i) ==
  /\ phase = "drain" /\ i \in flight
  /\ calls[i] >= MaxRetries \/ gone
  /\ Deliver(i, "failed")

\* Agent.Run returns an error or no text, and runStep gives up: no retry is left
\* or the request's context has ended during the backoff.
AgentFails(i) ==
  /\ phase = "drain" /\ i \in flight
  /\ calls[i] > MaxRetries \/ gone
  /\ Deliver(i, "failed")

\* Mutation of AgentRetries: one retry too many.
AgentRetriesOnceMore(i) ==
  /\ phase = "drain" /\ i \in flight
  /\ calls[i] <= MaxRetries + 1
  /\ calls' = [calls EXCEPT ![i] = @ + 1]
  /\ UNCHANGED <<request, phase, sortVars, results, flight, skipVars, gone, answer>>

\* runStep retries.  With the backoff over and the context ended, select takes
\* either branch.
AgentRetries(i) ==
  /\ phase = "drain" /\ i \in flight
  /\ calls[i] <= MaxRetries
  /\ calls' = [calls EXCEPT ![i] = @ + 1]
  /\ UNCHANGED <<request, phase, sortVars, results, flight, skipVars, gone, answer>>

\* skipBlocked starts a pass over the remaining steps.
BeginPass ==
  /\ pass' = Plan!Remaining(results)
  /\ blocked' = FALSE

\* The wave has drained.
WaveDrained ==
  /\ phase = "drain" /\ flight = {}
  /\ phase' = "skip"
  /\ BeginPass
  /\ UNCHANGED <<request, sortVars, runVars, gone, answer>>

\* A pass of skipBlocked comes to a step.
Look(i) ==
  /\ phase = "skip" /\ i \in pass
  /\ pass' = pass \ {i}
  /\ IF Plan!HasFailedDependency(i, results, {})
       THEN results' = [results EXCEPT ![i] = "skipped"] /\ blocked' = TRUE
       ELSE UNCHANGED <<results, blocked>>
  /\ UNCHANGED <<request, phase, sortVars, calls, flight, gone, answer>>

\* Mutation of EndPass: one pass is enough.
EndPassOnce ==
  /\ phase = "skip" /\ pass = {}
  /\ phase' = "wave" /\ UNCHANGED skipVars
  /\ UNCHANGED <<request, sortVars, runVars, gone, answer>>

\* Mutation of EndPass: the flag is not reset for the next pass.
EndPassStillBlocked ==
  /\ phase = "skip" /\ pass = {}
  /\ IF blocked THEN pass' = Plan!Remaining(results) /\ UNCHANGED <<blocked, phase>>
                ELSE phase' = "wave" /\ UNCHANGED skipVars
  /\ UNCHANGED <<request, sortVars, runVars, gone, answer>>

\* skipBlocked goes round again if the pass skipped a step.
EndPass ==
  /\ phase = "skip" /\ pass = {}
  /\ IF blocked THEN BeginPass /\ UNCHANGED phase
                ELSE phase' = "wave" /\ UNCHANGED skipVars
  /\ UNCHANGED <<request, sortVars, runVars, gone, answer>>

\* Run leaves its loop and orders the results, and the handler answers with them.
\* The step is the one that Run's WorkflowError names; it is not in the 502 itself.
Finish ==
  /\ phase = "wave" /\ Plan!ReadyWave(results) = {}
  /\ LET failed == {i \in Ordinals : results[i] = "failed"} IN
       IF failed = {} THEN Respond(200, NoStep)
       ELSE \E first \in failed : (\A i \in failed : first <= i) /\ Respond(502, first)
  /\ results' = Plan!Ordered(results)
  /\ UNCHANGED <<request, sortVars, calls, flight, skipVars, gone>>

\* The client closes the connection: r.Context() ends.
Disconnect ==
  /\ phase = "drain" /\ ~gone
  /\ gone' = TRUE
  /\ UNCHANGED <<request, phase, sortVars, runVars, skipVars, answer>>

Answered == phase = "answered" /\ UNCHANGED engineVars

Handle ==
  \/ Decode \/ CountDependencies \/ Visit \/ Accept
  \/ StartWave \/ WaveDrained \/ EndPass \/ Finish
  \/ \E i \in flight : AgentReplies(i) \/ AgentFails(i) \/ AgentRetries(i)
  \/ \E i \in pass : Look(i)

Next == Handle \/ Disconnect \/ Answered

\* The server's goroutines run, and every call of an agent returns.
Spec == Init /\ [][Next]_engineVars /\ WF_engineVars(Handle)

-----------------------------------------------------------------------------

\* Run has been called.
HasRun == phase \in {"wave", "drain", "skip"} \/ answer.status \in {200, 502}

\* Nothing is out of its type.
TypeOK ==
  /\ request \in Requests
  /\ phase \in {"decode", "count", "sort", "wave", "drain", "skip", "answered"}
  /\ visited \in 0..Len(steps) /\ ready \in Seq(Ordinals)
  /\ phase = "sort" => degree \in [Ordinals -> Nat]
  /\ flight \subseteq Ordinals /\ pass \subseteq Ordinals
  /\ IF HasRun THEN /\ results \in [Ordinals -> Outcomes \cup {"none"}]
                    /\ calls \in [Ordinals -> 0..(MaxRetries + 1)]
               ELSE results = <<>> /\ calls = <<>>
  /\ blocked \in BOOLEAN /\ gone \in BOOLEAN
  /\ answer.status \in {0, 200, 400, 502} /\ answer.step \in Ordinals \cup {NoStep}

\* A step is reached from another along DependsOn.
Behind(i) ==
  {k \in Ordinals : \A S \in SUBSET Ordinals :
     (Dependencies[i] \subseteq S /\ \A s \in S : Dependencies[s] \subseteq S) => k \in S}

\* hasCycle's countdown decides acyclicity exactly: a workflow that runs has no
\* step behind itself, and one that passed every other check and was refused
\* has, whatever the order in which the map yielded the first steps.
CycleTestExact ==
  LET cyclic == \E i \in Ordinals : i \in Behind(i) IN
    /\ phase \in {"wave", "drain", "skip"} => ~cyclic
    /\ answer.status \in {200, 502} => ~cyclic
    /\ answer.status = 400 /\ visited > 0 => cyclic

\* Between two waves and in the answer, a step is skipped exactly when a step
\* somewhere behind it has failed: skipBlocked reaches the end of every chain and
\* touches nothing else, in whatever order it meets the steps.
SkipsTheWholeChain ==
  phase = "wave" \/ answer.status \in {200, 502} =>
    \A i \in Ordinals :
      results[i] = "skipped" <=> \E k \in Behind(i) : results[k] = "failed"

\* A 200 says that every step succeeded, and behind a 502 Run's WorkflowError names
\* the first step in declaration order that failed; no step is left out ("workflow did not run").
AnswerTellsTheOutcome ==
  /\ answer.status = 200 => \A i \in Ordinals : results[i] = "succeeded"
  /\ answer.status = 502 =>
       /\ results[answer.step] = "failed"
       /\ \A i \in 1..(answer.step - 1) : results[i] # "failed"

\* As long as the client listens, a step is given up only after its agent has
\* failed MaxRetries + 1 times, or without a call when its prompt names an output
\* that was not there.
RetriesAreUsedUp ==
  ~gone =>
    \A i \in DOMAIN results : results[i] = "failed" =>
      \/ calls[i] = MaxRetries + 1
      \/ calls[i] = 0 /\ \E id \in steps[i].references : Named({id}) \cap Behind(i) = {}

\* Dependencies within a set of steps end somewhere.
Founded(S) == \A T \in (SUBSET S) \ {{}} : \E i \in T : Dependencies[i] \cap T = {}

\* The steps that hasCycle has taken off its queue.
Visited == {i \in Ordinals : degree[i] = 0} \ Range(ready)

\* hasCycle's count of a step is the number of its dependencies not yet visited.
CountsDown ==
  /\ phase \in {"decode", "count"} => visited = 0 /\ ready = <<>>
  /\ phase = "sort" =>
       /\ IsInjective(ready) /\ \A i \in Range(ready) : degree[i] = 0
       /\ \A i \in Ordinals : degree[i] = Cardinality(Dependencies[i] \ Visited)
       /\ visited = Cardinality(Visited) /\ Founded(Visited)

\* What runs was accepted, and what has not begun was not called.
RunsWhatIsValid ==
  /\ phase \notin {"decode", "answered"} => Valid
  /\ answer.status # 0 => phase = "answered"
  /\ HasRun => Founded(Ordinals)
  /\ phase = "drain" =>
       \A i \in flight : results[i] = "none" /\ Plan!DependenciesSucceeded(i, results)
  /\ phase # "drain" => flight = {}
  /\ HasRun => \A i \in Ordinals : results[i] = "none" /\ i \notin flight => calls[i] = 0

\* Steps ran behind the steps they depend on and were skipped behind a failure.
ResultsFollowGraph ==
  HasRun => \A i \in Ordinals :
    /\ results[i] \in {"succeeded", "failed"} => Plan!DependenciesSucceeded(i, results)
    /\ results[i] = "skipped" => Plan!HasFailedDependency(i, results, {})

\* A pass that has skipped nothing has found nothing to skip.
PassIsThorough ==
  /\ phase = "skip" => pass \subseteq Plan!Remaining(results)
  /\ phase = "wave" \/ (phase = "skip" /\ ~blocked) =>
       \A i \in Plan!Remaining(results) \ pass : ~Plan!HasFailedDependency(i, results, {})
  /\ phase # "skip" => pass = {}

\* The countdown, the waves and the passes each keep what they are for.
EngineInv ==
  /\ TypeOK /\ CountsDown /\ RunsWhatIsValid /\ ResultsFollowGraph /\ PassIsThorough
  /\ CycleTestExact /\ SkipsTheWholeChain /\ AnswerTellsTheOutcome /\ RetriesAreUsedUp

\* Every request is answered, whatever the steps are and whatever the agents, which
\* are assumed to return, do.
EveryRequestAnswered == <>(phase = "answered")

=============================================================================
