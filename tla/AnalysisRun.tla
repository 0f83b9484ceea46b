---------------------------- MODULE AnalysisRun ----------------------------
(***************************************************************************)
(* runTradingAnalysis of cmd/web/main.go and the graph of agents it runs.  *)
(* Two branches start together and the trader joins them:                  *)
(*                                                                         *)
(*      market --> crypto --> position --+                                 *)
(*                                       +--> trader                       *)
(*      sentiment -----------------------+                                 *)
(*                                                                         *)
(* A node has one goroutine per symbol (sentiment is one call for all) and *)
(* finishes with the last.  Then one session per symbol is saved, every    *)
(* decision is executed and the result is written into the sessions.       *)
(* What one execution does is module TradeExecution; here it has an        *)
(* outcome.  Reports are abstracted to the run that wrote them.            *)
(***************************************************************************)
EXTENDS Decisions, FiniteSets

CONSTANTS
    Answers,        \* the answers of the language model
    AutoExecute,    \* cfg.AutoExecute
    MaxRuns,        \* bound: analysis runs
    Faults          \* what may happen: "fetch", "save", "trade", "crash"

ASSUME AnalysisAssumption ==
    /\ IsFiniteSet(Symbols) /\ Symbols # {}
    /\ \A answer \in Answers : IsAnswer(answer)
    /\ AutoExecute \in BOOLEAN
    /\ MaxRuns \in Nat
    /\ Faults \subseteq {"fetch", "save", "trade", "crash"}

VARIABLES
    run,        \* number of the run
    phase,      \* what runTradingAnalysis is at
    started,    \* the graph's nodes that were started
    todo,       \* per analyst, the symbols whose goroutine has not finished
    reports,    \* AgentState.Reports: the run that wrote each, 0 when empty
    positions,  \* AgentState.AllPositions, likewise
    answer,     \* the model's answer
    kept,       \* AgentState.FinalDecision
    decisions,  \* what is parsed from it
    left,       \* the symbols still to come in the loop that is running
    results,    \* executionResults
    sessions    \* the trading_sessions of each symbol, oldest first

graph == <<started, todo, reports, positions>>
vars == <<run, phase, graph, answer, kept, decisions, left, results, sessions>>

Phases == {"idle", "graph", "save", "trade", "record"}
Analysts == {"market", "sentiment", "crypto", "position"}
Nodes == Analysts \cup {"trader"}
NoReport == [market |-> 0, crypto |-> 0, sentiment |-> 0]

-----------------------------------------------------------------------------
(* The graph *)

\* A slip: the edge between the crypto and the market analyst is turned round.
EdgesCyclic ==
    {<<"crypto", "market">>, <<"market", "crypto">>, <<"crypto", "position">>,
     <<"sentiment", "trader">>, <<"position", "trader">>}

Edges ==
    {<<"market", "crypto">>, <<"crypto", "position">>,
     <<"sentiment", "trader">>, <<"position", "trader">>}

Finished(analyst) == analyst \in started /\ todo[analyst] = {}

\* A slip: the default trigger mode, in which one predecessor is enough.
AnyPredecessor(node) ==
    LET before == {n \in Analysts : <<n, node>> \in Edges}
    IN  before = {} \/ \E n \in before : Finished(n)

\* AllPredecessor: a node starts when all those before it have finished.
Triggered(node) == \A n \in Analysts : <<n, node>> \in Edges => Finished(n)

NoAnswer == [form |-> "error", fenced |-> FALSE, entries |-> <<>>, block |-> "none"]

\* The local variables of a run.
Fresh(a, k, d, l, r) ==
    /\ a = NoAnswer
    /\ k = "none"
    /\ d = [s \in Symbols |-> Default]
    /\ l = {}
    /\ r = [s \in Symbols |-> "none"]

\* Run: the workflow starts from START.
Begin ==
    /\ phase = "idle"
    /\ run < MaxRuns
    /\ run' = run + 1
    /\ phase' = "graph"
    /\ started' = {}
    /\ todo' = [n \in Analysts |-> Symbols]
    /\ Fresh(answer', kept', decisions', left', results')
    /\ UNCHANGED sessions

\* A slip: the graph is made once, before the loop, and keeps its state.
StartRunReusing == Begin /\ UNCHANGED <<reports, positions>>

\* NewSimpleTradingGraph: every run has a state of its own.
StartRun ==
    /\ Begin
    /\ reports' = [s \in Symbols |-> NoReport]
    /\ positions' = [s \in Symbols |-> 0]

StartNode(node) ==
    /\ phase = "graph"
    /\ node \notin started
    /\ Triggered(node)
    /\ started' = started \cup {node}
    /\ UNCHANGED <<run, phase, todo, reports, positions, answer, kept, decisions, left,
                   results, sessions>>

\* One goroutine of a node finishes.
Finish(node, symbols) ==
    /\ phase = "graph"
    /\ node \in started
    /\ symbols \subseteq todo[node] /\ symbols # {}
    /\ todo' = [todo EXCEPT ![node] = @ \ symbols]
    /\ UNCHANGED <<run, phase, started, answer, kept, decisions, left, results, sessions>>

\* marketAnalyst: without candles the report stays empty and there are no
\* indicators.
AnalyseMarket(s) ==
    /\ Finish("market", {s})
    /\ \/ reports' = [reports EXCEPT ![s].market = run]
       \/ "fetch" \in Faults /\ UNCHANGED reports
    /\ UNCHANGED positions

\* cryptoAnalyst: what cannot be fetched is a line of the report.
AnalyseCrypto(s) ==
    /\ Finish("crypto", {s})
    /\ reports' = [reports EXCEPT ![s].crypto = run]
    /\ UNCHANGED positions

\* sentimentAnalyst: one index for all symbols, disabled and failed included.
AnalyseSentiment ==
    /\ Finish("sentiment", Symbols)
    /\ reports' = [s \in Symbols |-> [reports[s] EXCEPT !.sentiment = run]]
    /\ UNCHANGED positions

\* positionInfo, whose text may also say that the position is not known.
DescribePosition(s) ==
    /\ Finish("position", {s})
    /\ positions' = [positions EXCEPT ![s] = run]
    /\ UNCHANGED reports

\* trader: the model is asked about the reports, its answer checked and kept,
\* and the graph has ended.
Decide(a) ==
    /\ phase = "graph"
    /\ "trader" \in started
    /\ answer' = a
    /\ kept' \in Kept(a)
    /\ phase' = "save"
    /\ left' = Symbols
    /\ UNCHANGED <<run, graph, decisions, results, sessions>>

-----------------------------------------------------------------------------
(* runTradingAnalysis after the graph *)

InLoop(name, s) ==
    /\ phase = name
    /\ s \in left
    /\ left' = left \ {s}
    /\ UNCHANGED <<run, phase, graph, answer, kept, decisions>>

NextLoop(from, to) ==
    /\ phase = from
    /\ left = {}
    /\ phase' = to
    /\ left' = Symbols
    /\ UNCHANGED <<run, graph, answer, kept, results, sessions>>

Session(s) == [run |-> run, market |-> reports[s].market, result |-> 0]

\* SaveSession, whose failure is only logged.
SaveSession(s) ==
    /\ InLoop("save", s)
    /\ \/ sessions' = [sessions EXCEPT ![s] = Append(@, Session(s))]
       \/ "save" \in Faults /\ UNCHANGED sessions
    /\ UNCHANGED results

\* Without AUTO_EXECUTE the run ends here.  The decisions that are executed are
\* parsed again from the text.
StartTrading ==
    /\ NextLoop("save", IF AutoExecute THEN "trade" ELSE "idle")
    /\ IF AutoExecute THEN decisions' \in Parsed(kept, answer) ELSE UNCHANGED decisions

\* The outcomes of one decision.  An opening without a position size is refused;
\* ValidateDecision and the coordinator refuse others, and trades fail.
Outcomes(decision) ==
    IF decision.action \in TradeActions
      THEN (IF decision.action \in Opening /\ ~decision.sized THEN {} ELSE {decision.action})
           \cup (IF "trade" \in Faults \/ ~decision.sized THEN {"failed"} ELSE {})
      ELSE {decision.action}

\* A slip: the first failure ends the loop.
ExecuteOrReturn(s) ==
    /\ phase = "trade"
    /\ s \in left
    /\ \E outcome \in Outcomes(decisions[s]) :
         /\ results' = [results EXCEPT ![s] = outcome]
         /\ left' = IF outcome = "failed" THEN {} ELSE left \ {s}
    /\ UNCHANGED <<run, phase, graph, answer, kept, decisions, sessions>>

\* The body of the loop over the decisions, which a Go map gives in any order.
\* A failure is a result like any other.
Execute(s) ==
    /\ InLoop("trade", s)
    /\ \E outcome \in Outcomes(decisions[s]) : results' = [results EXCEPT ![s] = outcome]
    /\ UNCHANGED sessions

StartRecording == NextLoop("trade", "record") /\ UNCHANGED decisions

\* A slip: ORDER BY created_at ASC.
Oldest(rows) == 1

\* ORDER BY created_at DESC LIMIT 1.
Latest(rows) == Len(rows)

\* A slip: the UPDATE without its subquery.
RecordEverywhere(s) ==
    /\ InLoop("record", s)
    /\ sessions' = [sessions EXCEPT ![s] = [i \in DOMAIN @ |-> [@[i] EXCEPT !.result = run]]]
    /\ UNCHANGED results

\* UpdateLatestSessionExecution, which does not name the session; no session is
\* no error, and a failure is only logged.
RecordExecution(s) ==
    /\ InLoop("record", s)
    /\ \/ /\ sessions[s] # <<>>
          /\ sessions' = [sessions EXCEPT ![s][Latest(sessions[s])].result = run]
       \/ /\ "save" \in Faults \/ sessions[s] = <<>>
          /\ UNCHANGED sessions
    /\ UNCHANGED results

EndRun == NextLoop("record", "idle") /\ UNCHANGED decisions

\* The program is killed and started again: the database is all that remains.
Crash ==
    /\ "crash" \in Faults
    /\ phase # "idle"
    /\ phase' = "idle"
    /\ UNCHANGED <<run, graph, answer, kept, decisions, left, results, sessions>>

-----------------------------------------------------------------------------

Init ==
    /\ run = 0
    /\ phase = "idle"
    /\ started = {}
    /\ todo = [n \in Analysts |-> Symbols]
    /\ reports = [s \in Symbols |-> NoReport]
    /\ positions = [s \in Symbols |-> 0]
    /\ Fresh(answer, kept, decisions, left, results)
    /\ sessions = [s \in Symbols |-> <<>>]

InGraph ==
    \/ \E n \in Nodes : StartNode(n)
    \/ AnalyseSentiment
    \/ \E s \in Symbols : AnalyseMarket(s) \/ AnalyseCrypto(s) \/ DescribePosition(s)
    \/ \E a \in Answers : Decide(a)

AfterGraph ==
    \/ \E s \in Symbols : SaveSession(s) \/ Execute(s) \/ RecordExecution(s)
    \/ StartTrading \/ StartRecording \/ EndRun

Next == StartRun \/ InGraph \/ AfterGraph \/ Crash

\* Within a run, what can go on goes on: every call returns.
Spec == Init /\ [][Next]_vars /\ WF_vars(InGraph \/ AfterGraph)

-----------------------------------------------------------------------------
(* Types *)

Row == [run : 1..MaxRuns, market : 0..MaxRuns, result : 0..MaxRuns]

\* Every variable has its type.
TypeOK ==
    /\ run \in 0..MaxRuns
    /\ phase \in Phases
    /\ started \subseteq Nodes
    /\ todo \in [Analysts -> SUBSET Symbols]
    /\ reports \in [Symbols -> [market : 0..MaxRuns, crypto : 0..MaxRuns, sentiment : 0..MaxRuns]]
    /\ positions \in [Symbols -> 0..MaxRuns]
    /\ answer \in Answers \cup {NoAnswer}
    /\ kept \in {"none", "simple", "answer"}
    /\ decisions \in [Symbols -> [action : Known \cup {"invalid"}, sized : BOOLEAN]]
    /\ left \subseteq Symbols
    /\ results \in [Symbols -> Known \cup {"none", "invalid", "failed"}]
    /\ sessions \in [Symbols -> Seq(Row)]

-----------------------------------------------------------------------------
(* Safety *)

\* The fork is joined: when the model is asked, every symbol's crypto and
\* sentiment report and its position have been written by this run, though the
\* two branches and the goroutines of a node end in any order.
TraderInformed ==
    phase \in {"save", "trade", "record"} =>
       \A s \in Symbols : {reports[s].crypto, reports[s].sentiment, positions[s]} = {run}

\* A run whose market data cannot be fetched saves an empty market report,
\* never the one of an earlier run.
SessionsAreCurrent ==
    \A s \in Symbols : \A i \in DOMAIN sessions[s] :
       sessions[s][i].market \in {0, sessions[s][i].run}

\* Every action that occurs in the answer, in an entry or in a reasoning.
Mentioned ==
    UNION {{answer.entries[i].action} \cup answer.entries[i].words : i \in DOMAIN answer.entries}

\* A run that has no usable answer (the call failed, there is no JSON in it, the
\* entry looked at has no action) does not trade; neither does a symbol for
\* which a plain JSON answer asks something else; and a fenced answer is the
\* cause of no trade that it does not mention at all.
TradesWereAsked ==
    \A s \in Symbols :
       phase \in {"trade", "record"} /\ results[s] \in TradeActions =>
          /\ answer.form \in {"map", "object"}
          /\ results[s] \in (IF answer.fenced THEN Mentioned ELSE Named(answer, s))

\* Failures stay with their symbol: when the results are recorded, every symbol
\* has one.
EverySymbolAnswered ==
    phase = "record" => \A s \in Symbols : results[s] # "none"

\* A session has the result of its own run, unless the later run that wrote it
\* could not save the session of its own: then it goes to this one.
ResultOfItsRun ==
    \A s \in Symbols : \A i \in DOMAIN sessions[s] :
       LET row == sessions[s][i]
       IN  row.result \notin {0, row.run} =>
              /\ row.result > row.run
              /\ \A j \in DOMAIN sessions[s] : sessions[s][j].run # row.result

\* A session has no result but that of its own run.
OwnResults ==
    \A s \in Symbols : \A i \in DOMAIN sessions[s] :
       sessions[s][i].result \in {0, sessions[s][i].run}

\* No decision is executed.
NothingExecuted == \A s \in Symbols : results[s] = "none"

-----------------------------------------------------------------------------
(* The inductive invariant behind the safety properties *)

\* What a goroutine that has finished has written, and which nodes have ended
\* when another one has started.
JoinInv ==
    phase # "idle" =>
       /\ run > 0
       /\ \A n \in Analysts \ started : todo[n] = Symbols
       /\ \A s \in Symbols :
             /\ "crypto" \in started /\ s \notin todo["crypto"] => reports[s].crypto = run
             /\ "sentiment" \in started /\ s \notin todo["sentiment"] =>
                   reports[s].sentiment = run
             /\ "position" \in started /\ s \notin todo["position"] => positions[s] = run
             /\ reports[s].market \in {0, run}
       /\ "position" \in started => Finished("crypto")
       /\ "trader" \in started => Finished("position") /\ Finished("sentiment")
       /\ phase # "graph" => "trader" \in started

\* The rows of a symbol are in the order of the runs, and their results are not
\* newer than the run.
RowsInv ==
    \A s \in Symbols :
       /\ \A i \in DOMAIN sessions[s] : sessions[s][i].run <= run /\ sessions[s][i].result <= run
       /\ \A i, j \in DOMAIN sessions[s] : i < j => sessions[s][i].run < sessions[s][j].run

\* This run's rows and results are not there before it writes them.
NotYetWritten ==
    \A s \in Symbols : \A i \in DOMAIN sessions[s] :
       /\ phase = "graph" \/ (phase = "save" /\ s \in left) => sessions[s][i].run < run
       /\ phase \in {"graph", "save", "trade"} => sessions[s][i].result < run

\* What is decided comes from the answer, what is reported from what is decided.
DecisionInv ==
    /\ phase \in {"save", "trade", "record"} => kept \in Kept(answer)
    /\ phase \in {"graph", "save"} => \A s \in Symbols : results[s] = "none"
    /\ phase \in {"trade", "record"} =>
          /\ decisions \in Parsed(kept, answer)
          /\ \A s \in Symbols : results[s] \in {"none"} \cup Outcomes(decisions[s])
          /\ \A s \in Symbols : results[s] = "none" => phase = "trade" /\ s \in left

\* When no save fails, the row of a symbol that was saved is its last.
LastIsOwn ==
    \A s \in Symbols :
       phase \in {"trade", "record"} \/ (phase = "save" /\ s \notin left) =>
          sessions[s] # <<>> /\ sessions[s][Latest(sessions[s])].run = run

AnalysisInv ==
    /\ TypeOK /\ DecisionInv /\ JoinInv
    /\ RowsInv /\ NotYetWritten /\ SessionsAreCurrent /\ ResultOfItsRun

-----------------------------------------------------------------------------
(* RunLedger *)

\* How far a run has come with the stored sessions.
Stage ==
    CASE phase = "idle" -> "between"
      [] phase \in {"graph", "save"} -> "saving"
      [] phase = "trade" -> "trading"
      [] phase = "record" -> "recording"

Ledger == INSTANCE RunLedger WITH stage <- Stage, ledger <- sessions

\* Whatever fails, and wherever the program is killed, the stored sessions are
\* written as RunLedger says: a run adds one row of a symbol at most, before it
\* trades, and what it writes later goes into the symbol's last row.
LedgerSpec == Ledger!LedgerSpec

-----------------------------------------------------------------------------
(* The length of a run *)

\* The goroutines of the analysts that have not finished.
Pending ==
    Cardinality(todo["market"]) + Cardinality(todo["sentiment"])
      + Cardinality(todo["crypto"]) + Cardinality(todo["position"])

Loop == Cardinality(Symbols) + 1

\* The steps that a run can still take.
Remaining ==
    CASE phase = "graph" -> Cardinality(Nodes \ started) + Pending + 1 + 3 * Loop
      [] phase = "save" -> Cardinality(left) + 1 + 2 * Loop
      [] phase = "trade" -> Cardinality(left) + 1 + Loop
      [] phase = "record" -> Cardinality(left) + 1
      [] OTHER -> 0

\* Every step of a run brings it nearer to its end: a node is started once, a
\* goroutine ends once and a loop visits a symbol once, so no run goes on for
\* ever, however its steps are interleaved.
RunsShrink == [][phase # "idle" => Remaining' < Remaining]_vars

-----------------------------------------------------------------------------
(* Liveness *)

\* A run ends: the branches never wait for one another in a circle, and no loop
\* is stuck on a symbol.
RunEnds == (phase # "idle") ~> (phase = "idle")

-----------------------------------------------------------------------------
(* What the code says, and does not keep *)

\* ParseMultiCurrencyDecision "extracts trading actions for each symbol": what
\* is executed for a symbol is what the answer asks for it.
ActsAsAnswered ==
    \A s \in Symbols :
       phase \in {"trade", "record"} /\ results[s] \in TradeActions =>
          results[s] \in Named(answer, s)
=============================================================================
