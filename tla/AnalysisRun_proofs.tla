------------------------- MODULE AnalysisRun_proofs -------------------------
(***************************************************************************)
(* For every set of symbols, every set of answers and any number of runs:  *)
(* the trader is informed, and sessions have the reports and the results   *)
(* of their run.  JoinInv carries the first; RowsInv and NotYetWritten     *)
(* carry the second: a result can only reach the wrong session when this   *)
(* run's own is missing, and then no session of this run is behind it.     *)
(***************************************************************************)
EXTENDS AnalysisRun, FiniteSetTheorems, SequenceTheorems, TLAPS

-----------------------------------------------------------------------------
(* The decisions *)

Decided == [action : Known \cup {"invalid"}, sized : BOOLEAN]

\* A decision has an action that is known, or is invalid.
LEMMA DecisionType ==
    ASSUME NEW action, NEW sized \in BOOLEAN
    PROVE  Decision(action, sized) \in Decided
BY Zenon DEF Decision, Decided

\* Whichever way an answer is read, every symbol gets a decision.
LEMMA ParsedType ==
    ASSUME NEW k, NEW a
    PROVE  Parsed(k, a) \subseteq [Symbols -> Decided]
<1>1. Default \in Decided
  BY DecisionType, Zenon DEF Default
<1>2. SimpleDecision \in [Symbols -> Decided]
  BY <1>1, Zenon DEF SimpleDecision
<1>3. FromJSON(a) \in [Symbols -> Decided]
  <2>1. \A s \in Symbols : Decision(CHOOSE x \in Named(a, s) : TRUE, TRUE) \in Decided
    BY DecisionType, Zenon
  <2> QED BY <1>1, <2>1, Zenon DEF FromJSON
<1>4. \A s \in Symbols : FoundInText(a, s) \subseteq Decided
  <2> SUFFICES ASSUME NEW s \in Symbols, NEW d \in FoundInText(a, s)
               PROVE  d \in Decided
    OBVIOUS
  <2>1. CASE d = Default
    BY <1>1, <2>1
  <2>2. CASE d # Default
    <3>1. PICK x \in Extracted(Block(a, s)), y \in BOOLEAN : d = Decision(x, y)
      BY <2>2 DEF FoundInText
    <3> QED BY <3>1, DecisionType, Zenon
  <2> QED BY <2>1, <2>2
<1>5. ASSUME NEW f \in [Symbols -> UNION {FoundInText(a, s) : s \in Symbols}],
             \A s \in Symbols : f[s] \in FoundInText(a, s)
      PROVE  f \in [Symbols -> Decided]
  BY <1>4, <1>5
<1> QED
  BY <1>2, <1>3, <1>5, Zenon DEF Parsed

\* The outcome of a decision is its action or a failure.
LEMMA OutcomeType ==
    ASSUME NEW d \in Decided
    PROVE  Outcomes(d) \subseteq Known \cup {"invalid", "failed"}
BY DEF Outcomes, Decided, Known, TradeActions, Opening, Closing

-----------------------------------------------------------------------------
(* The initial states *)

\* The initial states satisfy the invariant.
LEMMA InitAnalysisInv == Init => AnalysisInv
<1> SUFFICES ASSUME Init PROVE AnalysisInv
  OBVIOUS
<1>1. Default \in Decided
  BY DecisionType, Zenon DEF Default
<1>2. TypeOK
  <2>1. /\ run \in 0..MaxRuns /\ phase \in Phases /\ started \subseteq Nodes
        /\ todo \in [Analysts -> SUBSET Symbols] /\ positions \in [Symbols -> 0..MaxRuns]
        /\ reports \in [Symbols -> [market : 0..MaxRuns, crypto : 0..MaxRuns, sentiment : 0..MaxRuns]]
    BY AnalysisAssumption DEF Init, Phases, NoReport
  <2>2. /\ answer \in Answers \cup {NoAnswer} /\ kept \in {"none", "simple", "answer"}
        /\ decisions \in [Symbols -> Decided] /\ left \subseteq Symbols
        /\ results \in [Symbols -> Known \cup {"none", "invalid", "failed"}]
    BY <1>1, Zenon DEF Init, Fresh
  <2>3. sessions \in [Symbols -> Seq(Row)]
    <3>1. <<>> \in Seq(Row)
      BY EmptySeq
    <3> QED BY <3>1, Zenon DEF Init
  <2> QED BY <2>1, <2>2, <2>3 DEF TypeOK, Decided
<1>3. JoinInv
  BY DEF Init, JoinInv
<1>4. RowsInv /\ NotYetWritten /\ SessionsAreCurrent /\ ResultOfItsRun
  BY DEF Init, RowsInv, NotYetWritten, SessionsAreCurrent, ResultOfItsRun
<1>5. DecisionInv
  BY DEF Init, Fresh, DecisionInv
<1> QED BY <1>2, <1>3, <1>4, <1>5 DEF AnalysisInv

-----------------------------------------------------------------------------
(* Types *)

\* The variables of the graph, which the loops leave alone, and the others.
GraphType ==
    /\ run \in 0..MaxRuns
    /\ phase \in Phases
    /\ started \subseteq Nodes
    /\ todo \in [Analysts -> SUBSET Symbols]
    /\ reports \in [Symbols -> [market : 0..MaxRuns, crypto : 0..MaxRuns, sentiment : 0..MaxRuns]]
    /\ positions \in [Symbols -> 0..MaxRuns]

DecisionsType ==
    /\ answer \in Answers \cup {NoAnswer}
    /\ kept \in {"none", "simple", "answer"}
    /\ decisions \in [Symbols -> Decided]
    /\ left \subseteq Symbols
    /\ results \in [Symbols -> Known \cup {"none", "invalid", "failed"}]

SessionsType == sessions \in [Symbols -> Seq(Row)]

LEMMA TypeParts == TypeOK <=> GraphType /\ DecisionsType /\ SessionsType
BY DEF TypeOK, GraphType, DecisionsType, SessionsType, Decided

\* A step of the graph or of a loop keeps the types of the graph's variables.
LEMMA GraphTypeStep == TypeOK /\ [Next]_vars => GraphType'
<1> SUFFICES ASSUME GraphType, [Next]_vars PROVE GraphType'
  BY TypeParts
<1> USE AnalysisAssumption DEF GraphType
<1>1. CASE StartRun
  BY <1>1 DEF StartRun, Begin, NoReport, Phases
<1>2. ASSUME NEW n \in Nodes, StartNode(n) PROVE GraphType'
  BY <1>2 DEF StartNode
<1>3. CASE AnalyseSentiment
  BY <1>3 DEF AnalyseSentiment, Finish
<1>4. ASSUME NEW s \in Symbols, AnalyseMarket(s) \/ AnalyseCrypto(s) \/ DescribePosition(s)
      PROVE GraphType'
  BY <1>4 DEF AnalyseMarket, AnalyseCrypto, DescribePosition, Finish
<1>5. ASSUME NEW a \in Answers, Decide(a) PROVE GraphType'
  BY <1>5 DEF Decide, graph, Phases
<1>6. ASSUME NEW s \in Symbols, SaveSession(s) \/ Execute(s) \/ RecordExecution(s)
      PROVE GraphType'
  BY <1>6 DEF SaveSession, Execute, RecordExecution, InLoop, graph
<1>7. CASE StartTrading \/ StartRecording \/ EndRun
  BY <1>7 DEF StartTrading, StartRecording, EndRun, NextLoop, graph, Phases
<1>8. CASE Crash
  BY <1>8 DEF Crash, graph, Phases
<1>9. CASE UNCHANGED vars
  BY <1>9 DEF vars, graph
<1> QED
  BY <1>1, <1>2, <1>3, <1>4, <1>5, <1>6, <1>7, <1>8, <1>9 DEF Next, InGraph, AfterGraph

\* Every step keeps the types of the answer and of what is made of it.
LEMMA DecisionsTypeStep == TypeOK /\ [Next]_vars => DecisionsType'
<1> SUFFICES ASSUME DecisionsType, [Next]_vars PROVE DecisionsType'
  BY TypeParts
<1> USE DEF DecisionsType
<1>1. CASE StartRun
  <2>1. Default \in Decided
    BY DecisionType, Zenon DEF Default
  <2> QED BY <1>1, <2>1, Zenon DEF StartRun, Begin, Fresh
<1>2. ASSUME NEW n \in Nodes, StartNode(n) PROVE DecisionsType'
  BY <1>2 DEF StartNode
<1>3. ASSUME NEW s \in Symbols,
             AnalyseSentiment \/ AnalyseMarket(s) \/ AnalyseCrypto(s) \/ DescribePosition(s)
      PROVE DecisionsType'
  BY <1>3 DEF AnalyseSentiment, AnalyseMarket, AnalyseCrypto, DescribePosition, Finish
<1>4. ASSUME NEW a \in Answers, Decide(a) PROVE DecisionsType'
  BY <1>4 DEF Decide, Kept
<1>5. ASSUME NEW s \in Symbols, SaveSession(s) \/ RecordExecution(s) PROVE DecisionsType'
  BY <1>5 DEF SaveSession, RecordExecution, InLoop
<1>6. ASSUME NEW s \in Symbols, Execute(s) PROVE DecisionsType'
  <2>1. \A outcome \in Outcomes(decisions[s]) : outcome \in Known \cup {"invalid", "failed"}
    BY OutcomeType
  <2> QED BY <1>6, <2>1 DEF Execute, InLoop
<1>7. CASE StartTrading
  <2>1. decisions' \in [Symbols -> Decided]
    BY <1>7, ParsedType, Zenon DEF StartTrading
  <2> QED BY <1>7, <2>1 DEF StartTrading, NextLoop
<1>8. CASE StartRecording \/ EndRun
  BY <1>8 DEF StartRecording, EndRun, NextLoop
<1>9. CASE Crash \/ UNCHANGED vars
  BY <1>9 DEF Crash, vars
<1>10. Symbols # {}
  BY AnalysisAssumption
<1> QED
  BY <1>1, <1>2, <1>3, <1>4, <1>5, <1>6, <1>7, <1>8, <1>9, <1>10 DEF Next, InGraph, AfterGraph

\* What SaveSession adds, and what RecordExecution overwrites, are rows.
LEMMA SavedRows ==
    ASSUME AnalysisInv, NEW s \in Symbols, SaveSession(s)
    PROVE  /\ run' = run /\ phase = "save" /\ phase' = "save" /\ s \in left
           /\ left' = left \ {s}
           /\ SessionsType'
           /\ \A u \in Symbols : u # s => sessions'[u] = sessions[u]
           /\ \/ sessions'[s] = sessions[s]
              \/ /\ Len(sessions'[s]) = Len(sessions[s]) + 1
                 /\ \A i \in DOMAIN sessions[s] : sessions'[s][i] = sessions[s][i]
                 /\ sessions'[s][Len(sessions[s]) + 1] = Session(s)
<1>1. phase = "save" /\ phase' = "save" /\ run' = run /\ s \in left /\ left' = left \ {s}
  BY DEF SaveSession, InLoop
<1>2. Session(s) \in Row
  <2>1. run \in 1..MaxRuns
    BY <1>1, AnalysisAssumption DEF AnalysisInv, TypeOK, JoinInv
  <2> QED BY <2>1, AnalysisAssumption DEF AnalysisInv, TypeOK, Session, Row
<1>3. sessions \in [Symbols -> Seq(Row)]
  BY DEF AnalysisInv, TypeOK
<1>4. CASE UNCHANGED sessions
  BY <1>1, <1>3, <1>4 DEF SessionsType
<1>5. CASE sessions' = [sessions EXCEPT ![s] = Append(@, Session(s))]
  <2>1. Append(sessions[s], Session(s)) \in Seq(Row)
    BY <1>2, <1>3
  <2> QED BY <1>1, <1>2, <1>3, <1>5, <2>1 DEF SessionsType
<1> QED BY <1>4, <1>5 DEF SaveSession

LEMMA RecordedRows ==
    ASSUME AnalysisInv, NEW s \in Symbols, RecordExecution(s)
    PROVE  /\ run' = run /\ phase = "record" /\ phase' = "record"
           /\ SessionsType'
           /\ \A u \in Symbols : u # s => sessions'[u] = sessions[u]
           /\ \/ sessions'[s] = sessions[s]
              \/ /\ Len(sessions'[s]) = Len(sessions[s]) /\ Len(sessions[s]) > 0
                 /\ \A i \in DOMAIN sessions[s] :
                       /\ i # Len(sessions[s]) => sessions'[s][i] = sessions[s][i]
                       /\ sessions'[s][i].run = sessions[s][i].run
                       /\ sessions'[s][i].market = sessions[s][i].market
                 /\ sessions'[s][Len(sessions[s])].result = run
<1>1. phase = "record" /\ phase' = "record" /\ run' = run
  BY DEF RecordExecution, InLoop
<1>2. sessions \in [Symbols -> Seq(Row)] /\ run \in 0..MaxRuns
  BY DEF AnalysisInv, TypeOK
<1>3. CASE UNCHANGED sessions
  BY <1>1, <1>2, <1>3 DEF SessionsType
<1>4. CASE /\ sessions[s] # <<>>
           /\ sessions' = [sessions EXCEPT ![s][Latest(sessions[s])].result = run]
  <2> DEFINE rows == sessions[s]
             last == Len(rows)
             row == [rows[last] EXCEPT !.result = run]
  <2>1. rows \in Seq(Row) /\ last \in Nat \ {0} /\ last \in DOMAIN rows
    BY <1>2, <1>4, EmptySeq
  <2>2. rows[last] \in Row
    BY <2>1, ElementOfSeq
  <2>3. row \in Row /\ row.run = rows[last].run /\ row.market = rows[last].market
        /\ row.result = run
    BY <1>2, <2>2 DEF Row
  <2>4. [rows EXCEPT ![last] = row] \in Seq(Row)
    BY <2>1, <2>3, ExceptSeq
  <2>5. Len([rows EXCEPT ![last] = row]) = last
    BY <2>1, <2>3, ExceptSeq
  <2>6. sessions' = [sessions EXCEPT ![s] = [rows EXCEPT ![last] = row]]
    BY <1>4 DEF Latest
  <2>7. sessions'[s] = [rows EXCEPT ![last] = row]
    BY <1>2, <2>6
  <2>8. \A u \in Symbols : u # s => sessions'[u] = sessions[u]
    BY <1>2, <2>6
  <2>9. sessions' \in [Symbols -> Seq(Row)]
    BY <1>2, <2>4, <2>6
  <2>10. \A i \in DOMAIN rows : sessions'[s][i] = IF i = last THEN row ELSE rows[i]
    BY <2>7
  <2> HIDE DEF rows, row
  <2>11. Len(sessions'[s]) = last
    BY <2>5, <2>7
  <2> QED BY <1>1, <2>1, <2>3, <2>8, <2>9, <2>10, <2>11 DEF SessionsType, rows
<1> QED BY <1>3, <1>4 DEF RecordExecution

\* The other steps do not touch the sessions.
LEMMA OtherSteps ==
    ASSUME [Next]_vars,
           \A s \in Symbols : ~SaveSession(s) /\ ~RecordExecution(s)
    PROVE  UNCHANGED sessions
<1>1. CASE StartRun \/ Crash \/ UNCHANGED vars
  BY <1>1 DEF StartRun, Begin, Crash, vars
<1>2. CASE InGraph
  BY <1>2 DEF InGraph, StartNode, AnalyseSentiment, AnalyseMarket, AnalyseCrypto, DescribePosition,
              Finish, Decide
<1>3. CASE AfterGraph
  BY <1>3 DEF AfterGraph, Execute, StartTrading, StartRecording, EndRun, NextLoop
<1> QED BY <1>1, <1>2, <1>3 DEF Next

\* Every step keeps every type.
LEMMA TypeStep == AnalysisInv /\ [Next]_vars => TypeOK'
<1> SUFFICES ASSUME AnalysisInv, [Next]_vars PROVE TypeOK'
  OBVIOUS
<1>1. TypeOK
  BY DEF AnalysisInv
<1>2. GraphType' /\ DecisionsType'
  BY <1>1, GraphTypeStep, DecisionsTypeStep
<1>3. SessionsType'
  <2>1. CASE \E s \in Symbols : SaveSession(s) \/ RecordExecution(s)
    BY <2>1, SavedRows, RecordedRows
  <2>2. CASE \A s \in Symbols : ~SaveSession(s) /\ ~RecordExecution(s)
    BY <1>1, <2>2, OtherSteps DEF TypeOK, SessionsType
  <2> QED BY <2>1, <2>2
<1> QED
  BY <1>2, <1>3 DEF TypeOK, GraphType, DecisionsType, SessionsType, Decided

-----------------------------------------------------------------------------
(* The join *)

\* A node starts only after the ones it needs, and what is written stays.
LEMMA JoinStep == AnalysisInv /\ [Next]_vars => JoinInv'
<1> SUFFICES ASSUME TypeOK, JoinInv, [Next]_vars PROVE JoinInv'
  BY DEF AnalysisInv
<1> USE DEF JoinInv, Finished
<1>1. CASE StartRun
  BY <1>1, AnalysisAssumption DEF TypeOK, StartRun, Begin, NoReport
<1>2. ASSUME NEW n \in Nodes, StartNode(n) PROVE JoinInv'
  <2>1. phase = "graph" /\ n \notin started /\ started' = started \cup {n}
        /\ UNCHANGED <<run, phase, todo, reports, positions>>
    BY <1>2 DEF StartNode
  <2>2. n = "position" => Finished("crypto")
    BY <1>2 DEF StartNode, Triggered, Edges, Analysts
  <2>3. n = "trader" => Finished("position") /\ Finished("sentiment")
    BY <1>2 DEF StartNode, Triggered, Edges, Analysts
  <2>4. n # "trader" => todo[n] = Symbols
    BY <2>1 DEF Nodes
  <2>5. \A m \in Analysts \ started' : todo'[m] = Symbols
    BY <2>1
  <2>6. ASSUME NEW s \in Symbols
        PROVE  /\ "crypto" \in started' /\ s \notin todo'["crypto"] => reports'[s].crypto = run'
               /\ "sentiment" \in started' /\ s \notin todo'["sentiment"] =>
                     reports'[s].sentiment = run'
               /\ "position" \in started' /\ s \notin todo'["position"] => positions'[s] = run'
               /\ reports'[s].market \in {0, run'}
    BY <2>1, <2>4
  <2>7. "position" \in started' => Finished("crypto")'
    BY <2>1, <2>2
  <2>8. "trader" \in started' => Finished("position")' /\ Finished("sentiment")'
    BY <2>1, <2>3
  <2>9. phase' = "graph" /\ run' > 0
    BY <2>1
  <2> QED BY <2>5, <2>6, <2>7, <2>8, <2>9
<1>3. CASE AnalyseSentiment
  BY <1>3 DEF AnalyseSentiment, Finish, TypeOK, Analysts
<1>4. ASSUME NEW s \in Symbols, AnalyseMarket(s) PROVE JoinInv'
  <2>1. /\ phase = "graph" /\ "market" \in started
        /\ todo' = [todo EXCEPT !["market"] = @ \ {s}]
        /\ UNCHANGED <<run, phase, started, positions>>
    BY <1>4 DEF AnalyseMarket, Finish
  <2>2. \A n \in Analysts : n # "market" => todo'[n] = todo[n]
    BY <2>1 DEF TypeOK
  <2>3. \A u \in Symbols : /\ reports'[u].crypto = reports[u].crypto
                           /\ reports'[u].sentiment = reports[u].sentiment
                           /\ reports'[u].market \in {reports[u].market, run}
    <3>1. CASE reports' = [reports EXCEPT ![s].market = run]
      BY <3>1 DEF TypeOK
    <3>2. CASE UNCHANGED reports
      BY <3>2
    <3> QED BY <1>4, <3>1, <3>2 DEF AnalyseMarket
  <2> QED BY <2>1, <2>2, <2>3 DEF Analysts
<1>5. ASSUME NEW s \in Symbols, AnalyseCrypto(s) PROVE JoinInv'
  BY <1>5 DEF AnalyseCrypto, Finish, TypeOK, Analysts
<1>6. ASSUME NEW s \in Symbols, DescribePosition(s) PROVE JoinInv'
  BY <1>6 DEF DescribePosition, Finish, TypeOK, Analysts
<1>7. ASSUME NEW a \in Answers, Decide(a) PROVE JoinInv'
  BY <1>7 DEF Decide, graph
<1>8. ASSUME NEW s \in Symbols, SaveSession(s) \/ Execute(s) \/ RecordExecution(s) PROVE JoinInv'
  BY <1>8 DEF SaveSession, Execute, RecordExecution, InLoop, graph
<1>9. CASE StartTrading \/ StartRecording \/ EndRun
  BY <1>9 DEF StartTrading, StartRecording, EndRun, NextLoop, graph
<1>10. CASE Crash \/ UNCHANGED vars
  BY <1>10 DEF Crash, vars, graph
<1> QED
  BY <1>1, <1>2, <1>3, <1>4, <1>5, <1>6, <1>7, <1>8, <1>9, <1>10 DEF Next, InGraph, AfterGraph

\* What the trader relies on follows from the join.
LEMMA JoinInforms == JoinInv => TraderInformed
BY DEF JoinInv, TraderInformed, Finished

-----------------------------------------------------------------------------
(* What is asked and what is done *)

\* Every step keeps the chain from the answer to the results.
LEMMA DecisionStep == AnalysisInv /\ [Next]_vars => DecisionInv'
<1> SUFFICES ASSUME TypeOK, DecisionInv, [Next]_vars PROVE DecisionInv'
  BY DEF AnalysisInv
<1> USE DEF DecisionInv
<1>1. CASE StartRun
  BY <1>1 DEF StartRun, Begin, Fresh
<1>2. ASSUME NEW n \in Nodes, StartNode(n) PROVE DecisionInv'
  BY <1>2 DEF StartNode
<1>3. ASSUME NEW s \in Symbols,
             AnalyseSentiment \/ AnalyseMarket(s) \/ AnalyseCrypto(s) \/ DescribePosition(s)
      PROVE DecisionInv'
  BY <1>3 DEF AnalyseSentiment, AnalyseMarket, AnalyseCrypto, DescribePosition, Finish
<1>4. ASSUME NEW a \in Answers, Decide(a) PROVE DecisionInv'
  BY <1>4 DEF Decide
<1>5. ASSUME NEW s \in Symbols, SaveSession(s) \/ RecordExecution(s) PROVE DecisionInv'
  BY <1>5 DEF SaveSession, RecordExecution, InLoop
<1>6. ASSUME NEW s \in Symbols, Execute(s) PROVE DecisionInv'
  <2>1. PICK outcome \in Outcomes(decisions[s]) : results' = [results EXCEPT ![s] = outcome]
    BY <1>6 DEF Execute
  <2>2. outcome # "none"
    BY <2>1, OutcomeType DEF TypeOK, Decided, Known, TradeActions, Opening, Closing
  <2>3. /\ phase = "trade" /\ phase' = "trade" /\ left' = left \ {s}
        /\ UNCHANGED <<answer, kept, decisions>>
    BY <1>6 DEF Execute, InLoop
  <2> QED BY <2>1, <2>2, <2>3 DEF TypeOK
<1>7. CASE StartTrading
  <2>1. /\ phase = "save" /\ phase' \in {"trade", "idle"} /\ left' = Symbols
        /\ UNCHANGED <<answer, kept, results>>
    BY <1>7 DEF StartTrading, NextLoop
  <2>2. phase' = "trade" => decisions' \in Parsed(kept, answer)
    BY <1>7 DEF StartTrading, NextLoop
  <2> QED BY <2>1, <2>2
<1>8. CASE StartRecording \/ EndRun
  BY <1>8 DEF StartRecording, EndRun, NextLoop
<1>9. CASE Crash \/ UNCHANGED vars
  BY <1>9 DEF Crash, vars
<1>10. Symbols # {}
  BY AnalysisAssumption
<1> QED
  BY <1>1, <1>2, <1>3, <1>4, <1>5, <1>6, <1>7, <1>8, <1>9, <1>10 DEF Next, InGraph, AfterGraph

\* A trade is reported only when it was decided.
LEMMA TradeIsDecided ==
    ASSUME DecisionInv, NEW s \in Symbols,
           phase \in {"trade", "record"}, results[s] \in TradeActions
    PROVE  decisions[s].action = results[s]
BY DEF DecisionInv, Outcomes, TradeActions, Opening, Closing

\* Nothing is traded by default.
LEMMA DefaultHolds == Default.action = "HOLD" /\ "HOLD" \notin TradeActions
BY DEF Default, Decision, Known, TradeActions, Opening, Closing

\* What the text of an answer yields for a symbol is mentioned in the answer.
LEMMA BlockMentioned ==
    ASSUME IsAnswer(answer), NEW s \in Symbols, Named(answer, s) # {}
    PROVE  Block(answer, s) \subseteq Mentioned
<1> DEFINE from == CHOOSE i \in DOMAIN answer.entries : answer.entries[i].symbol = s
           to == IF answer.block = "own" THEN from ELSE Len(answer.entries)
<1>1. DOMAIN answer.entries = 1..Len(answer.entries) /\ Len(answer.entries) \in Nat
  BY DEF IsAnswer
<1>2. from \in DOMAIN answer.entries
  BY DEF Named
<1> HIDE DEF from
<1>3. from..to \subseteq DOMAIN answer.entries
  <2>1. from \in 1..Len(answer.entries) /\ (to = from \/ to = Len(answer.entries))
    BY <1>1, <1>2
  <2> HIDE DEF to
  <2> QED BY <1>1, <2>1
<1> HIDE DEF to
<1>4. Block(answer, s) =
        UNION {{answer.entries[i].action} \cup answer.entries[i].words : i \in from..to}
  BY DEF Block, from, to
<1> QED BY <1>3, <1>4 DEF Mentioned

\* Trades come from usable answers and from what they mention.
LEMMA DecidedIsAsked == TypeOK /\ DecisionInv => TradesWereAsked
<1> SUFFICES ASSUME TypeOK, DecisionInv, NEW s \in Symbols,
                    phase \in {"trade", "record"}, results[s] \in TradeActions
             PROVE  /\ answer.form \in {"map", "object"}
                    /\ results[s] \in (IF answer.fenced THEN Mentioned ELSE Named(answer, s))
  BY DEF TradesWereAsked
<1>1. decisions[s].action = results[s]
  BY TradeIsDecided
<1>2. decisions \in Parsed(kept, answer) /\ kept \in Kept(answer)
  BY DEF DecisionInv
<1>3. decisions[s] # Default
  BY <1>1, DefaultHolds
<1>4. kept # "simple"
  BY <1>2, <1>3 DEF Parsed, SimpleDecision
<1>5. IsAnswer(answer) /\ answer.form \in {"map", "object"}
  <2>1. answer.form \notin {"error", "text"}
    BY <1>2, <1>4 DEF Kept
  <2>2. answer # NoAnswer
    BY <2>1 DEF NoAnswer
  <2>3. IsAnswer(answer)
    BY <2>2, AnalysisAssumption DEF TypeOK
  <2> QED BY <2>1, <2>3 DEF IsAnswer
<1>6. CASE ~answer.fenced
  <2>1. decisions = FromJSON(answer)
    BY <1>2, <1>4, <1>5, <1>6 DEF Parsed
  <2>2. /\ Named(answer, s) # {}
        /\ decisions[s] = Decision(CHOOSE a \in Named(answer, s) : TRUE, TRUE)
    BY <1>3, <2>1 DEF FromJSON
  <2>3. (CHOOSE a \in Named(answer, s) : TRUE) \in Named(answer, s)
    BY <2>2
  <2>4. "invalid" \notin TradeActions
    BY DEF TradeActions, Opening, Closing
  <2>5. decisions[s].action = CHOOSE a \in Named(answer, s) : TRUE
    BY <1>1, <2>2, <2>4 DEF Decision
  <2> QED BY <1>1, <1>5, <1>6, <2>3, <2>5
<1>7. CASE answer.fenced
  <2>1. decisions[s] \in FoundInText(answer, s)
    BY <1>2, <1>4, <1>7 DEF Parsed
  <2>2. Named(answer, s) # {}
    BY <1>3, <2>1 DEF FoundInText
  <2>3. PICK a \in Extracted(Block(answer, s)), sized \in BOOLEAN : decisions[s] = Decision(a, sized)
    BY <1>3, <2>1 DEF FoundInText
  <2>4. a = decisions[s].action /\ a # "invalid"
    BY <1>1, <2>3 DEF Decision, TradeActions, Opening, Closing
  <2>5. a \in Block(answer, s)
    BY <2>3, <2>4 DEF Extracted
  <2> QED BY <1>1, <1>5, <1>7, <2>2, <2>4, <2>5, BlockMentioned
<1> QED BY <1>5, <1>6, <1>7

-----------------------------------------------------------------------------
(* The sessions *)

\* The invariants about the rows.
RowsOK == RowsInv /\ NotYetWritten /\ SessionsAreCurrent /\ ResultOfItsRun

\* A row holds numbers.
LEMMA RowNumbers ==
    ASSUME TypeOK
    PROVE  /\ run \in Nat
           /\ \A s \in Symbols : \A i \in DOMAIN sessions[s] :
                 sessions[s][i].run \in Nat /\ sessions[s][i].result \in Nat
<1>1. ASSUME NEW s \in Symbols, NEW i \in DOMAIN sessions[s] PROVE sessions[s][i] \in Row
  <2>1. sessions[s] \in Seq(Row) /\ DOMAIN sessions[s] = 1..Len(sessions[s])
    BY DEF TypeOK
  <2> QED BY <2>1, ElementOfSeq
<1>2. \A row \in Row : row.run \in Nat /\ row.result \in Nat
  BY AnalysisAssumption DEF Row
<1>3. run \in Nat
  BY AnalysisAssumption DEF TypeOK
<1> QED BY <1>1, <1>2, <1>3

\* A row is appended when no session has this run's result.
LEMMA SaveKeepsRows ==
    ASSUME AnalysisInv, NEW s \in Symbols, SaveSession(s)
    PROVE  RowsOK'
<1> DEFINE n == Len(sessions[s])
<1>1. TypeOK /\ RowsInv /\ NotYetWritten /\ SessionsAreCurrent /\ ResultOfItsRun
  BY DEF AnalysisInv
<1>2. /\ run' = run /\ phase = "save" /\ phase' = "save" /\ s \in left /\ left' = left \ {s}
      /\ \A u \in Symbols : u # s => sessions'[u] = sessions[u]
      /\ \/ sessions'[s] = sessions[s]
         \/ /\ Len(sessions'[s]) = n + 1
            /\ \A i \in DOMAIN sessions[s] : sessions'[s][i] = sessions[s][i]
            /\ sessions'[s][n + 1] = Session(s)
  BY SavedRows
<1>3. CASE sessions'[s] = sessions[s]
  <2>1. \A u \in Symbols : sessions'[u] = sessions[u]
    BY <1>2, <1>3
  <2> QED
    BY <1>1, <1>2, <2>1 DEF RowsOK, RowsInv, NotYetWritten, SessionsAreCurrent, ResultOfItsRun
<1>4. CASE sessions'[s] # sessions[s]
  <2>1. Len(sessions'[s]) = n + 1 /\ n \in Nat /\ DOMAIN sessions[s] = 1..n
        /\ DOMAIN sessions'[s] = 1..(n + 1)
    BY <1>1, <1>2, <1>4, SavedRows DEF TypeOK, SessionsType
  <2>2. \A i \in 1..n : sessions'[s][i] = sessions[s][i]
    BY <1>2, <1>4, <2>1
  <2>3. LET row == sessions'[s][n + 1]
        IN  row.run = run /\ row.result = 0 /\ row.market \in {0, run}
    BY <1>1, <1>2, <1>4 DEF Session, AnalysisInv, JoinInv
  <2>4. \A i \in 1..n : sessions[s][i].run < run /\ sessions[s][i].result < run
    BY <1>1, <1>2, <2>1 DEF NotYetWritten
  <2>5. run \in Nat /\ run > 0
    BY <1>1, <1>2, AnalysisAssumption DEF TypeOK, AnalysisInv, JoinInv
  <2>6. \A i \in 1..(n + 1) : i \in 1..n \/ i = n + 1
    BY <2>1
  <2> HIDE DEF n
  <2>7. RowsInv'
    <3>1. \A i \in 1..(n + 1) : sessions'[s][i].run <= run /\ sessions'[s][i].result <= run
      <4>1. \A i \in 1..n : sessions[s][i].run \in Nat /\ sessions[s][i].result \in Nat
        BY <1>1, <2>1, RowNumbers
      <4> QED BY <2>2, <2>3, <2>4, <2>5, <2>6, <4>1
    <3>2. \A i, j \in 1..(n + 1) : i < j => sessions'[s][i].run < sessions'[s][j].run
      <4>1. \A i, j \in 1..n : i < j => sessions[s][i].run < sessions[s][j].run
        BY <1>1, <2>1 DEF RowsInv
      <4> QED BY <2>1, <2>2, <2>3, <2>4, <2>6, <4>1
    <3> QED BY <1>1, <1>2, <2>1, <3>1, <3>2 DEF RowsInv
  <2>8. NotYetWritten'
    BY <1>1, <1>2, <2>1, <2>2, <2>3, <2>4, <2>5, <2>6 DEF NotYetWritten
  <2>9. SessionsAreCurrent'
    BY <1>1, <1>2, <2>1, <2>2, <2>3, <2>5, <2>6 DEF SessionsAreCurrent
  <2>10. ResultOfItsRun'
    BY <1>1, <1>2, <2>1, <2>2, <2>3, <2>4, <2>5, <2>6 DEF ResultOfItsRun
  <2> QED BY <2>7, <2>8, <2>9, <2>10 DEF RowsOK
<1> QED BY <1>3, <1>4

\* Only the last row changes: when it is not this run's, none is.
LEMMA RecordKeepsRows ==
    ASSUME AnalysisInv, NEW s \in Symbols, RecordExecution(s)
    PROVE  RowsOK'
<1> DEFINE n == Len(sessions[s])
<1>1. TypeOK /\ RowsInv /\ NotYetWritten /\ SessionsAreCurrent /\ ResultOfItsRun
  BY DEF AnalysisInv
<1>2. /\ run' = run /\ phase = "record" /\ phase' = "record"
      /\ \A u \in Symbols : u # s => sessions'[u] = sessions[u]
      /\ \/ sessions'[s] = sessions[s]
         \/ /\ Len(sessions'[s]) = n /\ n > 0
            /\ \A i \in DOMAIN sessions[s] :
                  /\ i # n => sessions'[s][i] = sessions[s][i]
                  /\ sessions'[s][i].run = sessions[s][i].run
                  /\ sessions'[s][i].market = sessions[s][i].market
            /\ sessions'[s][n].result = run
  BY RecordedRows
<1>3. CASE sessions'[s] = sessions[s]
  <2>1. \A u \in Symbols : sessions'[u] = sessions[u]
    BY <1>2, <1>3
  <2> QED
    BY <1>1, <1>2, <2>1 DEF RowsOK, RowsInv, NotYetWritten, SessionsAreCurrent, ResultOfItsRun
<1>4. CASE sessions'[s] # sessions[s]
  <2>1. n \in Nat /\ DOMAIN sessions[s] = 1..n /\ DOMAIN sessions'[s] = 1..n
    BY <1>1, <1>2, <1>4, RecordedRows DEF TypeOK, SessionsType
  <2>2. \A i \in 1..n :
           /\ i # n => sessions'[s][i] = sessions[s][i]
           /\ sessions'[s][i].run = sessions[s][i].run
           /\ sessions'[s][i].market = sessions[s][i].market
    BY <1>2, <1>4, <2>1
  <2>3. sessions'[s][n].result = run /\ n \in 1..n
    BY <1>2, <1>4, <2>1
  <2>4. run \in Nat /\ \A i \in 1..n : sessions[s][i].run \in Nat
    BY <1>1, <2>1, RowNumbers
  <2> HIDE DEF n
  <2>5. RowsInv'
    BY <1>1, <1>2, <2>1, <2>2, <2>3, <2>4 DEF RowsInv
  <2>6. NotYetWritten'
    BY <1>1, <1>2, <2>1, <2>2 DEF NotYetWritten
  <2>7. SessionsAreCurrent'
    BY <1>1, <1>2, <2>1, <2>2 DEF SessionsAreCurrent
  <2>8. \A i \in 1..n : sessions[s][i].run <= sessions[s][n].run /\ sessions[s][n].run <= run
    BY <1>1, <2>1, <2>3, <2>4 DEF RowsInv
  <2> DEFINE Own(i, rows) == rows[i].result \notin {0, rows[i].run} =>
                 /\ rows[i].result > rows[i].run
                 /\ \A j \in DOMAIN rows : rows[j].run # rows[i].result
  <2>9. Own(n, sessions'[s])
    BY <2>1, <2>2, <2>3, <2>4, <2>8
  <2>10. ASSUME NEW i \in 1..n, i # n
         PROVE  Own(i, sessions'[s])
    <3>1. Own(i, sessions[s])
      BY <1>1, <2>1 DEF ResultOfItsRun
    <3>2. \A j \in 1..n : sessions'[s][j].run = sessions[s][j].run
      BY <2>2
    <3>3. sessions'[s][i] = sessions[s][i]
      BY <2>2, <2>10
    <3> QED BY <2>1, <3>1, <3>2, <3>3
  <2>11. \A u \in Symbols : u # s => \A i \in DOMAIN sessions'[u] : Own(i, sessions'[u])
    BY <1>1, <1>2 DEF ResultOfItsRun
  <2>12. \A u \in Symbols : \A i \in DOMAIN sessions'[u] : Own(i, sessions'[u])
    BY <2>1, <2>9, <2>10, <2>11
  <2>13. ResultOfItsRun'
    BY <2>12, Zenon DEF ResultOfItsRun
  <2> QED BY <2>5, <2>6, <2>7, <2>13 DEF RowsOK
<1> QED BY <1>3, <1>4

\* A step that leaves the sessions alone starts a run or goes on with one.
LEMMA OtherStepsKeepRows ==
    ASSUME AnalysisInv, [Next]_vars,
           \A s \in Symbols : ~SaveSession(s) /\ ~RecordExecution(s)
    PROVE  RowsOK'
<1>1. TypeOK /\ RowsInv /\ NotYetWritten /\ SessionsAreCurrent /\ ResultOfItsRun
  BY DEF AnalysisInv
<1>2. sessions' = sessions
  BY OtherSteps
<1>3. /\ run' >= run
      /\ phase' = "graph" => phase = "graph" \/ run' > run
      /\ phase' = "save" => (phase = "save" /\ left' = left) \/ phase = "graph"
      /\ phase' = "trade" => phase \in {"save", "trade"}
  <2>1. run \in Nat
    BY <1>1, AnalysisAssumption DEF TypeOK
  <2>2. CASE StartRun
    BY <2>1, <2>2 DEF StartRun, Begin
  <2>3. CASE InGraph
    BY <2>1, <2>3 DEF InGraph, StartNode, AnalyseSentiment, AnalyseMarket, AnalyseCrypto,
                      DescribePosition, Finish, Decide
  <2>4. CASE AfterGraph
    BY <2>1, <2>4 DEF AfterGraph, Execute, InLoop, StartTrading, StartRecording, EndRun, NextLoop
  <2>5. CASE Crash \/ UNCHANGED vars
    BY <2>1, <2>5 DEF Crash, vars
  <2> QED BY <2>2, <2>3, <2>4, <2>5 DEF Next
<1>4. RowsInv' /\ NotYetWritten'
  <2>1. \A s \in Symbols : \A i \in DOMAIN sessions[s] :
           sessions[s][i].run \in Nat /\ sessions[s][i].result \in Nat
    BY <1>1, RowNumbers
  <2>2. run \in Nat /\ run' \in Nat
    BY <1>1, GraphTypeStep, AnalysisAssumption DEF TypeOK, GraphType
  <2> QED BY <1>1, <1>2, <1>3, <2>1, <2>2 DEF RowsInv, NotYetWritten
<1>5. SessionsAreCurrent' /\ ResultOfItsRun'
  BY <1>1, <1>2 DEF SessionsAreCurrent, ResultOfItsRun
<1> QED BY <1>4, <1>5 DEF RowsOK

-----------------------------------------------------------------------------
(* The theorems *)

\* The invariant of the analysis run is inductive.
THEOREM AnalysisInvariance == Spec => []AnalysisInv
<1>1. AnalysisInv /\ [Next]_vars => AnalysisInv'
  <2> SUFFICES ASSUME AnalysisInv, [Next]_vars PROVE AnalysisInv'
    OBVIOUS
  <2>1. TypeOK' /\ DecisionInv' /\ JoinInv'
    BY TypeStep, DecisionStep, JoinStep
  <2>2. RowsOK'
    BY SaveKeepsRows, RecordKeepsRows, OtherStepsKeepRows
  <2> QED BY <2>1, <2>2 DEF AnalysisInv, RowsOK
<1> QED BY <1>1, InitAnalysisInv, PTL DEF Spec

\* Every variable of AnalysisRun keeps its type.
THEOREM AnalysisTypeCorrect == Spec => []TypeOK
<1>1. AnalysisInv => TypeOK
  BY DEF AnalysisInv
<1> QED BY <1>1, AnalysisInvariance, PTL

\* The trader asks the model only about reports that this run has completed.
THEOREM TraderIsInformed == Spec => []TraderInformed
<1>1. AnalysisInv => TraderInformed
  BY JoinInforms DEF AnalysisInv
<1> QED BY <1>1, AnalysisInvariance, PTL

\* No session has the market report of an earlier run.
THEOREM ReportsAreCurrent == Spec => []SessionsAreCurrent
<1>1. AnalysisInv => SessionsAreCurrent
  BY DEF AnalysisInv
<1> QED BY <1>1, AnalysisInvariance, PTL

\* The result of a run reaches another run's session only when its own was not
\* saved.
THEOREM ResultsBelong == Spec => []ResultOfItsRun
<1>1. AnalysisInv => ResultOfItsRun
  BY DEF AnalysisInv
<1> QED BY <1>1, AnalysisInvariance, PTL

\* A run without a usable answer trades nothing, and no symbol's trade is one
\* that a plain answer does not ask for it.
THEOREM TradesAreAsked == Spec => []TradesWereAsked
<1>1. AnalysisInv => TradesWereAsked
  BY DecidedIsAsked DEF AnalysisInv
<1> QED BY <1>1, AnalysisInvariance, PTL

\* The failure of one symbol does not keep the others from their result.
THEOREM AllAnswered == Spec => []EverySymbolAnswered
<1>1. AnalysisInv => EverySymbolAnswered
  BY DEF AnalysisInv, DecisionInv, EverySymbolAnswered
<1> QED BY <1>1, AnalysisInvariance, PTL

-----------------------------------------------------------------------------
(* RunLedger *)

\* A saved session is a new last row of the ledger, the first of its run.
LEMMA SaveIsSave ==
    ASSUME AnalysisInv, NEW s \in Symbols, SaveSession(s)
    PROVE  Ledger!Save(s) \/ UNCHANGED <<run, Stage, sessions>>
<1>1. phase = "save" /\ phase' = "save" /\ run' = run /\ s \in left
  BY DEF SaveSession, InLoop
<1>2. Stage = "saving" /\ Stage' = "saving"
  BY <1>1 DEF Stage
<1>3. CASE UNCHANGED sessions
  BY <1>1, <1>2, <1>3
<1>4. CASE sessions' = [sessions EXCEPT ![s] = Append(@, Session(s))]
  <2>1. \A i \in DOMAIN sessions[s] : sessions[s][i].run # run
    <3>1. \A i \in DOMAIN sessions[s] : sessions[s][i].run < run
      BY <1>1 DEF AnalysisInv, NotYetWritten
    <3> QED BY <3>1, RowNumbers DEF AnalysisInv
  <2>2. reports[s].market \in {0, run}
    BY <1>1 DEF AnalysisInv, JoinInv
  <2> QED BY <1>1, <1>2, <1>4, <2>1, <2>2 DEF Ledger!Save, Session
<1> QED BY <1>3, <1>4 DEF SaveSession

\* A recorded execution goes into the last row.
LEMMA RecordIsRecord ==
    ASSUME NEW s \in Symbols, RecordExecution(s)
    PROVE  Ledger!Record(s) \/ UNCHANGED <<run, Stage, sessions>>
<1>1. phase = "record" /\ phase' = "record" /\ run' = run
  BY DEF RecordExecution, InLoop
<1>2. Stage = "recording" /\ Stage' = "recording"
  BY <1>1 DEF Stage
<1> QED BY <1>1, <1>2 DEF RecordExecution, Ledger!Record, Latest

\* The other steps are a stage of the ledger or nothing to it.
LEMMA OthersGoOn ==
    ASSUME AnalysisInv, [Next]_vars,
           \A s \in Symbols : ~SaveSession(s) /\ ~RecordExecution(s)
    PROVE  [Ledger!Begin \/ Ledger!GoOn \/ Ledger!End]_<<run, Stage, sessions>>
<1>1. sessions' = sessions /\ phase \in Phases
  BY OtherSteps DEF AnalysisInv, TypeOK
<1>2. CASE StartRun
  BY <1>1, <1>2 DEF StartRun, Begin, Stage, Ledger!Begin
<1>3. CASE InGraph
  BY <1>1, <1>3 DEF InGraph, StartNode, AnalyseSentiment, AnalyseMarket, AnalyseCrypto,
                    DescribePosition, Finish, Decide, Stage
<1>4. CASE AfterGraph
  <2>1. ASSUME NEW s \in Symbols, Execute(s) PROVE UNCHANGED <<run, Stage, sessions>>
    BY <1>1, <2>1 DEF Execute, InLoop, Stage
  <2>2. CASE StartTrading
    BY <1>1, <2>2 DEF StartTrading, NextLoop, Stage, Ledger!GoOn, Ledger!End
  <2>3. CASE StartRecording
    BY <1>1, <2>3 DEF StartRecording, NextLoop, Stage, Ledger!GoOn
  <2>4. CASE EndRun
    BY <1>1, <2>4 DEF EndRun, NextLoop, Stage, Ledger!End
  <2> QED BY <1>4, <2>1, <2>2, <2>3, <2>4 DEF AfterGraph
<1>5. CASE Crash
  BY <1>1, <1>5 DEF Crash, Phases, Stage, Ledger!End
<1>6. CASE UNCHANGED vars
  BY <1>6 DEF vars, Stage
<1> QED BY <1>2, <1>3, <1>4, <1>5, <1>6 DEF Next

\* However runs fail and wherever they are killed, the stored sessions are
\* written as the ledger says.
THEOREM SessionsAreLedger == Spec => LedgerSpec
<1>1. Init => Ledger!Init
  BY DEF Init, Ledger!Init, Stage
<1>2. AnalysisInv /\ [Next]_vars => [Ledger!Next]_Ledger!ledgerVars
  <2> SUFFICES ASSUME AnalysisInv, [Next]_vars PROVE [Ledger!Next]_Ledger!ledgerVars
    OBVIOUS
  <2>1. CASE \E s \in Symbols : SaveSession(s) \/ RecordExecution(s)
    BY <2>1, SaveIsSave, RecordIsRecord DEF Ledger!Next, Ledger!ledgerVars
  <2>2. CASE \A s \in Symbols : ~SaveSession(s) /\ ~RecordExecution(s)
    BY <2>2, OthersGoOn DEF Ledger!Next, Ledger!ledgerVars
  <2> QED BY <2>1, <2>2
<1> QED
  BY <1>1, <1>2, AnalysisInvariance, PTL DEF Spec, LedgerSpec, Ledger!LedgerSpec

-----------------------------------------------------------------------------
(* The length of a run *)

\* A proper part of a finite set is smaller.
LEMMA Smaller ==
    ASSUME NEW S, IsFiniteSet(S), NEW T, T \subseteq S
    PROVE  /\ Cardinality(S) \in Nat /\ Cardinality(T) \in Nat
           /\ Cardinality(T) <= Cardinality(S)
           /\ T # S => Cardinality(T) < Cardinality(S)
<1>1. /\ IsFiniteSet(T) /\ Cardinality(T) <= Cardinality(S)
      /\ Cardinality(S) = Cardinality(T) => S = T
  BY FS_Subset
<1>2. Cardinality(S) \in Nat /\ Cardinality(T) \in Nat
  BY <1>1, FS_CardinalityType
<1> QED BY <1>1, <1>2

\* The counts of a run are counts.
LEMMA RunCounts ==
    ASSUME TypeOK
    PROVE  /\ Loop \in Nat /\ Pending \in Nat
           /\ Cardinality(left) \in Nat /\ Cardinality(left) < Loop
           /\ IsFiniteSet(left)
           /\ IsFiniteSet(Nodes \ started) /\ Cardinality(Nodes \ started) \in Nat
           /\ \A n \in Analysts : IsFiniteSet(todo[n]) /\ Cardinality(todo[n]) \in Nat
<1>1. IsFiniteSet(Symbols)
  BY AnalysisAssumption
<1>2. left \subseteq Symbols /\ \A n \in Analysts : todo[n] \subseteq Symbols
  BY DEF TypeOK
<1>3. Cardinality(left) \in Nat /\ Cardinality(left) < Loop /\ Loop \in Nat
  BY <1>1, <1>2, Smaller DEF Loop
<1>4. IsFiniteSet(left) /\ \A n \in Analysts : IsFiniteSet(todo[n])
  BY <1>1, <1>2, FS_Subset
<1>5. \A n \in Analysts : Cardinality(todo[n]) \in Nat
  BY <1>4, FS_CardinalityType
<1>6. Pending \in Nat
  BY <1>5 DEF Pending, Analysts
<1>7. IsFiniteSet(Nodes)
  <2>1. IsFiniteSet({"market", "sentiment", "crypto", "position", "trader"})
    <3>1. IsFiniteSet({})
      BY FS_EmptySet
    <3>2. IsFiniteSet({} \cup {"market"})
      BY <3>1, FS_AddElement
    <3>3. IsFiniteSet({} \cup {"market"} \cup {"sentiment"})
      BY <3>2, FS_AddElement
    <3>4. IsFiniteSet({} \cup {"market"} \cup {"sentiment"} \cup {"crypto"})
      BY <3>3, FS_AddElement
    <3>5. IsFiniteSet({} \cup {"market"} \cup {"sentiment"} \cup {"crypto"} \cup {"position"})
      BY <3>4, FS_AddElement
    <3>6. IsFiniteSet({} \cup {"market"} \cup {"sentiment"} \cup {"crypto"} \cup {"position"}
                        \cup {"trader"})
      BY <3>5, FS_AddElement
    <3>7. {} \cup {"market"} \cup {"sentiment"} \cup {"crypto"} \cup {"position"} \cup {"trader"}
            = {"market", "sentiment", "crypto", "position", "trader"}
      OBVIOUS
    <3> QED BY <3>6, <3>7
  <2>2. Nodes = {"market", "sentiment", "crypto", "position", "trader"}
    BY DEF Nodes, Analysts
  <2> QED BY <2>1, <2>2
<1>8. IsFiniteSet(Nodes \ started) /\ Cardinality(Nodes \ started) \in Nat
  BY <1>7, FS_Subset, FS_CardinalityType
<1> QED BY <1>3, <1>4, <1>5, <1>6, <1>8

\* A goroutine that ends is one less to wait for.
LEMMA FinishShrinks ==
    ASSUME TypeOK, TypeOK', NEW n \in Analysts, NEW symbols, Finish(n, symbols)
    PROVE  Remaining' < Remaining
<1>1. /\ phase = "graph" /\ phase' = "graph" /\ started' = started
      /\ symbols \subseteq todo[n] /\ symbols # {}
      /\ todo' = [todo EXCEPT ![n] = @ \ symbols]
  BY DEF Finish
<1>2. /\ todo'[n] = todo[n] \ symbols
      /\ \A m \in Analysts : m # n => todo'[m] = todo[m]
  BY <1>1 DEF TypeOK
<1>3. Cardinality(todo'[n]) < Cardinality(todo[n])
  <2>1. IsFiniteSet(todo[n])
    BY RunCounts
  <2>2. todo'[n] \subseteq todo[n] /\ todo'[n] # todo[n]
    BY <1>1, <1>2
  <2> QED BY <2>1, <2>2, Smaller
<1>4. \A m \in Analysts : Cardinality(todo[m]) \in Nat /\ Cardinality(todo'[m]) \in Nat
  <2>1. \A m \in Analysts : IsFiniteSet(todo[m]) /\ Cardinality(todo[m]) \in Nat
    BY RunCounts
  <2>2. Cardinality(todo'[n]) \in Nat
    BY <1>2, <2>1, FS_Subset, FS_CardinalityType
  <2> QED BY <1>2, <2>1, <2>2
<1>5. Pending' < Pending /\ Pending \in Nat /\ Pending' \in Nat
  BY <1>2, <1>3, <1>4 DEF Pending, Analysts
<1>6. Cardinality(Nodes \ started) \in Nat /\ Loop \in Nat
  BY RunCounts
<1>7. /\ Remaining = Cardinality(Nodes \ started) + Pending + 1 + 3 * Loop
      /\ Remaining' = Cardinality(Nodes \ started) + Pending' + 1 + 3 * Loop
  BY <1>1 DEF Remaining, Loop
<1> HIDE DEF Pending, Loop
<1> QED BY <1>5, <1>6, <1>7

\* A symbol that is done, or a loop that is, leaves less of the run.
LEMMA LoopShrinks ==
    ASSUME TypeOK, AfterGraph
    PROVE  Remaining' < Remaining
<1> DEFINE n == Cardinality(left)
<1>1. n \in Nat /\ n < Loop /\ Loop \in Nat /\ IsFiniteSet(left) /\ left \subseteq Symbols
  BY RunCounts DEF TypeOK
<1>2. ASSUME NEW s \in Symbols, SaveSession(s) \/ Execute(s) \/ RecordExecution(s)
      PROVE Remaining' < Remaining
  <2>1. /\ phase \in {"save", "trade", "record"} /\ phase' = phase
        /\ s \in left /\ left' = left \ {s}
    BY <1>2 DEF SaveSession, Execute, RecordExecution, InLoop
  <2>2. Cardinality(left') < n /\ Cardinality(left') \in Nat
    BY <1>1, <2>1, Smaller
  <2>3. /\ phase = "save" => /\ Remaining = n + 1 + 2 * Loop
                             /\ Remaining' = Cardinality(left') + 1 + 2 * Loop
        /\ phase = "trade" => /\ Remaining = n + 1 + Loop
                              /\ Remaining' = Cardinality(left') + 1 + Loop
        /\ phase = "record" => /\ Remaining = n + 1
                               /\ Remaining' = Cardinality(left') + 1
    BY <2>1 DEF Remaining, Loop
  <2> HIDE DEF n
  <2> QED BY <1>1, <2>1, <2>2, <2>3
<1>3. ASSUME StartTrading \/ StartRecording \/ EndRun PROVE Remaining' < Remaining
  <2>1. left = {} /\ left' = Symbols
    BY <1>3 DEF StartTrading, StartRecording, EndRun, NextLoop
  <2>2. n = 0
    BY <2>1, FS_EmptySet
  <2>3. \/ phase = "save" /\ phase' \in {"trade", "idle"}
        \/ phase = "trade" /\ phase' = "record"
        \/ phase = "record" /\ phase' = "idle"
    BY <1>3 DEF StartTrading, StartRecording, EndRun, NextLoop
  <2>4. Cardinality(left') + 1 = Loop
    BY <2>1 DEF Loop
  <2>5. /\ phase = "save" => Remaining = n + 1 + 2 * Loop
        /\ phase = "trade" => Remaining = n + 1 + Loop
        /\ phase = "record" => Remaining = n + 1
    BY DEF Remaining
  <2>6. /\ phase' = "trade" => Remaining' = Cardinality(left') + 1 + Loop
        /\ phase' = "record" => Remaining' = Cardinality(left') + 1
        /\ phase' = "idle" => Remaining' = 0
    BY DEF Remaining, Loop
  <2> HIDE DEF n
  <2> DEFINE m == Cardinality(left')
  <2>7. m + 1 = Loop
    BY <2>4
  <2> HIDE DEF m
  <2> QED BY <1>1, <2>2, <2>3, <2>5, <2>6, <2>7 DEF m
<1> QED BY <1>2, <1>3 DEF AfterGraph

\* No run goes on for ever: every step of it is one of those it had left.
THEOREM RunsComeToAnEnd == Spec => RunsShrink
<1>1. AnalysisInv /\ AnalysisInv' /\ [Next]_vars => [phase # "idle" => Remaining' < Remaining]_vars
  <2> SUFFICES ASSUME TypeOK, TypeOK', Next, phase # "idle" PROVE Remaining' < Remaining
    BY DEF AnalysisInv
  <2>1. /\ Loop \in Nat /\ Pending \in Nat
        /\ Cardinality(left) \in Nat /\ Cardinality(left) < Loop
        /\ Cardinality(Nodes \ started) \in Nat /\ IsFiniteSet(Nodes \ started)
    BY RunCounts
  <2>2. CASE StartRun
    BY <2>2 DEF StartRun, Begin
  <2>3. ASSUME NEW n \in Nodes, StartNode(n) PROVE Remaining' < Remaining
    <3>1. /\ phase = "graph" /\ phase' = "graph" /\ n \notin started
          /\ started' = started \cup {n} /\ todo' = todo
      BY <2>3 DEF StartNode
    <3>2. /\ Cardinality(Nodes \ started') < Cardinality(Nodes \ started)
          /\ Cardinality(Nodes \ started') \in Nat
      BY <2>1, <3>1, Smaller
    <3>3. /\ Remaining = Cardinality(Nodes \ started) + Pending + 1 + 3 * Loop
          /\ Remaining' = Cardinality(Nodes \ started') + Pending + 1 + 3 * Loop
      BY <3>1 DEF Remaining, Pending, Loop
    <3> HIDE DEF Pending, Loop
    <3> QED BY <2>1, <3>2, <3>3
  <2>4. CASE AnalyseSentiment
    BY <2>4, FinishShrinks DEF AnalyseSentiment, Analysts
  <2>5. ASSUME NEW s \in Symbols, AnalyseMarket(s) \/ AnalyseCrypto(s) \/ DescribePosition(s)
        PROVE  Remaining' < Remaining
    BY <2>5, FinishShrinks DEF AnalyseMarket, AnalyseCrypto, DescribePosition, Analysts
  <2>6. ASSUME NEW a \in Answers, Decide(a) PROVE Remaining' < Remaining
    <3>1. phase = "graph" /\ phase' = "save" /\ left' = Symbols
      BY <2>6 DEF Decide
    <3>2. /\ Remaining = Cardinality(Nodes \ started) + Pending + 1 + 3 * Loop
          /\ Remaining' = Cardinality(Symbols) + 1 + 2 * Loop
      BY <3>1 DEF Remaining, Loop
    <3>3. Remaining' = 3 * Loop
      BY <2>1, <3>2, AnalysisAssumption, FS_CardinalityType DEF Loop
    <3> HIDE DEF Pending, Loop
    <3> QED BY <2>1, <3>2, <3>3
  <2>7. CASE AfterGraph
    BY <2>7, LoopShrinks
  <2>8. CASE Crash
    <3>1. phase' = "idle" /\ Remaining' = 0
      BY <2>8 DEF Crash, Remaining
    <3>2. Remaining > 0
      BY <2>1 DEF Remaining, TypeOK, Phases
    <3> QED BY <3>1, <3>2
  <2> QED BY <2>2, <2>3, <2>4, <2>5, <2>6, <2>7, <2>8 DEF Next, InGraph
<1> QED BY <1>1, AnalysisInvariance, PTL DEF Spec, RunsShrink

-----------------------------------------------------------------------------
(* What the fences do *)

\* An answer that both readers understand alike: without fences, or with a
\* block of its own for every symbol, where the reasoning names no other trade,
\* or with blocks that are not found.
ReadAlike(a) ==
    \/ ~a.fenced
    \/ a.block = "none"
    \/ /\ a.block = "own"
       /\ \A i \in DOMAIN a.entries : a.entries[i].words \cap TradeActions \subseteq {a.entries[i].action}

\* The search is the only cause of the trades that nobody asked for: when no
\* answer is misread, what is executed for a symbol is what the answer asks.
THEOREM OnlyFencesMislead ==
    ASSUME \A a \in Answers : ReadAlike(a)
    PROVE  Spec => []ActsAsAnswered
<1>1. AnalysisInv => ActsAsAnswered
  <2> SUFFICES ASSUME TypeOK, DecisionInv, NEW s \in Symbols,
                      phase \in {"trade", "record"}, results[s] \in TradeActions
               PROVE  results[s] \in Named(answer, s)
    BY DEF AnalysisInv, ActsAsAnswered
  <2>1. answer.form \in {"map", "object"} /\ (~answer.fenced => results[s] \in Named(answer, s))
    BY DecidedIsAsked DEF TradesWereAsked
  <2>2. IsAnswer(answer) /\ ReadAlike(answer)
    <3>1. answer # NoAnswer
      BY <2>1 DEF NoAnswer
    <3> QED BY <3>1, AnalysisAssumption DEF TypeOK
  <2>3. CASE answer.fenced
    <3>1. decisions[s].action = results[s]
      BY TradeIsDecided
    <3>2. decisions \in Parsed(kept, answer)
      BY DEF DecisionInv
    <3>3. decisions[s] # Default
      BY <3>1, DefaultHolds
    <3>4. decisions[s] \in FoundInText(answer, s)
      BY <2>3, <3>2, <3>3 DEF Parsed, SimpleDecision
    <3>5. Named(answer, s) # {} /\ answer.block # "none"
      BY <3>3, <3>4 DEF FoundInText
    <3>6. PICK a \in Extracted(Block(answer, s)), sized \in BOOLEAN :
             decisions[s] = Decision(a, sized)
      BY <3>3, <3>4 DEF FoundInText
    <3>7. a = results[s] /\ a # "invalid"
      BY <3>1, <3>6 DEF Decision, TradeActions, Opening, Closing
    <3>8. results[s] \in Block(answer, s)
      BY <3>6, <3>7 DEF Extracted
    <3> DEFINE from == CHOOSE i \in DOMAIN answer.entries : answer.entries[i].symbol = s
    <3>9. from \in DOMAIN answer.entries /\ answer.entries[from].symbol = s
      BY <3>5 DEF Named
    <3>10. from..from = {from}
      BY <2>2, <3>9 DEF IsAnswer
    <3>11. Block(answer, s) =
             UNION {{answer.entries[i].action} \cup answer.entries[i].words : i \in from..from}
      BY <2>2, <2>3, <3>5 DEF ReadAlike, Block
    <3> HIDE DEF from
    <3>12. Block(answer, s) = {answer.entries[from].action} \cup answer.entries[from].words
      BY <3>10, <3>11
    <3>13. answer.entries[from].words \cap TradeActions \subseteq {answer.entries[from].action}
      BY <2>2, <2>3, <3>5, <3>9 DEF ReadAlike
    <3>14. results[s] = answer.entries[from].action
      BY <3>8, <3>12, <3>13
    <3> QED BY <3>9, <3>14 DEF Named
  <2> QED BY <2>1, <2>2, <2>3 DEF IsAnswer
<1> QED BY <1>1, AnalysisInvariance, PTL

-----------------------------------------------------------------------------
(* Without failed saves, and without AUTO_EXECUTE *)

\* A saved session is the last of its symbol until the run has ended.
LEMMA LastStep ==
    ASSUME "save" \notin Faults, AnalysisInv, LastIsOwn, [Next]_vars
    PROVE  LastIsOwn'
<1> DEFINE Own(rows, r) == rows # <<>> /\ rows[Len(rows)].run = r
<1>1. ASSUME NEW s \in Symbols, SaveSession(s) PROVE LastIsOwn'
  <2>1. /\ run' = run /\ phase = "save" /\ phase' = "save" /\ left' = left \ {s}
        /\ \A u \in Symbols : u # s => sessions'[u] = sessions[u]
    BY <1>1, SavedRows
  <2>2. sessions'[s] = Append(sessions[s], Session(s)) /\ sessions[s] \in Seq(Row)
    BY <1>1 DEF SaveSession, AnalysisInv, TypeOK
  <2>3. Session(s) \in [run : Int, market : Int, result : Int] /\ Session(s).run = run
    BY <2>1, AnalysisAssumption DEF Session, AnalysisInv, TypeOK
  <2>4. Own(sessions'[s], run')
    BY <2>1, <2>2, <2>3
  <2>5. \A u \in Symbols : u # s /\ u \notin left' => Own(sessions'[u], run')
    BY <2>1 DEF LastIsOwn, Latest
  <2> HIDE DEF Own
  <2>6. \A u \in Symbols : u \notin left' => Own(sessions'[u], run')
    BY <2>4, <2>5
  <2> QED BY <2>1, <2>6 DEF LastIsOwn, Latest, Own
<1>2. ASSUME NEW s \in Symbols, RecordExecution(s) PROVE LastIsOwn'
  <2>1. /\ run' = run /\ phase = "record" /\ phase' = "record"
        /\ \A u \in Symbols : u # s => sessions'[u] = sessions[u]
    BY <1>2, RecordedRows
  <2>2. \A u \in Symbols : Own(sessions[u], run)
    BY <2>1 DEF LastIsOwn, Latest
  <2>3. Own(sessions'[s], run)
    <3>1. CASE sessions'[s] = sessions[s]
      BY <2>2, <3>1
    <3>2. CASE sessions'[s] # sessions[s]
      <4>1. /\ Len(sessions'[s]) = Len(sessions[s]) /\ Len(sessions[s]) > 0
            /\ \A i \in DOMAIN sessions[s] : sessions'[s][i].run = sessions[s][i].run
        BY <1>2, <3>2, RecordedRows
      <4>2. sessions[s] \in Seq(Row) /\ sessions'[s] \in Seq(Row)
        BY <1>2, RecordedRows DEF AnalysisInv, TypeOK, SessionsType
      <4>3. Len(sessions[s]) \in DOMAIN sessions[s]
        BY <4>1, <4>2
      <4>4. sessions'[s] # <<>>
        BY <4>1, <4>2, EmptySeq
      <4> QED BY <2>2, <4>1, <4>3, <4>4
    <3> QED BY <3>1, <3>2
  <2> HIDE DEF Own
  <2>4. \A u \in Symbols : Own(sessions'[u], run')
    BY <2>1, <2>2, <2>3
  <2> QED BY <2>4 DEF LastIsOwn, Latest, Own
<1>3. ASSUME \A s \in Symbols : ~SaveSession(s) /\ ~RecordExecution(s) PROVE LastIsOwn'
  <2>1. sessions' = sessions
    BY <1>3, OtherSteps
  <2>2. \/ phase' \in {"idle", "graph"}
        \/ phase' = "save" /\ left' = Symbols
        \/ run' = run /\ phase' = phase /\ left' = left
        \/ run' = run /\ phase \in {"save", "trade"} /\ phase' \in {"trade", "record"} /\ left = {}
        \/ run' = run /\ phase = "trade" /\ phase' = "trade"
    <3>1. CASE StartRun \/ Crash
      BY <3>1 DEF StartRun, Begin, Crash
    <3>2. CASE InGraph
      BY <3>2 DEF InGraph, StartNode, AnalyseSentiment, AnalyseMarket, AnalyseCrypto,
                  DescribePosition, Finish, Decide
    <3>3. CASE AfterGraph
      BY <1>3, <3>3 DEF AfterGraph, Execute, InLoop, StartTrading, StartRecording, EndRun, NextLoop
    <3>4. CASE UNCHANGED vars
      BY <3>4 DEF vars
    <3> QED BY <3>1, <3>2, <3>3, <3>4 DEF Next
  <2> QED BY <2>1, <2>2 DEF LastIsOwn
<1> QED BY <1>1, <1>2, <1>3

\* A failed save is the only way for a result into the session of another run.
THEOREM OnlyFailedSavesMislead ==
    ASSUME "save" \notin Faults
    PROVE  Spec => []OwnResults
<1>1. Init => LastIsOwn /\ OwnResults
  BY DEF Init, LastIsOwn, OwnResults
<1>2. AnalysisInv /\ LastIsOwn /\ OwnResults /\ [Next]_vars => LastIsOwn' /\ OwnResults'
  <2> SUFFICES ASSUME AnalysisInv, LastIsOwn, OwnResults, [Next]_vars PROVE OwnResults'
    BY LastStep
  <2>1. ASSUME NEW s \in Symbols, SaveSession(s) PROVE OwnResults'
    <3>1. /\ \A u \in Symbols : u # s => sessions'[u] = sessions[u]
          /\ \/ sessions'[s] = sessions[s]
             \/ /\ Len(sessions'[s]) = Len(sessions[s]) + 1
                /\ \A i \in DOMAIN sessions[s] : sessions'[s][i] = sessions[s][i]
                /\ sessions'[s][Len(sessions[s]) + 1] = Session(s)
      BY <2>1, SavedRows
    <3>2. sessions[s] \in Seq(Row) /\ sessions'[s] \in Seq(Row)
      BY <2>1, SavedRows DEF AnalysisInv, TypeOK, SessionsType
    <3>3. Session(s).result = 0
      BY DEF Session
    <3>4. \A i \in DOMAIN sessions'[s] : sessions'[s][i].result \in {0, sessions'[s][i].run}
      <4>1. CASE sessions'[s] = sessions[s]
        BY <4>1 DEF OwnResults
      <4>2. CASE sessions'[s] # sessions[s]
        <5>1. \A i \in DOMAIN sessions'[s] : i \in DOMAIN sessions[s] \/ i = Len(sessions[s]) + 1
          BY <3>1, <3>2, <4>2
        <5> QED BY <3>1, <3>3, <4>2, <5>1 DEF OwnResults
      <4> QED BY <4>1, <4>2
    <3> QED BY <3>1, <3>4 DEF OwnResults
  <2>2. ASSUME NEW s \in Symbols, RecordExecution(s) PROVE OwnResults'
    <3> DEFINE n == Len(sessions[s])
    <3>1. /\ run' = run /\ phase = "record"
          /\ \A u \in Symbols : u # s => sessions'[u] = sessions[u]
          /\ \/ sessions'[s] = sessions[s]
             \/ /\ Len(sessions'[s]) = n /\ n > 0
                /\ \A i \in DOMAIN sessions[s] :
                      /\ i # n => sessions'[s][i] = sessions[s][i]
                      /\ sessions'[s][i].run = sessions[s][i].run
                /\ sessions'[s][n].result = run
      BY <2>2, RecordedRows
    <3>2. sessions[s] \in Seq(Row) /\ sessions'[s] \in Seq(Row)
      BY <2>2, RecordedRows DEF AnalysisInv, TypeOK, SessionsType
    <3>3. sessions[s][n].run = run
      BY <3>1 DEF LastIsOwn, Latest
    <3>4. \A i \in DOMAIN sessions'[s] : sessions'[s][i].result \in {0, sessions'[s][i].run}
      <4>1. CASE sessions'[s] = sessions[s]
        BY <4>1 DEF OwnResults
      <4>2. CASE sessions'[s] # sessions[s]
        <5>1. DOMAIN sessions'[s] = DOMAIN sessions[s]
          BY <3>1, <3>2, <4>2
        <5>2. n \in DOMAIN sessions[s]
          BY <3>1, <3>2, <4>2
        <5> HIDE DEF n
        <5> QED BY <3>1, <3>3, <4>2, <5>1, <5>2 DEF OwnResults
      <4> QED BY <4>1, <4>2
    <3> QED BY <3>1, <3>4 DEF OwnResults
  <2>3. ASSUME \A s \in Symbols : ~SaveSession(s) /\ ~RecordExecution(s) PROVE OwnResults'
    BY <2>3, OtherSteps DEF OwnResults
  <2> QED BY <2>1, <2>2, <2>3
<1> QED BY <1>1, <1>2, AnalysisInvariance, PTL DEF Spec

\* Without AUTO_EXECUTE no decision is ever executed, whatever the model says.
THEOREM OnlyAutoTrades ==
    ASSUME ~AutoExecute
    PROVE  Spec => []NothingExecuted
<1> DEFINE Inv == NothingExecuted /\ phase \notin {"trade", "record"}
<1>1. Init => Inv
  BY DEF Init, Fresh, NothingExecuted
<1>2. Inv /\ [Next]_vars => Inv'
  <2> SUFFICES ASSUME Inv, [Next]_vars PROVE Inv'
    OBVIOUS
  <2>1. CASE StartRun
    BY <2>1 DEF StartRun, Begin, Fresh, NothingExecuted
  <2>2. CASE InGraph
    BY <2>2 DEF InGraph, StartNode, AnalyseSentiment, AnalyseMarket, AnalyseCrypto,
                DescribePosition, Finish, Decide, NothingExecuted
  <2>3. CASE AfterGraph
    BY <2>3 DEF AfterGraph, SaveSession, Execute, RecordExecution, InLoop,
                StartTrading, StartRecording, EndRun, NextLoop, NothingExecuted
  <2>4. CASE Crash \/ UNCHANGED vars
    BY <2>4 DEF Crash, vars, NothingExecuted
  <2> QED BY <2>1, <2>2, <2>3, <2>4 DEF Next
<1>3. Inv => NothingExecuted
  OBVIOUS
<1> QED BY <1>1, <1>2, <1>3, PTL DEF Spec
=============================================================================
