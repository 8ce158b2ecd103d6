------------------------------ MODULE AiPipeline ------------------------------
(***************************************************************************)
(* One analysis after the other (src/ai): the worker of the task queue     *)
(* polls the tweets and the news, each a rolling window of what was seen,  *)
(* builds a prompt, asks a language model with retries, and applies the    *)
(* deltas it answers to the parameters of every strategy, clamped twice.   *)
(* Only then the result is shown to the dashboard.                         *)
(*                                                                         *)
(* Of a message only its identity matters, of a reply of the model what    *)
(* the client finds in it.                                                 *)
(***************************************************************************)
EXTENDS Integers, Sequences, SequencesExt

CONSTANTS
  Messages,       \* tweets and articles, by their id or URL
  Malformed,      \* a tweet whose id is no string, an article without title
  feeds_enabled,  \* the feeds with a key and something to search: "twitter", "news"
  max_window,     \* maxTweets and maxArticles
  max_shown,      \* messages of a feed that go into the prompt
  maxRetries,
  allParams,      \* the strategies, the first one is shown to the model
  ParamNames,     \* the parameters, in the order they are applied
  m_bounds,       \* parameter -> its max_delta, hard_min, hard_max
  Configured,     \* strategy -> parameter -> value at the start
  Answers,        \* the deltas a model may answer: functions from some parameters
  MaxBatch,       \* bound of a run: messages a feed answers at once
  MaxCycles       \* bound of a run: analyses

Params == ToSet(ParamNames)
Strategies == ToSet(allParams)

ASSUME PipelineAssumption ==
  /\ Malformed \notin Messages
  /\ feeds_enabled \subseteq {"twitter", "news"}
  /\ {max_window, max_shown, maxRetries, MaxBatch, MaxCycles} \subseteq Nat
  /\ allParams \in Seq(Strategies) \ {<< >>} /\ IsInjective(allParams)
  /\ ParamNames \in Seq(Params) \ {<< >>} /\ IsInjective(ParamNames)
  /\ m_bounds \in [Params -> [max_delta : Nat, hard_min : Int, hard_max : Int]]
  /\ \A p \in Params : m_bounds[p].hard_min <= m_bounds[p].hard_max
  /\ Configured \in [Strategies -> [Params -> Int]]
  /\ \A answer \in Answers : \A p \in DOMAIN answer : answer[p] \in Int

VARIABLES
  provider,      \* configured, of the news: "newsapi" or "cryptopanic"
  backend,       \* configured, of the model: "openai" or "claude"
  step,          \* "idle", "twitter", "news", "ask", "backoff", "apply", "store"
  m_tweets,      \* the window, oldest first
  m_seenIds,
  m_articles,    \* the window, oldest first
  m_seenUrls,
  tweet_text,    \* the tweets for the next prompt
  prompt,        \* what the model is told: tweets, news and the first strategy's values
  attempt,       \* the number of the request to the model
  analysis,      \* the deltas of the current cycle
  at,            \* where the stores of the current cycle are: <<strategy, parameter>>, as indexes
  params,        \* strategy -> parameter -> value
  m_lastResult,  \* the deltas the dashboard shows, or NoResult
  cycle,         \* history: analyses begun
  before,        \* history: params when the current cycle began
  threw,         \* history: whether the last poll that got tweets threw
  failed         \* history: whether the last cycle returned an error

NoResult == "none"

config == <<provider, backend>>
windowVars == <<m_tweets, m_seenIds, m_articles, m_seenUrls, threw>>
promptVars == <<tweet_text, prompt>>
cycleVars == <<analysis, at, params, m_lastResult, cycle, before, failed>>
pipelineVars == <<config, step, windowVars, promptVars, attempt, cycleVars>>

NoDeltas == [p \in Params |-> 0]
NoPrompt == [tweets |-> << >>, news |-> << >>, values |-> NoDeltas]

AnalysisInit ==
  /\ provider \in {"newsapi", "cryptopanic"}
  /\ backend \in {"openai", "claude"}
  /\ step = "idle"
  /\ m_tweets = << >> /\ m_seenIds = {}
  /\ m_articles = << >> /\ m_seenUrls = {}
  /\ tweet_text = << >>
  /\ prompt = NoPrompt
  /\ attempt = 0
  /\ analysis = NoDeltas
  /\ at = <<1, 1>>
  /\ params = Configured
  /\ m_lastResult = NoResult
  /\ cycle = 0
  /\ before = Configured
  /\ threw = FALSE /\ failed = FALSE

\* A task of the queue runs the pipeline.
run ==
  /\ step = "idle" /\ cycle < MaxCycles
  /\ step' = "twitter"
  /\ cycle' = cycle + 1
  /\ before' = params
  /\ prompt' = NoPrompt
  /\ failed' = FALSE
  /\ UNCHANGED <<config, windowVars, tweet_text, attempt, analysis, at, params, m_lastResult>>

-----------------------------------------------------------------------------
(* The feeds                                                               *)

\* What a feed may answer: an array of messages in some order, or nothing it can use.
Batches == BoundedSeq(Messages \cup {Malformed}, MaxBatch)
NoAnswer == [array |-> "none", batch |-> << >>]

\* A feed that is not enabled, or has no key, is not asked.
TwitterAnswers ==
  {NoAnswer} \cup IF "twitter" \in feeds_enabled THEN [array : {"data"}, batch : Batches] ELSE {}

NewsAnswers ==
  {NoAnswer} \cup
    IF "news" \in feeds_enabled THEN [array : {"articles", "results"}, batch : Batches] ELSE {}

\* The new messages of a batch: well formed, not seen before, and each once.
\* new[n] are those of the first n.
Unseen(batch, known) ==
  LET new[n \in 0 .. Len(batch)] ==
        IF n = 0 THEN << >>
        ELSE IF batch[n] \in known \cup {Malformed} \cup ToSet(new[n - 1]) THEN new[n - 1]
        ELSE Append(new[n - 1], batch[n])
  IN  new[Len(batch)]

\* The window keeps its last messages.
Trimmed(window) ==
  IF Len(window) > max_window
  THEN SubSeq(window, Len(window) - max_window + 1, Len(window)) ELSE window

\* Fault: what leaves the window stays among the seen.
Forgotten_Never(window, known) == known

\* The ids that are known after the window was trimmed: an evicted one may come back.
Forgotten(window, known) == known \ (ToSet(window) \ ToSet(Trimmed(window)))

\* The text for the prompt: the last messages of the window.
recentText(window) ==
  SubSeq(window, IF Len(window) > max_shown THEN Len(window) - max_shown + 1 ELSE 1, Len(window))

\* One poll of the tweets.  One whose id is no string throws: the tweets before it are
\* in the window, the window is not trimmed, and the prompt gets no tweets.
pollTwitter ==
  /\ step = "twitter"
  /\ \/ /\ tweet_text' = recentText(m_tweets)
        /\ UNCHANGED windowVars
     \/ \E answer \in TwitterAnswers \ {NoAnswer} :
          LET bad    == SelectInSeq(answer.batch, LAMBDA m : m = Malformed)
              usable == IF bad = 0 THEN answer.batch ELSE SubSeq(answer.batch, 1, bad - 1)
              new    == Unseen(usable, m_seenIds)
              window == m_tweets \o new
              known  == m_seenIds \cup ToSet(new)
          IN  /\ threw' = (bad # 0)
              /\ m_tweets' = IF threw' THEN window ELSE Trimmed(window)
              /\ m_seenIds' = IF threw' THEN known ELSE Forgotten(window, known)
              /\ tweet_text' = IF threw' THEN << >> ELSE recentText(m_tweets')
              /\ UNCHANGED <<m_articles, m_seenUrls>>
  /\ step' = "news"
  /\ UNCHANGED <<config, cycleVars, prompt, attempt>>

\* Articles without URL or title are left out, whoever provides them: see Unseen.
parseNewsapi(answer) == IF answer.array = "articles" THEN answer.batch ELSE << >>

parseCryptopanic(answer) == IF answer.array = "results" THEN answer.batch ELSE << >>

\* The market data are empty in this version; the parameters are the first strategy's.
userPrompt(tweets, news) == [tweets |-> tweets, news |-> news, values |-> params[allParams[1]]]

\* One poll of the news; then the prompt is built.
pollNews ==
  /\ step = "news"
  /\ \E answer \in NewsAnswers :
       LET new    == Unseen(IF provider = "newsapi" THEN parseNewsapi(answer)
                            ELSE parseCryptopanic(answer), m_seenUrls)
           window == m_articles \o new
       IN  /\ m_articles' = Trimmed(window)
           /\ m_seenUrls' = Forgotten(window, m_seenUrls \cup ToSet(new))
  /\ step' = "ask"
  /\ attempt' = 1
  /\ prompt' = userPrompt(tweet_text, recentText(m_articles'))
  /\ UNCHANGED <<config, m_tweets, m_seenIds, threw, tweet_text, cycleVars>>

-----------------------------------------------------------------------------
(* The model                                                               *)

\* What may come back: no answer, an HTTP error, a body that is no JSON, or an answer
\* in the shape of a backend, whose content is text, other JSON, or an analysis.
Replies ==
  [kind : {"timeout", "no connection", "5xx", "4xx", "no JSON"}]
    \cup [kind : {"answer"}, shape : {"openai", "claude"},
          content : {"text", "other JSON", "analysis"}, deltas : Answers]

\* The error code of the transport, "none" for a JSON body.
curlTransport(reply) ==
  CASE reply.kind = "timeout"                 -> "AiTimeout"
    [] reply.kind \in {"no connection", "5xx"} -> "AiBackendError"
    [] reply.kind \in {"4xx", "no JSON"}       -> "AiResponseInvalid"
    [] reply.kind = "answer"                  -> "none"

\* The error code of an answer whose content was found.
from_json(content) ==
  CASE content = "text"       -> "AiResponseInvalid"
    [] content = "other JSON" -> "AiSchemaMismatch"
    [] content = "analysis"   -> "none"

parseOpenaiResponse(reply) ==
  IF reply.shape = "openai" THEN from_json(reply.content) ELSE "AiResponseInvalid"

parseClaudeResponse(reply) ==
  IF reply.shape = "claude" THEN from_json(reply.content) ELSE "AiResponseInvalid"

parseResponse(reply) ==
  IF backend = "claude" THEN parseClaudeResponse(reply) ELSE parseOpenaiResponse(reply)

\* Deltas the answer leaves out are 0.
Deltas(answer) == [p \in Params |-> IF p \in DOMAIN answer THEN answer[p] ELSE 0]

isRetryableError(code) == code \in {"AiTimeout", "AiBackendError"}

\* One request.  The errors of the transport are retried while attempts are left, the
\* errors of the answer are not; an error ends the cycle and nothing is applied.
analyze ==
  /\ step = "ask"
  /\ \E reply \in Replies :
       LET code == curlTransport(reply)
       IN  \/ /\ code # "none" /\ isRetryableError(code) /\ attempt < maxRetries + 1
              /\ step' = "backoff"
              /\ UNCHANGED <<failed, analysis, at>>
           \/ /\ code # "none" /\ ~ (isRetryableError(code) /\ attempt < maxRetries + 1)
              /\ step' = "idle"
              /\ failed' = TRUE
              /\ UNCHANGED <<analysis, at>>
           \/ /\ code = "none" /\ parseResponse(reply) # "none"
              /\ step' = "idle"
              /\ failed' = TRUE
              /\ UNCHANGED <<analysis, at>>
           \/ /\ code = "none" /\ parseResponse(reply) = "none"
              /\ analysis' = Deltas(reply.deltas)
              /\ at' = <<1, 1>>
              /\ step' = "apply"
              /\ UNCHANGED failed
  /\ UNCHANGED <<config, windowVars, promptVars, attempt, params, m_lastResult, cycle, before>>

\* Fault: the attempt is not counted.
backOff_Uncounted ==
  /\ step = "backoff"
  /\ step' = "ask"
  /\ UNCHANGED <<config, windowVars, promptVars, attempt, cycleVars>>

backOff ==
  /\ step = "backoff"
  /\ step' = "ask"
  /\ attempt' = attempt + 1
  /\ UNCHANGED <<config, windowVars, promptVars, cycleVars>>

-----------------------------------------------------------------------------
(* The parameters                                                          *)

Clamped(x, low, high) == IF x < low THEN low ELSE IF x > high THEN high ELSE x

\* Fault: only the value is clamped.
Moved_Far(value, delta, bound) == Clamped(value + delta, bound.hard_min, bound.hard_max)

\* The delta is clamped to its largest size, the value to its bounds.
Moved(value, delta, bound) ==
  Clamped(value + Clamped(delta, - bound.max_delta, bound.max_delta),
          bound.hard_min, bound.hard_max)

\* Fault: only the first strategy is told.
nextStore_First(here) ==
  IF here[2] < Len(ParamNames) THEN <<here[1], here[2] + 1>> ELSE <<Len(allParams) + 1, 1>>

\* Every strategy in turn, every parameter of it.
nextStore(here) ==
  IF here[2] < Len(ParamNames) THEN <<here[1], here[2] + 1>> ELSE <<here[1] + 1, 1>>

\* One store, which a delta of 0 skips: the strategies read the others before or after it.
applyOne ==
  /\ step = "apply" /\ at[1] <= Len(allParams)
  /\ LET s == allParams[at[1]]
         p == ParamNames[at[2]]
     IN  params' = IF analysis[p] = 0 THEN params
                   ELSE [params EXCEPT ![s][p] = Moved(params[s][p], analysis[p], m_bounds[p])]
  /\ at' = nextStore(at)
  /\ UNCHANGED <<config, step, windowVars, promptVars, attempt, analysis, m_lastResult, cycle, before,
                 failed>>

\* The result is shown when every strategy has it.
storeResult ==
  /\ step = "apply" /\ at[1] > Len(allParams)
  /\ m_lastResult' = analysis
  /\ step' = "idle"
  /\ UNCHANGED <<config, windowVars, promptVars, attempt, analysis, at, params, cycle, before, failed>>

-----------------------------------------------------------------------------
continueCycle ==
  pollTwitter \/ pollNews \/ analyze \/ backOff \/ applyOne \/ storeResult

AnalysisNext == run \/ continueCycle

\* The worker goes on, every request ends with its timeout at the latest.
AnalysisSpec ==
  AnalysisInit /\ [][AnalysisNext]_pipelineVars /\ WF_pipelineVars(continueCycle)

-----------------------------------------------------------------------------
(* Properties                                                              *)

\* A window holds each message once and knows exactly what it holds, whatever is
\* answered again, twice in one answer, or after it was evicted; it keeps to its
\* size, but for tweets after a poll that threw before it could trim them.
WindowsHoldEachOnce ==
  /\ IsInjective(m_tweets) /\ ToSet(m_tweets) = m_seenIds
  /\ IsInjective(m_articles) /\ ToSet(m_articles) = m_seenUrls
  /\ Len(m_articles) <= max_window
  /\ Len(m_tweets) > max_window => threw

\* Whatever a model answers, a cycle moves a parameter by at most its largest delta
\* and into its bounds; one configured outside of them is brought to the nearest
\* bound.  A cycle that failed moved nothing.
CyclesMoveLittle ==
  \A s \in Strategies, p \in Params :
    LET old   == before[s][p]
        new   == params[s][p]
        bound == m_bounds[p]
        start == Clamped(old, bound.hard_min, bound.hard_max)
    IN  \/ new = old
        \/ /\ ~ failed
           /\ new \in bound.hard_min .. bound.hard_max
           /\ new - start \in - bound.max_delta .. bound.max_delta

\* What the dashboard shows was applied: between cycles every strategy is where the
\* deltas of the last cycle that succeeded put it, the first one counted from the
\* values the model was shown, and strategies configured alike still agree.
PublishedIsApplied ==
  (step = "idle" /\ cycle > 0 /\ ~ failed) =>
    \A p \in Params :
      LET target(old) ==
            IF m_lastResult[p] = 0 THEN old ELSE Moved(old, m_lastResult[p], m_bounds[p])
      IN  /\ params[allParams[1]][p] = target(prompt.values[p])
          /\ \A s \in Strategies : params[s][p] = target(before[s][p])

\* Every cycle ends, with a result or an error: the retries of a request do.
CyclesEnd == (step = "ask") ~> (step = "idle")
=============================================================================
