---------------------------- MODULE AgentSession ----------------------------
(***************************************************************************)
(* One worker's agent: the runner (agent/real-runner.ts) over the shared   *)
(* runtime (agent-runtime/runtime.ts) over a session of the SDK.           *)
(*                                                                         *)
(* The pipeline calls run or resume once, continue while a fixed build is  *)
(* still red, and close.  Each call opens the session it needs, prompts    *)
(* it, and turns how the prompt ended into an answer; an answer that is no *)
(* JSON is asked for once more in the same session.  While a prompt runs,  *)
(* turns end, every subscribed monitor counts them, and a monitor whose    *)
(* limit is exceeded asks the session to abort without waiting for it: the *)
(* abort may fail, further turns may end, and the prompt may resolve or    *)
(* throw.  The turns and the end of a prompt are the SDK's moves.          *)
(*                                                                         *)
(* Texts are reduced to what the parser makes of them: "fixed" and         *)
(* "escalated" are JSON of that kind, "junk" is any other text.            *)
(***************************************************************************)
EXTENDS Naturals, FiniteSets

CONSTANTS
    Usages,          \* tokens a turn may report; a turn may also report none
    PerTurnLimit,    \* budget.perTurnTokenLimit
    TotalLimit,      \* budget.totalTokenLimit
    TurnLimit,       \* bound: turns of one prompt
    ContinueLimit    \* bound: calls of continue (maxRetry of the pipeline)

ASSUME UsagesAssumption == Usages \subseteq Nat /\ 0 \notin Usages
ASSUME LimitsAssumption == PerTurnLimit \in Nat /\ TotalLimit \in Nat
ASSUME BoundsAssumption == TurnLimit \in Nat /\ ContinueLimit \in Nat

VARIABLES
    mode,        \* WorkerTask.mode: "repair" or "resume"
    file,        \* the jsonl there is to open: "archive", "retained" or "none"
    stage,       \* what the caller waits for; "closed" and "gone" are final
    asking,      \* the prompt that runs: "task" or "json" (the re-prompt)
    session,     \* activeSession, by the file it was opened from
    undisposed,  \* sessions the SDK created and nobody disposed
    steer,       \* the session registered for steering
    prompt,      \* how many prompts were sent
    turns,       \* turns of the running prompt
    monitors,    \* the subscribed budget monitors
    aborting,    \* the session accepted an abort for the running prompt
    said,        \* the last assistant message with text, and its prompt
    answer,      \* the AgentResult of the last call
    continued,   \* how often continue was called
    overran      \* history: prompts that exceeded a limit themselves

sdk     == <<undisposed, turns, aborting, said>>
vars == <<mode, file, stage, asking, session, undisposed, steer, prompt, turns,
          monitors, aborting, said, answer, continued, overran>>

Texts    == {"", "fixed", "escalated", "junk"}
Sessions == {"none", "fresh", "archive", "retained"}

\* The prompts of a call are at most two, so the last number is used once.
LastPrompt == 2 * (ContinueLimit + 1)
Prompts    == 0 .. LastPrompt

Monitor == [prompt : Prompts, turns : Nat, tokens : Nat, breached : BOOLEAN]

NoAnswer == [kind |-> "none", source |-> "", reason |-> "", by |-> 0]

Runtime(reason, by) ==
    [kind |-> "escalated", source |-> "runtime", reason |-> reason, by |-> by]

Answers ==
    [kind : {"none", "fixed", "escalated"}, source : {"", "agent", "runtime"},
     reason : {"", "budget", "error", "unparseable"}, by : Prompts]

Init ==
    /\ mode \in {"repair", "resume"}
    /\ file \in IF mode = "repair" THEN {"none", "archive"} ELSE {"none", "retained"}
    /\ stage = "idle" /\ asking = "task"
    /\ session = "none" /\ steer = "none" /\ undisposed = 0
    /\ prompt = 0 /\ turns = 0 /\ monitors = {} /\ aborting = FALSE
    /\ said = [text |-> "", by |-> 0]
    /\ answer = NoAnswer /\ continued = 0
    /\ overran = {}

-----------------------------------------------------------------------------
(* The monitor of a prompt.                                                *)

NextPrompt == IF prompt < LastPrompt THEN prompt + 1 ELSE LastPrompt

\* subscribeBudget: every prompt gets a monitor of its own, at zero.
Fresh(n) == [prompt |-> n, turns |-> 0, tokens |-> 0, breached |-> FALSE]

\* A turn that reports usage is held against both limits; one that does not
\* is only counted.
Exceeds(tokens, used) ==
    used > 0 /\ (used > PerTurnLimit \/ tokens > TotalLimit)

\* The handler of turn_end.  The reason of a breach is never taken back.
Count(m, used) ==
    [m EXCEPT !.turns = @ + 1, !.tokens = @ + used,
              !.breached = @ \/ Exceeds(m.tokens + used, used)]

Breached == \E m \in monitors : m.prompt = prompt /\ m.breached

\* tryParseAgentJson
Parses(text) == text \in {"fixed", "escalated"}

Parsed == [kind |-> said.text, source |-> "agent", reason |-> "", by |-> said.by]

-----------------------------------------------------------------------------
(* Faulty variants of the operators below, each a plausible slip: a monitor *)
(* only removed where an error is handled, a breach looked at only when the *)
(* prompt throws, a failed compaction that fails the setup, and a close     *)
(* that disposes what was never opened.                                     *)

LeftBehind(ended, how) ==
    IF how = "resolves" THEN monitors ELSE {m \in monitors : m.prompt # ended}
ResolvedIsCompleted(how) ==
    IF how = "resolves" THEN "completed"
    ELSE IF Breached THEN "budget_exceeded" ELSE "failed"
CompactionMatters(opens, compacts) == opens /\ (compacts \/ file # "archive")
AlwaysDisposes == 1

-----------------------------------------------------------------------------
(* From the end of a prompt to an answer.                                  *)

\* finally: the monitor is unsubscribed however the prompt ended.
Unsubscribed(ended, how) == {m \in monitors : m.prompt # ended}

\* The runtime's verdict: a breach comes before anything else, also when the
\* abort made the prompt throw.
Verdict(how) ==
    IF Breached THEN "budget_exceeded"
    ELSE IF how = "throws" THEN "failed" ELSE "completed"

\* The switch over the verdict in run, continue and resume, with parseResult.
\* The text is the last one of the whole session: extractLastAssistantText
\* does not ask which prompt it belongs to.
AnswerTo(verdict) ==
    CASE verdict = "budget_exceeded" -> Runtime("budget", prompt)
      [] verdict = "failed"          -> Runtime("error", prompt)
      [] verdict = "completed" /\ Parses(said.text) -> Parsed
      [] verdict = "completed" /\ said.text = "junk" -> Runtime("unparseable", prompt)
      [] OTHER -> Runtime("error", prompt)

\* retryUnparseable is for an answer to the task; an answer to the re-prompt
\* is taken or left.
AsksAgain(a) == asking = "task" /\ a.reason = "unparseable" /\ session # "none"

\* What a re-prompt leaves: the retried result if the prompt completed and
\* the text parses, the first result otherwise.
AfterRetry(verdict) ==
    IF verdict = "completed" /\ Parses(said.text) THEN Parsed ELSE answer

-----------------------------------------------------------------------------
(* The calls of the pipeline.                                              *)

\* findSessionFile: a resume that finds no jsonl fails; a repair needs none.
FileFound == mode = "repair" \/ file = "retained"

\* createDefaultSession: compaction of an archive is best effort, so the setup
\* only depends on whether the session opens (configuration, a usable model).
SetupSucceeds(opens, compacts) == opens

\* close and the steer handle of the session it closes.
SteerAfterClose(old) == "none"
DisposedByClose == IF session = "none" THEN 0 ELSE 1

\* run, and resume up to the call of the session factory.
Run ==
    /\ stage = "idle" /\ answer = NoAnswer
    /\ IF FileFound
       THEN stage' = "opening" /\ UNCHANGED answer
       ELSE answer' = Runtime("error", 0) /\ UNCHANGED stage
    /\ UNCHANGED <<mode, file, asking, session, steer, prompt, monitors, continued,
                   sdk, overran>>

\* Sends a prompt, to which the caller subscribes a monitor first.
Send(kind) ==
    /\ stage' = "prompting" /\ asking' = kind
    /\ prompt' = NextPrompt /\ turns' = 0 /\ aborting' = FALSE

\* The session factory: the session becomes active and steerable before it
\* is prompted.  A setup that throws leaves no active session; the SDK's own
\* session, if there was one already, is then left to the process exit.
Open ==
    \E opens, compacts \in BOOLEAN, text \in Texts :
        /\ stage = "opening"
        /\ (file # "archive" \/ ~opens) => compacts
        /\ (file = "none" \/ ~opens) => text = ""
        /\ IF SetupSucceeds(opens, compacts)
           THEN /\ session' = IF file = "none" THEN "fresh" ELSE file
                /\ steer' = session'
                /\ said' = [text |-> text, by |-> 0]
                /\ Send("task")
                /\ monitors' = monitors \cup {Fresh(NextPrompt)}
                /\ UNCHANGED answer
           ELSE /\ answer' = Runtime("error", 0)
                /\ stage' = "idle"
                /\ UNCHANGED <<session, steer, said, asking, prompt, turns, aborting,
                               monitors>>
        /\ undisposed' = undisposed + (IF opens THEN 1 ELSE 0)
        /\ UNCHANGED <<mode, file, continued, overran>>

\* continue: the pipeline calls it for a fix that is still red.
Continue ==
    /\ stage = "idle" /\ answer.kind = "fixed" /\ continued < ContinueLimit
    /\ continued' = continued + 1
    /\ IF session = "none"
       THEN /\ answer' = Runtime("error", prompt)
            /\ UNCHANGED <<stage, asking, prompt, turns, aborting, monitors>>
       ELSE /\ Send("task")
            /\ monitors' = monitors \cup {Fresh(NextPrompt)}
            /\ UNCHANGED answer
    /\ UNCHANGED <<mode, file, session, undisposed, steer, said, overran>>

\* close: disposes the session and forgets it.
Close ==
    /\ stage = "idle" /\ answer # NoAnswer
    /\ stage' = "closed"
    /\ steer' = SteerAfterClose(steer)
    /\ undisposed' = undisposed - DisposedByClose
    /\ session' = "none"
    /\ UNCHANGED <<mode, file, asking, prompt, turns, monitors, aborting, said, answer,
                   continued, overran>>

\* A resumed run that escalates returns without close; the process ends.
Exit ==
    /\ stage = "idle" /\ mode = "resume" /\ answer.kind = "escalated"
    /\ stage' = "gone" /\ steer' = "none"
    /\ UNCHANGED <<mode, file, asking, session, undisposed, prompt, turns, monitors,
                   aborting, said, answer, continued, overran>>

-----------------------------------------------------------------------------
(* The moves of the SDK, while a prompt runs.                              *)

\* A turn ends: it used tokens or reports none, may have said something, and
\* an abort requested for it may be refused.
TurnEnds ==
    \E used \in Usages \cup {0}, text \in Texts, accepted \in BOOLEAN :
        /\ stage = "prompting" /\ ~aborting /\ turns < TurnLimit
        /\ turns' = turns + 1
        /\ said' = IF text = "" THEN said ELSE [text |-> text, by |-> prompt]
        /\ monitors' = {Count(m, used) : m \in monitors}
        /\ aborting' = (accepted /\ \E m \in monitors : Exceeds(m.tokens + used, used))
        /\ overran' =
              IF \E m \in monitors : m.prompt = prompt /\ Exceeds(m.tokens + used, used)
              THEN overran \cup {prompt} ELSE overran
        /\ UNCHANGED <<mode, file, stage, asking, session, undisposed, steer, prompt,
                       answer, continued>>

\* The prompt resolves or throws, and the call that sent it goes on: it
\* answers, or asks the same session for the JSON once more.
PromptEnds ==
    \E how \in {"resolves", "throws"} :
        /\ stage = "prompting"
        /\ LET a == IF asking = "task" THEN AnswerTo(Verdict(how))
                    ELSE AfterRetry(Verdict(how))
           IN  /\ answer' = a
               /\ IF AsksAgain(a)
                  THEN /\ Send("json")
                       /\ monitors' = Unsubscribed(prompt, how) \cup {Fresh(NextPrompt)}
                  ELSE /\ stage' = "idle"
                       /\ monitors' = Unsubscribed(prompt, how)
                       /\ UNCHANGED <<asking, prompt, turns, aborting>>
        /\ UNCHANGED <<mode, file, session, undisposed, steer, said, continued, overran>>

-----------------------------------------------------------------------------
Calls == Run \/ Open \/ Continue \/ Close \/ Exit
Next  == Calls \/ TurnEnds \/ PromptEnds

Spec == Init /\ [][Next]_vars

-----------------------------------------------------------------------------
TypeOK ==
    /\ mode \in {"repair", "resume"} /\ file \in {"none", "archive", "retained"}
    /\ stage \in {"idle", "opening", "prompting", "closed", "gone"}
    /\ asking \in {"task", "json"}
    /\ session \in Sessions /\ steer \in Sessions /\ undisposed \in 0 .. 1
    /\ prompt \in Prompts /\ turns \in 0 .. TurnLimit
    /\ monitors \subseteq Monitor /\ aborting \in BOOLEAN
    /\ said \in [text : Texts, by : Prompts]
    /\ answer \in Answers /\ continued \in 0 .. ContinueLimit
    /\ overran \subseteq Prompts

\* What the agent says in a prompt that exceeded its budget is never taken
\* for an answer, neither when the aborted prompt resolves, nor when it
\* throws, nor when the abort was refused and it went on, nor from a re-prompt.
BreachNeverPasses == answer.source = "agent" => answer.by \notin overran

\* A prompt is only ever aborted for the tokens of its own turns: no monitor
\* of an earlier prompt is still counting.
AbortsAreOwn == stage = "prompting" /\ aborting => prompt \in overran

\* Sessions, steering and disposal agree: steering reaches exactly the active
\* session, and every session the SDK created is active or disposed, whatever
\* failed on the way, unless the process ended without close.
NothingOutlivesTheSession ==
    stage # "gone" =>
        /\ steer = session
        /\ undisposed = IF session = "none" THEN 0 ELSE 1

\* A resume never starts a session of its own: every prompt of it goes to the
\* session the escalated run retained, or there is no prompt.
ResumesTheScene ==
    mode = "resume" /\ prompt > 0 => session \in {"retained", "none"}

=============================================================================
