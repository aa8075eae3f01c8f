------------------------- MODULE AgentSessionProofs -------------------------
(***************************************************************************)
(* The safety properties of AgentSession, for every value of the limits.   *)
(*                                                                         *)
(* What carries the proof is that at most one monitor is subscribed, the   *)
(* one of the running prompt (Counting), and that a prompt is only ever    *)
(* sent while no earlier one has exceeded a limit (Overruns): a breach     *)
(* always ends the conversation.                                           *)
(***************************************************************************)
EXTENDS AgentSession, TLAPS

\* The monitors are at most one, that of the running prompt, and it has
\* noticed a breach exactly if there was one.
Counting ==
    /\ stage = "prompting" <=> monitors # {}
    /\ \A m, n \in monitors : m = n
    /\ \A m \in monitors : m.prompt = prompt /\ (m.breached <=> prompt \in overran)

\* A prompt number is used once.
Numbering ==
    /\ stage = "opening" => prompt = 0
    /\ stage = "prompting" /\ asking = "task" => prompt <= 2 * continued + 1
    /\ prompt <= 2 * continued + 2

\* Only the last prompt can have exceeded a limit; if it has, its answer does
\* not come from the agent.
Overruns ==
    /\ overran \subseteq {prompt}
    /\ said.by <= prompt
    /\ answer.kind = "fixed" => answer.source = "agent"
    /\ answer.source = "agent" =>
          /\ stage = "prompting" => answer.by < prompt
          /\ stage # "prompting" => overran = {}
    /\ stage = "opening" => overran = {}
    /\ answer.by <= prompt
    /\ stage = "prompting" /\ asking = "json" =>
          answer.source = "runtime" /\ answer.kind = "escalated"

\* Where a session can be, and from which file.
Opening ==
    /\ stage = "opening" \/ (stage = "idle" /\ answer = NoAnswer) =>
          session = "none" /\ overran = {} /\ prompt = 0
    /\ stage = "opening" => answer = NoAnswer
    /\ stage = "opening" /\ mode = "resume" => file = "retained"
    /\ stage = "prompting" => session # "none"
    /\ file = "retained" => mode = "resume"
    /\ mode = "resume" => session \in {"retained", "none"}

IInv ==
    TypeOK /\ Counting /\ Numbering /\ Overruns /\ Opening
        /\ AbortsAreOwn /\ NothingOutlivesTheSession

USE UsagesAssumption, LimitsAssumption, BoundsAssumption
USE DEF UsagesAssumption, LimitsAssumption, BoundsAssumption

-----------------------------------------------------------------------------
\* What the parser and the runtime return is an answer.
LEMMA AnswerTypes ==
    ASSUME TypeOK, NEW how
    PROVE  /\ AnswerTo(Verdict(how)) \in Answers
           /\ AfterRetry(Verdict(how)) \in Answers
  <1>1. prompt \in Prompts /\ said.by \in Prompts /\ said.text \in Texts /\ answer \in Answers
    BY DEF TypeOK
  <1>2. \A r \in {"budget", "error", "unparseable"} : Runtime(r, prompt) \in Answers
    BY <1>1 DEF Runtime, Answers
  <1>3. Parses(said.text) => Parsed \in Answers
    BY <1>1 DEF Parses, Parsed, Answers
  <1>4. Verdict(how) \in {"budget_exceeded", "failed", "completed"}
    BY DEF Verdict
  <1> QED BY <1>1, <1>2, <1>3, <1>4 DEF AnswerTo, AfterRetry

\* A prompt number stays in range, and a new prompt has the next one.
LEMMA NextPromptIsNew ==
    ASSUME TypeOK, prompt < LastPrompt
    PROVE  NextPrompt = prompt + 1 /\ NextPrompt \in Prompts
  BY DEF TypeOK, NextPrompt, Prompts, LastPrompt

LEMMA InitIInv == Init => IInv
  <1> SUFFICES ASSUME Init PROVE IInv
    OBVIOUS
  <1>0. /\ mode \in {"repair", "resume"} /\ file \in {"none", "archive", "retained"}
        /\ file = "retained" => mode = "resume"
        /\ stage = "idle" /\ asking = "task" /\ session = "none" /\ steer = "none"
    BY Zenon DEF Init
  <1>1. undisposed = 0 /\ prompt = 0 /\ turns = 0 /\ continued = 0
    BY Zenon DEF Init
  <1>2. monitors = {} /\ overran = {}
    BY Zenon DEF Init
  <1>3. said = [text |-> "", by |-> 0] /\ answer = NoAnswer
    BY Zenon DEF Init
  <1>4. aborting = FALSE
    BY Zenon DEF Init
  <1>5. 0 \in Prompts
    BY DEF Prompts, LastPrompt
  <1>6. answer \in Answers /\ said \in [text : Texts, by : Prompts]
    BY <1>3, <1>5 DEF NoAnswer, Answers, Texts
  <1>7. TypeOK
    <2>1. turns \in 0 .. TurnLimit /\ continued \in 0 .. ContinueLimit
      BY <1>1
    <2>2. undisposed \in 0 .. 1
      BY <1>1
    <2> QED BY <1>0, <1>1, <1>2, <1>4, <1>5, <1>6, <2>1, <2>2, Zenon DEF TypeOK, Sessions
  <1>8. Counting
    BY <1>0, <1>2, Zenon DEF Counting
  <1>9. Numbering
    BY <1>1 DEF Numbering
  <1>10. Overruns
    <2>1. said.by = 0 /\ answer.kind = "none" /\ answer.source = "" /\ answer.by = 0
      BY <1>3 DEF NoAnswer
    <2>2. overran \subseteq {prompt}
      BY <1>2, Zenon
    <2>a. 0 <= 0
      OBVIOUS
    <2>3. said.by <= prompt /\ answer.by <= prompt
      BY <1>1, <2>1, <2>a, Zenon
    <2> QED BY <1>0, <2>1, <2>2, <2>3, Zenon DEF Overruns
  <1>11. Opening
    BY <1>0, <1>1, <1>2, Zenon DEF Opening
  <1>12. AbortsAreOwn /\ NothingOutlivesTheSession
    BY <1>0, <1>1 DEF AbortsAreOwn, NothingOutlivesTheSession
  <1> QED BY <1>7, <1>8, <1>9, <1>10, <1>11, <1>12 DEF IInv

-----------------------------------------------------------------------------
\* One lemma per action.

LEMMA RunKeeps == ASSUME IInv, Run PROVE IInv'
  <1> USE DEF IInv
  <1>u. UNCHANGED <<mode, file, asking, session, steer, prompt, monitors, continued,
                   undisposed, turns, aborting, said, overran>>
    BY DEF Run, sdk
  <1>s. stage = "idle" /\ answer = NoAnswer
    BY DEF Run
  <1>c. session = "none" /\ overran = {} /\ prompt = 0
    BY <1>s DEF Opening
  <1>1. CASE FileFound
    <2>1. stage' = "opening" /\ answer' = answer
      BY <1>1 DEF Run
    <2>2. TypeOK'
      BY <1>u, <2>1, Zenon DEF TypeOK
    <2>3. Counting'
      BY <1>u, <1>s, <2>1 DEF Counting
    <2>4. Numbering'
      BY <1>u, <1>c, <2>1 DEF Numbering
    <2>5. Overruns'
      <3>1. answer.kind = "none" /\ answer.source = ""
        BY <1>s DEF NoAnswer
      <3>2. said.by <= prompt /\ answer.by <= prompt
        BY Zenon DEF Overruns
      <3> QED BY <1>u, <1>c, <2>1, <3>1, <3>2, Zenon DEF Overruns
    <2>6. Opening'
      <3>1. mode = "resume" => file = "retained"
        BY <1>1 DEF FileFound
      <3> QED BY <1>u, <1>s, <1>c, <2>1, <3>1 DEF Opening
    <2>7. AbortsAreOwn' /\ NothingOutlivesTheSession'
      BY <1>u, <1>s, <2>1 DEF AbortsAreOwn, NothingOutlivesTheSession
    <2> QED BY <2>2, <2>3, <2>4, <2>5, <2>6, <2>7
  <1>2. CASE ~FileFound
    <2>1. stage' = stage /\ answer' = Runtime("error", 0)
      BY <1>2 DEF Run
    <2>2. answer' \in Answers
      <3>1. 0 \in Prompts
        BY DEF Prompts, LastPrompt
      <3> QED BY <2>1, <3>1 DEF Runtime, Answers
    <2>3. TypeOK'
      BY <1>u, <2>1, <2>2, Zenon DEF TypeOK
    <2>4. Counting'
      BY <1>u, <1>s, <2>1 DEF Counting
    <2>5. Numbering'
      BY <1>u, <1>s, <2>1 DEF Numbering
    <2>6. Overruns'
      <3>1. answer'.kind = "escalated" /\ answer'.source = "runtime" /\ answer'.by = 0
        BY <2>1 DEF Runtime
      <3>2. 0 <= 0
        OBVIOUS
      <3>3. answer'.by <= prompt
        BY <1>c, <3>1, <3>2, Zenon
      <3> QED BY <1>u, <1>s, <2>1, <3>1, <3>3 DEF Overruns
    <2>7. Opening'
      BY <1>u, <1>s, <1>c, <2>1 DEF Opening
    <2>8. AbortsAreOwn' /\ NothingOutlivesTheSession'
      BY <1>u, <1>s, <2>1 DEF AbortsAreOwn, NothingOutlivesTheSession
    <2> QED BY <2>3, <2>4, <2>5, <2>6, <2>7, <2>8
  <1> QED BY <1>1, <1>2

\* A prompt that is sent, by whichever call, finds no breach before it.
LEMMA SendKeeps ==
    ASSUME IInv, NEW kind \in {"task", "json"}, Send(kind),
           overran = {}, prompt < LastPrompt,
           monitors' = {Fresh(NextPrompt)},
           session' # "none", session' \in Sessions, steer' = session', undisposed' = 1,
           mode' = mode, file' = file, mode = "resume" => session' = "retained",
           continued' \in 0 .. ContinueLimit,
           kind = "task" => prompt + 1 <= 2 * continued' + 1,
           prompt + 1 <= 2 * continued' + 2,
           said' \in [text : Texts, by : Prompts], said'.by <= prompt,
           answer' \in Answers, answer'.by <= prompt,
           answer'.kind = "fixed" => answer'.source = "agent",
           kind = "json" => answer'.source = "runtime" /\ answer'.kind = "escalated",
           overran' = overran
    PROVE  IInv'
  <1>1. stage' = "prompting" /\ asking' = kind /\ turns' = 0 /\ aborting' = FALSE
        /\ prompt' = prompt + 1 /\ prompt' \in Prompts /\ NextPrompt = prompt'
    BY NextPromptIsNew DEF Send, IInv
  <1>2. monitors' = {Fresh(prompt')} /\ Fresh(prompt') \in Monitor
        /\ Fresh(prompt').prompt = prompt' /\ Fresh(prompt').breached = FALSE
    BY <1>1 DEF Fresh, Monitor
  <1>3. TypeOK'
    <2>1. /\ mode' \in {"repair", "resume"} /\ file' \in {"none", "archive", "retained"}
          /\ overran' \subseteq Prompts
      BY DEF IInv, TypeOK
    <2>2. turns' \in 0 .. TurnLimit /\ undisposed' \in 0 .. 1
      BY <1>1
    <2>3. aborting' \in BOOLEAN /\ stage' = "prompting" /\ asking' \in {"task", "json"}
      BY <1>1, Zenon
    <2>4. monitors' \subseteq Monitor
      BY <1>2, Zenon
    <2> QED BY <1>1, <2>1, <2>2, <2>3, <2>4, Zenon DEF TypeOK
  <1>4. Counting'
    BY <1>1, <1>2 DEF Counting
  <1>5. Numbering'
    BY <1>1 DEF Numbering
  <1>6. Overruns'
    <2>1. prompt \in Prompts /\ said'.by \in Prompts /\ answer'.by \in Prompts
      <3>1. prompt \in Prompts
        BY DEF IInv, TypeOK
      <3>2. said'.by \in Prompts
        OBVIOUS
      <3>3. answer'.by \in Prompts
        BY DEF Answers
      <3> QED BY <3>1, <3>2, <3>3
    <2>2. prompt \in Nat /\ said'.by \in Nat /\ answer'.by \in Nat
      BY <2>1 DEF Prompts, LastPrompt
    <2> QED BY <1>1, <2>2 DEF Overruns
  <1>7. Opening'
    BY <1>1 DEF Opening, IInv
  <1>8. AbortsAreOwn' /\ NothingOutlivesTheSession'
    BY <1>1 DEF AbortsAreOwn, NothingOutlivesTheSession
  <1> QED BY <1>3, <1>4, <1>5, <1>6, <1>7, <1>8 DEF IInv

LEMMA OpenKeeps == ASSUME IInv, Open PROVE IInv'
  <1>1. PICK opens \in BOOLEAN, compacts \in BOOLEAN, text \in Texts :
            /\ stage = "opening"
            /\ IF SetupSucceeds(opens, compacts)
               THEN /\ session' = IF file = "none" THEN "fresh" ELSE file
                    /\ steer' = session'
                    /\ said' = [text |-> text, by |-> 0]
                    /\ Send("task")
                    /\ monitors' = monitors \cup {Fresh(NextPrompt)}
                    /\ UNCHANGED answer
               ELSE /\ answer' = Runtime("error", 0)
                    /\ stage' = "idle"
                    /\ UNCHANGED <<session, steer, said, asking, prompt, turns,
                                   aborting, monitors>>
            /\ undisposed' = undisposed + (IF opens THEN 1 ELSE 0)
            /\ UNCHANGED <<mode, file, continued, overran>>
    BY Zenon DEF Open
  <1>2. /\ session = "none" /\ overran = {} /\ prompt = 0 /\ answer = NoAnswer
        /\ monitors = {} /\ undisposed = 0 /\ steer = "none"
    BY <1>1 DEF IInv, Opening, Counting, NothingOutlivesTheSession
  <1>3. UNCHANGED <<mode, file, continued, overran>>
    BY <1>1
  <1>4. continued \in 0 .. ContinueLimit /\ file \in {"none", "archive", "retained"}
    BY DEF IInv, TypeOK
  <1>5. 0 \in Prompts /\ 0 < LastPrompt
    BY DEF Prompts, LastPrompt
  <1>6. CASE opens
    <2>1. /\ session' = IF file = "none" THEN "fresh" ELSE file
          /\ steer' = session' /\ said' = [text |-> text, by |-> 0] /\ Send("task")
          /\ monitors' = {Fresh(NextPrompt)} /\ answer' = answer
      BY <1>1, <1>2, <1>6 DEF SetupSucceeds
    <2>2. undisposed' = 1
      BY <1>1, <1>2, <1>6
    <2>3. session' # "none" /\ session' \in Sessions
          /\ (mode = "resume" => session' = "retained")
      BY <1>1, <1>4, <2>1 DEF Sessions, IInv, Opening
    <2>4. said' \in [text : Texts, by : Prompts] /\ said'.by <= prompt
      BY <1>2, <1>5, <2>1
    <2>5. /\ answer' \in Answers /\ answer'.by <= prompt
          /\ answer'.kind = "fixed" => answer'.source = "agent"
      <3>1. answer' = NoAnswer /\ answer'.by = 0 /\ answer'.kind = "none"
        BY <1>2, <2>1 DEF NoAnswer
      <3>2. answer' \in Answers
        BY <3>1, <1>5 DEF NoAnswer, Answers
      <3>3. 0 <= 0
        OBVIOUS
      <3>4. answer'.by <= prompt
        BY <1>2, <3>1, <3>3, Zenon
      <3> QED BY <3>1, <3>2, <3>4
    <2>6. prompt + 1 <= 2 * continued' + 1 /\ prompt + 1 <= 2 * continued' + 2
          /\ continued' \in 0 .. ContinueLimit /\ prompt < LastPrompt
      BY <1>2, <1>3, <1>4, <1>5
    <2> QED BY <1>2, <1>3, <2>1, <2>2, <2>3, <2>4, <2>5, <2>6, SendKeeps
  <1>7. CASE ~opens
    <2>1. /\ answer' = Runtime("error", 0) /\ stage' = "idle"
          /\ UNCHANGED <<session, steer, said, asking, prompt, turns, aborting, monitors>>
      BY <1>1, <1>7 DEF SetupSucceeds
    <2>2. undisposed' = undisposed
      BY <1>1, <1>2, <1>7
    <2>3. answer' \in Answers /\ answer'.kind = "escalated" /\ answer'.source = "runtime"
      BY <1>5, <2>1 DEF Runtime, Answers
    <2>a. answer'.by <= prompt
      <3>1. answer'.by = 0 /\ 0 <= 0
        BY <2>1 DEF Runtime
      <3> QED BY <1>2, <3>1, Zenon
    <2>4. TypeOK'
      BY <1>3, <2>1, <2>2, <2>3, Zenon DEF IInv, TypeOK
    <2>5. Counting'
      BY <1>1, <1>2, <1>3, <2>1 DEF Counting
    <2>6. Numbering'
      BY <1>2, <1>3, <1>4, <2>1 DEF Numbering
    <2>7. Overruns'
      BY <1>2, <1>3, <2>1, <2>3, <2>a DEF Overruns, IInv
    <2>8. Opening'
      BY <1>1, <1>2, <1>3, <2>1 DEF Opening, IInv
    <2>9. AbortsAreOwn' /\ NothingOutlivesTheSession'
      BY <1>2, <2>1, <2>2 DEF AbortsAreOwn, NothingOutlivesTheSession
    <2> QED BY <2>4, <2>5, <2>6, <2>7, <2>8, <2>9 DEF IInv
  <1> QED BY <1>6, <1>7

LEMMA ContinueKeeps == ASSUME IInv, Continue PROVE IInv'
  <1>1. /\ stage = "idle" /\ answer.kind = "fixed" /\ continued < ContinueLimit
        /\ continued' = continued + 1
        /\ UNCHANGED <<mode, file, session, undisposed, steer, said, overran>>
    BY DEF Continue
  <1>2. /\ answer.source = "agent" /\ overran = {} /\ monitors = {}
        /\ prompt <= 2 * continued + 2
    BY <1>1 DEF IInv, Overruns, Counting, Numbering
  <1>3. /\ continued \in 0 .. ContinueLimit /\ prompt \in Prompts
        /\ session \in Sessions /\ steer \in Sessions /\ answer \in Answers
        /\ said \in [text : Texts, by : Prompts]
    BY DEF IInv, TypeOK
  <1>4. prompt \in Nat
    BY <1>3 DEF Prompts, LastPrompt
  <1>5. continued' \in 0 .. ContinueLimit
    BY <1>1, <1>3
  <1>6. CASE session = "none"
    <2>1. /\ answer' = Runtime("error", prompt)
          /\ UNCHANGED <<stage, asking, prompt, turns, aborting, monitors>>
      BY <1>1, <1>6 DEF Continue
    <2>2. /\ answer' \in Answers /\ answer'.kind = "escalated"
          /\ answer'.source = "runtime" /\ answer'.by = prompt
      BY <1>3, <2>1 DEF Runtime, Answers
    <2>a. answer'.by <= prompt
      BY <1>4, <2>2
    <2>3. TypeOK'
      BY <1>1, <1>5, <2>1, <2>2, Zenon DEF IInv, TypeOK
    <2>4. Counting'
      BY <1>1, <2>1 DEF Counting, IInv
    <2>5. Numbering'
      BY <1>1, <1>2, <1>3, <1>4, <2>1 DEF Numbering
    <2>6. Overruns'
      BY <1>1, <2>1, <2>2, <2>a DEF Overruns, IInv
    <2>7. Opening'
      <3>0. NoAnswer.source = ""
        BY DEF NoAnswer
      <3>1. answer' # NoAnswer
        BY <2>2, <3>0
      <3> QED BY <1>1, <1>2, <2>1, <3>1 DEF Opening, IInv
    <2>8. AbortsAreOwn' /\ NothingOutlivesTheSession'
      BY <1>1, <2>1 DEF AbortsAreOwn, NothingOutlivesTheSession, IInv
    <2> QED BY <2>3, <2>4, <2>5, <2>6, <2>7, <2>8 DEF IInv
  <1>7. CASE session # "none"
    <2>1. Send("task") /\ monitors' = {Fresh(NextPrompt)} /\ answer' = answer
      BY <1>1, <1>2, <1>7 DEF Continue
    <2>2. /\ session' # "none" /\ session' \in Sessions /\ steer' = session'
          /\ undisposed' = 1 /\ (mode = "resume" => session' = "retained")
      BY <1>1, <1>3, <1>7 DEF IInv, NothingOutlivesTheSession, Opening
    <2>3. /\ prompt + 1 <= 2 * continued' + 1 /\ prompt + 1 <= 2 * continued' + 2
          /\ prompt < LastPrompt
      BY <1>1, <1>2, <1>3, <1>4 DEF LastPrompt
    <2>4. said'.by <= prompt /\ said' \in [text : Texts, by : Prompts]
      BY <1>1, <1>3 DEF IInv, Overruns
    <2>5. answer.by <= prompt
      BY DEF IInv, Overruns
    <2> QED BY <1>1, <1>2, <1>3, <1>5, <2>1, <2>2, <2>3, <2>4, <2>5, SendKeeps
  <1> QED BY <1>6, <1>7

LEMMA EndingKeeps ==
    ASSUME IInv, Close \/ Exit
    PROVE  IInv'
  <1>1. /\ stage = "idle" /\ stage' \in {"closed", "gone"} /\ steer' = "none"
        /\ UNCHANGED <<mode, file, asking, prompt, turns, monitors, aborting, said, answer,
                       continued, overran>>
    BY DEF Close, Exit, SteerAfterClose
  <1>2. session' \in {"none", session} /\ undisposed' \in 0 .. 1
    BY DEF Close, Exit, DisposedByClose, IInv, TypeOK, NothingOutlivesTheSession
  <1>3. stage' = "closed" => session' = "none" /\ undisposed' = 0
    BY <1>1 DEF Close, Exit, DisposedByClose, IInv, NothingOutlivesTheSession
  <1>4. TypeOK'
    <2>1. session' \in Sessions /\ steer' \in Sessions
      BY <1>1, <1>2 DEF Sessions, IInv, TypeOK
    <2>2. stage' \in {"idle", "opening", "prompting", "closed", "gone"}
      BY <1>1
    <2> QED BY <1>1, <1>2, <2>1, <2>2, Zenon DEF IInv, TypeOK
  <1>5. Counting'
    BY <1>1 DEF IInv, Counting
  <1>6. Numbering'
    BY <1>1 DEF IInv, Numbering
  <1>7. Overruns'
    BY <1>1 DEF IInv, Overruns
  <1>8. Opening'
    BY <1>1, <1>2 DEF IInv, Opening
  <1>9. AbortsAreOwn' /\ NothingOutlivesTheSession'
    BY <1>1, <1>3 DEF AbortsAreOwn, NothingOutlivesTheSession
  <1> QED BY <1>4, <1>5, <1>6, <1>7, <1>8, <1>9 DEF IInv

LEMMA TurnEndsKeeps == ASSUME IInv, TurnEnds PROVE IInv'
  <1>1. PICK used \in Usages \cup {0}, text \in Texts, accepted \in BOOLEAN :
            /\ stage = "prompting" /\ ~aborting /\ turns < TurnLimit
            /\ turns' = turns + 1
            /\ said' = IF text = "" THEN said ELSE [text |-> text, by |-> prompt]
            /\ monitors' = {Count(m, used) : m \in monitors}
            /\ aborting' = (accepted /\ \E m \in monitors : Exceeds(m.tokens + used, used))
            /\ overran' =
                  IF \E m \in monitors : m.prompt = prompt /\ Exceeds(m.tokens + used, used)
                  THEN overran \cup {prompt} ELSE overran
            /\ UNCHANGED <<mode, file, stage, asking, session, undisposed, steer, prompt,
                           answer, continued>>
    BY Zenon DEF TurnEnds
  <1>a. /\ stage = "prompting" /\ turns < TurnLimit /\ turns' = turns + 1
        /\ said' = IF text = "" THEN said ELSE [text |-> text, by |-> prompt]
        /\ UNCHANGED <<mode, file, stage, asking, session, undisposed, steer, prompt,
                       answer, continued>>
    BY <1>1, Zenon
  <1>2. used \in Nat
    <2>1. Usages \subseteq Nat /\ 0 \in Nat
      OBVIOUS
    <2> QED BY <1>1, <2>1, Zenon
  <1>3. PICK m \in monitors : monitors = {m}
    BY <1>1, Zenon DEF IInv, Counting
  <1>4. m.prompt = prompt /\ (m.breached <=> prompt \in overran)
    BY Zenon DEF IInv, Counting
  <1>5. /\ m \in Monitor /\ prompt \in Prompts /\ turns \in 0 .. TurnLimit
        /\ said \in [text : Texts, by : Prompts]
        /\ overran \subseteq Prompts
    BY DEF IInv, TypeOK
  <1>b. turns \in 0 .. TurnLimit /\ turns < TurnLimit /\ turns' = turns + 1
    BY <1>a, <1>5
  <1>d. /\ said \in [text : Texts, by : Prompts] /\ text \in Texts /\ prompt \in Prompts
        /\ said' = IF text = "" THEN said ELSE [text |-> text, by |-> prompt]
    BY <1>a, <1>5
  <1>e. m \in [prompt : Prompts, turns : Nat, tokens : Nat, breached : BOOLEAN]
    BY <1>5 DEF Monitor
  <1> DEFINE c == Count(m, used)
             over == Exceeds(m.tokens + used, used)
  <1>6. monitors' = {c}
    BY <1>1, <1>3, Zenon
  <1>7. /\ c \in Monitor
        /\ c.prompt = prompt
    <2>1. m.turns + 1 \in Nat /\ m.tokens + used \in Nat /\ m.breached \in BOOLEAN
      BY <1>2, <1>e
    <2>2. Exceeds(m.tokens + used, used) \in BOOLEAN
      BY DEF Exceeds
    <2>3. (m.breached \/ Exceeds(m.tokens + used, used)) \in BOOLEAN
      BY <2>1, <2>2, Zenon
    <2>4. c = [m EXCEPT !.turns = m.turns + 1, !.tokens = m.tokens + used,
                        !.breached = m.breached \/ Exceeds(m.tokens + used, used)]
      BY <1>e, Zenon DEF Count
    <2> QED BY <1>e, <1>4, <2>1, <2>3, <2>4 DEF Monitor
  <1>8. c.breached = (m.breached \/ over)
    BY <1>5 DEF Count, Monitor
  <1>9. overran' = IF over THEN overran \cup {prompt} ELSE overran
    BY <1>1, <1>3, <1>4, Zenon
  <1>10. aborting' = (accepted /\ over)
    BY <1>1, <1>3, Zenon
  <1> HIDE DEF c, over
  <1>11. TypeOK'
    <2>1. monitors' \subseteq Monitor /\ overran' \subseteq Prompts
      BY <1>5, <1>6, <1>7, <1>9, Zenon
    <2>2. aborting' \in BOOLEAN
      BY <1>1, Zenon
    <2>3. turns' \in 0 .. TurnLimit
      BY <1>b
    <2>5. said' \in [text : Texts, by : Prompts]
      BY <1>d
    <2> QED BY <1>1, <2>1, <2>2, <2>3, <2>5, Zenon DEF IInv, TypeOK
  <1>12. Counting'
    <2>1. stage' = "prompting" /\ monitors' # {}
      BY <1>1, <1>6, Zenon
    <2>2. c.breached <=> prompt \in overran'
      BY <1>4, <1>8, <1>9, Zenon
    <2>3. prompt' = prompt
      BY <1>1
    <2> QED BY <1>6, <1>7, <2>1, <2>2, <2>3, Zenon DEF Counting
  <1>13. Numbering'
    BY <1>1 DEF IInv, Numbering
  <1>14. Overruns'
    <2>1. overran' \subseteq {prompt'}
      BY <1>1, <1>9 DEF IInv, Overruns
    <2>2. said'.by <= prompt'
      <3>1. prompt \in Nat
        BY <1>5 DEF Prompts, LastPrompt
      <3>2. said'.by = said.by \/ said'.by = prompt
        BY <1>a
      <3>3. prompt <= prompt
        BY <3>1
      <3> QED BY <1>a, <3>2, <3>3, Zenon DEF IInv, Overruns
    <2> QED BY <1>1, <2>1, <2>2 DEF IInv, Overruns
  <1>15. Opening'
    BY <1>1 DEF IInv, Opening
  <1>16. AbortsAreOwn' /\ NothingOutlivesTheSession'
    <2>1. aborting' => prompt' \in overran'
      BY <1>1, <1>9, <1>10, Zenon
    <2> QED BY <1>1, <2>1 DEF AbortsAreOwn, NothingOutlivesTheSession, IInv
  <1> QED BY <1>11, <1>12, <1>13, <1>14, <1>15, <1>16 DEF IInv

LEMMA PromptEndsKeeps == ASSUME IInv, PromptEnds PROVE IInv'
  <1>1. PICK how \in {"resolves", "throws"} :
            /\ stage = "prompting"
            /\ LET a == IF asking = "task" THEN AnswerTo(Verdict(how))
                        ELSE AfterRetry(Verdict(how))
               IN  /\ answer' = a
                   /\ IF AsksAgain(a)
                      THEN /\ Send("json")
                           /\ monitors' = Unsubscribed(prompt, how) \cup {Fresh(NextPrompt)}
                      ELSE /\ stage' = "idle"
                           /\ monitors' = Unsubscribed(prompt, how)
                           /\ UNCHANGED <<asking, prompt, turns, aborting>>
            /\ UNCHANGED <<mode, file, session, undisposed, steer, said, continued, overran>>
    BY Zenon DEF PromptEnds
  <1> DEFINE a == IF asking = "task" THEN AnswerTo(Verdict(how)) ELSE AfterRetry(Verdict(how))
  <1>2. UNCHANGED <<mode, file, session, undisposed, steer, said, continued, overran>>
    BY <1>1
  <1>3. Unsubscribed(prompt, how) = {}
    BY DEF IInv, Counting, Unsubscribed
  <1>4. a \in Answers
    BY AnswerTypes DEF IInv
  <1>5. Breached <=> overran # {}
    BY <1>1 DEF IInv, Counting, Overruns, Breached
  <1>6. /\ prompt \in Prompts /\ said \in [text : Texts, by : Prompts]
        /\ continued \in 0 .. ContinueLimit /\ session \in Sessions
    BY DEF IInv, TypeOK
  <1>7. prompt \in Nat /\ said.by <= prompt /\ said.by \in Nat
    BY <1>6 DEF Prompts, LastPrompt, IInv, Overruns
  <1>8. Verdict(how) = "completed" => overran = {}
    BY <1>5 DEF Verdict
  \* What the answer can be.
  <1>9. \/ a.source = "runtime" /\ a.kind = "escalated"
        \/ a = Parsed /\ Verdict(how) = "completed"
    <2>1. Verdict(how) \in {"budget_exceeded", "failed", "completed"}
      BY DEF Verdict
    <2>2. CASE asking = "task"
      <3>1. a = AnswerTo(Verdict(how))
        BY <2>2
      <3>2. \/ AnswerTo(Verdict(how)) = Parsed /\ Verdict(how) = "completed"
            \/ \E r \in {"budget", "error", "unparseable"} :
                   AnswerTo(Verdict(how)) = Runtime(r, prompt)
        BY <2>1 DEF AnswerTo
      <3> QED BY <3>1, <3>2 DEF Runtime
    <2>3. CASE asking # "task"
      <3>1. asking = "json"
        BY <2>3 DEF IInv, TypeOK
      <3>2. answer.source = "runtime" /\ answer.kind = "escalated"
        BY <1>1, <3>1 DEF IInv, Overruns, TypeOK, Answers
      <3>3. \/ a = Parsed /\ Verdict(how) = "completed"
            \/ a = answer
        BY <2>3 DEF AfterRetry
      <3> QED BY <3>2, <3>3
    <2> QED BY <2>2, <2>3
  <1>p. /\ Parsed.source = "agent" /\ Parsed.by = said.by /\ NoAnswer.source = ""
    BY DEF Parsed, NoAnswer
  <1> HIDE DEF a
  <1>10. a.source = "agent" => overran = {} /\ a.by <= prompt
    BY <1>7, <1>8, <1>9, <1>p
  <1>11. a.kind = "fixed" => a.source = "agent"
    BY <1>9, <1>p
  <1>12. a # NoAnswer
    BY <1>9, <1>p
  <1>13. answer' = a
    BY <1>1 DEF a
  <1>q. a.by <= prompt
    <2>1. prompt <= prompt
      BY <1>7
    <2>2. CASE asking = "task"
      <3>1. a.by \in {prompt, said.by}
        BY <2>2 DEF a, AnswerTo, Runtime, Parsed
      <3> QED BY <1>7, <2>1, <3>1
    <2>3. CASE asking # "task"
      <3>1. a.by \in {answer.by, said.by}
        BY <2>3 DEF a, AfterRetry, Parsed
      <3> QED BY <1>7, <3>1 DEF IInv, Overruns
    <2> QED BY <2>2, <2>3
  <1>14. CASE AsksAgain(a)
    <2>1. Send("json") /\ monitors' = {Fresh(NextPrompt)}
      BY <1>1, <1>3, <1>14 DEF a
    <2>2. asking = "task" /\ a.reason = "unparseable" /\ session # "none"
      BY <1>14 DEF AsksAgain
    <2>3. a = Runtime("unparseable", prompt) /\ Verdict(how) = "completed"
      <3>1. a = AnswerTo(Verdict(how))
        BY <2>2 DEF a
      <3>2. /\ Parsed.reason = "" /\ Runtime("budget", prompt).reason = "budget"
            /\ Runtime("error", prompt).reason = "error"
        BY DEF Parsed, Runtime
      <3>a. Verdict(how) \in {"budget_exceeded", "failed", "completed"}
        BY DEF Verdict
      <3>3. \/ Verdict(how) = "budget_exceeded" /\ a = Runtime("budget", prompt)
            \/ a = Runtime("error", prompt)
            \/ a = Parsed
            \/ Verdict(how) = "completed" /\ a = Runtime("unparseable", prompt)
        <4>1. CASE Verdict(how) = "budget_exceeded"
          BY <3>1, <4>1 DEF AnswerTo
        <4>2. CASE Verdict(how) = "failed"
          BY <3>1, <4>2 DEF AnswerTo
        <4>3. CASE Verdict(how) = "completed"
          BY <3>1, <4>3 DEF AnswerTo
        <4> QED BY <3>a, <4>1, <4>2, <4>3
      <3> QED BY <2>2, <3>2, <3>3
    <2>4. a.source = "runtime" /\ a.kind = "escalated" /\ a.by = prompt
      BY <2>3 DEF Runtime
    <2>5. prompt <= 2 * continued + 1
      BY <1>1, <2>2 DEF IInv, Numbering
    <2>6. prompt < LastPrompt /\ prompt + 1 <= 2 * continued' + 2 /\ continued' \in 0 .. ContinueLimit
      BY <1>2, <1>6, <1>7, <2>5 DEF LastPrompt
    <2>7. /\ session' # "none" /\ session' \in Sessions /\ steer' = session'
          /\ undisposed' = 1 /\ (mode = "resume" => session' = "retained")
      BY <1>1, <1>2, <1>6, <2>2 DEF IInv, NothingOutlivesTheSession, Opening
    <2>8. said' \in [text : Texts, by : Prompts] /\ said'.by <= prompt
      BY <1>2, <1>6, <1>7
    <2>9. /\ answer' \in Answers /\ answer'.by <= prompt
          /\ answer'.source = "runtime" /\ answer'.kind = "escalated"
      BY <1>4, <1>q, <1>13, <2>4
    <2> QED BY <1>2, <1>8, <2>1, <2>3, <2>6, <2>7, <2>8, <2>9, SendKeeps
  <1>15. CASE ~AsksAgain(a)
    <2>1. stage' = "idle" /\ monitors' = {} /\ UNCHANGED <<asking, prompt, turns, aborting>>
      BY <1>1, <1>3, <1>15 DEF a
    <2>2. TypeOK'
      BY <1>2, <1>4, <1>13, <2>1, Zenon DEF IInv, TypeOK
    <2>3. Counting'
      BY <2>1, Zenon DEF Counting
    <2>4. Numbering'
      BY <1>2, <2>1 DEF IInv, Numbering
    <2>5. Overruns'
      BY <1>2, <1>10, <1>11, <1>13, <1>q, <2>1 DEF IInv, Overruns
    <2>6. Opening'
      BY <1>2, <1>12, <1>13, <2>1 DEF IInv, Opening
    <2>7. AbortsAreOwn' /\ NothingOutlivesTheSession'
      BY <1>1, <1>2, <2>1 DEF AbortsAreOwn, NothingOutlivesTheSession, IInv
    <2> QED BY <2>2, <2>3, <2>4, <2>5, <2>6, <2>7 DEF IInv
  <1> QED BY <1>14, <1>15

-----------------------------------------------------------------------------
LEMMA StutterKeeps == ASSUME IInv, UNCHANGED vars PROVE IInv'
  <1>1. UNCHANGED <<mode, file, stage, asking, session, undisposed, steer, prompt, turns,
                   monitors, aborting, said, answer, continued, overran>>
    BY DEF vars
  <1>2. TypeOK' /\ Counting' /\ Numbering'
    BY <1>1, Zenon DEF IInv, TypeOK, Counting, Numbering
  <1>3. Overruns' /\ Opening' /\ AbortsAreOwn' /\ NothingOutlivesTheSession'
    BY <1>1, Zenon DEF IInv, Overruns, Opening, AbortsAreOwn, NothingOutlivesTheSession
  <1> QED BY <1>2, <1>3 DEF IInv

\* The inductive invariant holds in every reachable state.
THEOREM AgentInvariance == Spec => []IInv
  <1>1. ASSUME IInv, [Next]_vars PROVE IInv'
    <2>1. CASE Run
      BY <1>1, <2>1, RunKeeps
    <2>2. CASE Open
      BY <1>1, <2>2, OpenKeeps
    <2>3. CASE Continue
      BY <1>1, <2>3, ContinueKeeps
    <2>4. CASE Close \/ Exit
      BY <1>1, <2>4, EndingKeeps
    <2>5. CASE TurnEnds
      BY <1>1, <2>5, TurnEndsKeeps
    <2>6. CASE PromptEnds
      BY <1>1, <2>6, PromptEndsKeeps
    <2>7. CASE UNCHANGED vars
      BY <1>1, <2>7, StutterKeeps
    <2> QED BY <1>1, <2>1, <2>2, <2>3, <2>4, <2>5, <2>6, <2>7 DEF Next, Calls
  <1> QED BY InitIInv, <1>1, PTL DEF Spec

\* Every variable keeps its type; in particular the prompts of a run stay
\* within two per call, and a session is never disposed twice.
THEOREM AgentTypes == Spec => []TypeOK
  <1>1. IInv => TypeOK
    BY DEF IInv
  <1> QED BY AgentInvariance, <1>1, PTL

\* What is said in a prompt that exceeded its budget is never an answer.
THEOREM BreachesNeverPass == Spec => []BreachNeverPasses
  <1>1. IInv => BreachNeverPasses
    <2> SUFFICES ASSUME IInv, answer.source = "agent" PROVE answer.by \notin overran
      BY DEF BreachNeverPasses
    <2>1. CASE stage = "prompting"
      <3>1. answer.by < prompt /\ overran \subseteq {prompt}
        BY <2>1 DEF IInv, Overruns
      <3>2. prompt \in Nat
        BY DEF IInv, TypeOK, Prompts, LastPrompt
      <3>3. answer.by # prompt
        BY <3>1, <3>2
      <3> QED BY <3>1, <3>3, Zenon
    <2>2. CASE stage # "prompting"
      BY <2>2 DEF IInv, Overruns
    <2> QED BY <2>1, <2>2
  <1> QED BY AgentInvariance, <1>1, PTL

\* A prompt is aborted for its own tokens only.
THEOREM AbortsAreOwnAlways == Spec => []AbortsAreOwn
  <1>1. IInv => AbortsAreOwn
    BY DEF IInv
  <1> QED BY AgentInvariance, <1>1, PTL

\* Steering reaches the active session and no other, and no session is left
\* undisposed by a worker that closes.
THEOREM NothingOutlives == Spec => []NothingOutlivesTheSession
  <1>1. IInv => NothingOutlivesTheSession
    BY DEF IInv
  <1> QED BY AgentInvariance, <1>1, PTL

\* A resume prompts the retained session or nothing.
THEOREM ResumesAreOfTheScene == Spec => []ResumesTheScene
  <1>1. IInv => ResumesTheScene
    BY DEF IInv, Opening, ResumesTheScene
  <1> QED BY AgentInvariance, <1>1, PTL

=============================================================================
