----------------------------- MODULE Providers -----------------------------
(***************************************************************************)
(* Model calls through the circuit breaker of one process.  A call asks    *)
(* the breaker once, tries the primary model (a completion several times,  *)
(* with a pause in between; a stream once) and then the fallback model.    *)
(* Calls run concurrently and share the breaker; a call awaits its         *)
(* provider, so a reply may come long after the breaker was asked.  What   *)
(* the breaker and the fallback cover of a stream is its creation: the     *)
(* stream is read afterwards, outside both.                                *)
(***************************************************************************)
EXTENDS Integers

CONSTANTS
    LlmCalls,        \* concurrent calls
    Threshold,       \* breaker_fail_threshold
    Cooldown,        \* breaker_cooldown_seconds, in ticks
    Retries,         \* llm_max_retries
    MaxLlmCalls      \* bound: calls started

ASSUME ProviderConstants ==
    /\ Threshold \in Nat \ {0} /\ Cooldown \in Nat \ {0} /\ Retries \in Nat /\ MaxLlmCalls \in Nat

VARIABLES
    hasFallback,   \* a fallback model is configured
    failCount,     \* breaker._fail_count
    openLeft,      \* ticks until breaker._open_until, 0 when closed
    llm,           \* what each call is doing
    llmStarted

provVars == <<hasFallback, failCount, openLeft, llm, llmStarted>>

\* attempt: failures of the primary so far; met: the breaker was open when it was asked;
\* second: the fallback model was tried and failed; broken: the stream broke while it was read.
LlmCall == [pc : {"idle", "primary", "pause", "fallback", "streaming", "answered", "failed"},
            kind : {"completion", "stream"}, attempt : 0..Retries + 1,
            met : BOOLEAN, second : BOOLEAN, broken : BOOLEAN]
NoLlmCall == [pc |-> "idle", kind |-> "stream", attempt |-> 0,
              met |-> FALSE, second |-> FALSE, broken |-> FALSE]

ProvInit ==
    /\ hasFallback \in BOOLEAN
    /\ failCount = 0 /\ openLeft = 0
    /\ llm = [c \in LlmCalls |-> NoLlmCall] /\ llmStarted = 0

\* Mutant: an open breaker fails the call at once.
AfterOpenFails == "failed"
\* With the breaker open, or the primary given up, the fallback model is left, if there is one.
AfterOpen == IF hasFallback THEN "fallback" ELSE "failed"
Ask(c, kind) ==
    /\ llm[c].pc \in {"idle", "answered", "failed"} /\ llmStarted < MaxLlmCalls
    /\ llmStarted' = llmStarted + 1
    /\ llm' = [llm EXCEPT ![c] = [NoLlmCall EXCEPT !.kind = kind, !.met = openLeft > 0,
                                    !.pc = IF openLeft > 0 THEN AfterOpen ELSE "primary"]]
    /\ UNCHANGED <<hasFallback, failCount, openLeft>>

\* A completion comes whole; of a stream only the creation has succeeded.
Reply(kind) == IF kind = "stream" THEN "streaming" ELSE "answered"

\* A success resets the count, and leaves an open breaker open.
PrimaryAnswers(c) ==
    /\ llm[c].pc = "primary"
    /\ failCount' = 0
    /\ llm' = [llm EXCEPT ![c].pc = Reply(llm[c].kind)]
    /\ UNCHANGED <<hasFallback, openLeft, llmStarted>>

\* Mutant: the threshold is exceeded before the breaker opens.
TripsLate == failCount >= Threshold
Trips == failCount + 1 >= Threshold

\* record_failure counts the failures of all calls; every attempt of a call is counted.
PrimaryFails(c) ==
    /\ llm[c].pc = "primary"
    /\ IF Trips THEN failCount' = 0 /\ openLeft' = Cooldown
                ELSE failCount' = failCount + 1 /\ UNCHANGED openLeft
    /\ LET again == llm[c].kind = "completion" /\ llm[c].attempt < Retries IN
       llm' = [llm EXCEPT ![c].attempt = @ + 1,
                          ![c].pc = IF again THEN "pause" ELSE IF hasFallback THEN "fallback" ELSE "failed"]
    /\ UNCHANGED <<hasFallback, llmStarted>>

\* The next attempt does not ask the breaker.
TryAgain(c) ==
    /\ llm[c].pc = "pause"
    /\ llm' = [llm EXCEPT ![c].pc = "primary"]
    /\ UNCHANGED <<hasFallback, failCount, openLeft, llmStarted>>

\* The fallback model is tried once and does not count.
FallbackAnswers(c) ==
    /\ llm[c].pc = "fallback"
    /\ llm' = [llm EXCEPT ![c].pc = Reply(llm[c].kind)]
    /\ UNCHANGED <<hasFallback, failCount, openLeft, llmStarted>>
FallbackFails(c) ==
    /\ llm[c].pc = "fallback"
    /\ llm' = [llm EXCEPT ![c].pc = "failed", ![c].second = TRUE]
    /\ UNCHANGED <<hasFallback, failCount, openLeft, llmStarted>>

StreamEnds(c) ==
    /\ llm[c].pc = "streaming"
    /\ llm' = [llm EXCEPT ![c].pc = "answered"]
    /\ UNCHANGED <<hasFallback, failCount, openLeft, llmStarted>>
\* An error while the stream is read goes to the caller: the breaker is not told, and no
\* other model is tried.
StreamBreaks(c) ==
    /\ llm[c].pc = "streaming"
    /\ llm' = [llm EXCEPT ![c].pc = "failed", ![c].broken = TRUE]
    /\ UNCHANGED <<hasFallback, failCount, openLeft, llmStarted>>

CoolDown ==
    /\ openLeft > 0 /\ openLeft' = openLeft - 1
    /\ UNCHANGED <<hasFallback, failCount, llm, llmStarted>>

ProvNext ==
    \/ \E c \in LlmCalls :
         \/ \E kind \in {"completion", "stream"} : Ask(c, kind)
         \/ PrimaryAnswers(c) \/ PrimaryFails(c) \/ TryAgain(c)
         \/ FallbackAnswers(c) \/ FallbackFails(c)
         \/ StreamEnds(c) \/ StreamBreaks(c)
    \/ CoolDown
ProvSpec == ProvInit /\ [][ProvNext]_provVars

-----------------------------------------------------------------------------
ProvTypeOK ==
    /\ hasFallback \in BOOLEAN /\ failCount \in 0..Threshold - 1 /\ openLeft \in 0..Cooldown
    /\ llm \in [LlmCalls -> LlmCall] /\ llmStarted \in 0..MaxLlmCalls

\* Failover is complete up to the reply: a call that got none fails only after everything it
\* may use has failed it.  With a fallback model that includes the fallback, whatever the
\* breaker said; the primary is spared only by a breaker that was open when the call asked,
\* and is otherwise tried as often as the kind of the call allows.  A stream that breaks
\* while it is read is the one other way to fail; it is then the stream of a model that had
\* not failed the call, and without a fallback model that of a primary asked at its first try.
FailsOnlyWhenAllFail ==
    \A c \in LlmCalls : llm[c].pc = "failed" =>
       IF llm[c].broken
       THEN /\ llm[c].kind = "stream" /\ ~llm[c].second
            /\ hasFallback \/ (llm[c].attempt = 0 /\ ~llm[c].met)
       ELSE /\ hasFallback => llm[c].second
            /\ llm[c].attempt = IF llm[c].met THEN 0 ELSE IF llm[c].kind = "stream" THEN 1 ELSE Retries + 1

=============================================================================
