------------------------------ MODULE LlmClient ------------------------------
(***************************************************************************)
(* LlmClientService: the one door to the language model.  Calls to         *)
(* complete wait for each other in a chain of promises, a rate limit cools *)
(* the whole process down, a call repeats its request after the pause the  *)
(* provider asked for, and when the primary provider keeps asking for one  *)
(* the request goes to the relief provider, which keeps the traffic for a  *)
(* while.                                                                  *)
(*                                                                         *)
(* Time is a tick that every countdown follows; a request may take any     *)
(* number of ticks.  What a provider answers is a choice.                  *)
(***************************************************************************)
EXTENDS Integers, FiniteSets

CONSTANTS
    Callers,            \* calls of complete
    NoCaller,
    MaximumAttempts,    \* MAXIMUM_ATTEMPTS
    MaximumRetry,       \* MAXIMUM_RETRY_MILLISECONDS, in ticks
    ReliefWindow        \* RELIEF_WINDOW_MILLISECONDS, in ticks

ASSUME LlmClientAssumption ==
    /\ NoCaller \notin Callers
    /\ MaximumAttempts \in 1..5    \* 5 in the code
    /\ MaximumRetry \in Nat \ {0}
    /\ ReliefWindow \in Nat /\ ReliefWindow >= MaximumRetry

Providers == {"primary", "relief"}

VARIABLES
    hasRelief,  \* whether the configuration names a relief provider
    last,       \* the call at the end of the chain
    after,      \* after[c]: the call that c was chained to
    at,         \* at[c]: where call c is
    provider,   \* provider[c]: whom it asks
    attempt,    \* attempt[c]: which of its attempts this is
    wait,       \* wait[c]: what is left of the pause it sleeps through
    cooldown,   \* what is left until cooldownUntil
    window,     \* what is left until reliefUntil
    asked       \* asked[p]: what is left of the longest pause of p, capped (ghost)

clientVars == <<hasRelief, last, after, at, provider, attempt, wait, cooldown, window, asked>>

CallStages == {"idle", "queued", "cooling", "asking", "pausing", "answered", "failed"}

ClientTypeOK ==
    /\ hasRelief \in BOOLEAN
    /\ last \in Callers \cup {NoCaller} /\ after \in [Callers -> Callers \cup {NoCaller}]
    /\ at \in [Callers -> CallStages] /\ provider \in [Callers -> Providers]
    /\ attempt \in [Callers -> 1..MaximumAttempts] /\ wait \in [Callers -> 0..MaximumRetry]
    /\ cooldown \in 0..MaximumRetry /\ window \in 0..ReliefWindow
    /\ asked \in [Providers -> 0..MaximumRetry]

ClientInit ==
    /\ hasRelief \in BOOLEAN
    /\ last = NoCaller /\ after = [c \in Callers |-> NoCaller]
    /\ at = [c \in Callers |-> "idle"] /\ provider = [c \in Callers |-> "primary"]
    /\ attempt = [c \in Callers |-> 1] /\ wait = [c \in Callers |-> 0]
    /\ cooldown = 0 /\ window = 0 /\ asked = [p \in Providers |-> 0]

Larger(a, b) == IF a >= b THEN a ELSE b
Smaller(a, b) == IF a <= b THEN a ELSE b

\* providerPauseMilliseconds: from the default pause to the longest one.
Pauses == 1..MaximumRetry

-----------------------------------------------------------------------------
(* Faulty variants of the definitions below: the mistakes the properties are     *)
(* there to catch.  ClientSpec uses none of them.                                *)

\* A chain that only a success releases.
ReleasedBySuccess(c) == \A b \in Callers : b = after[c] => at[b] = "answered"

\* The same short pause before every attempt.
ShortRetry(pause, n) == 1

-----------------------------------------------------------------------------
(* enqueue *)

ChainedTo(c) == last

Enqueue(c) ==
    /\ at[c] = "idle"
    /\ after' = [after EXCEPT ![c] = ChainedTo(c)] /\ last' = c
    /\ at' = [at EXCEPT ![c] = "queued"]
    /\ UNCHANGED <<hasRelief, provider, attempt, wait, cooldown, window, asked>>

\* The chain goes on whether the call before was answered or failed.
Released(c) == \A b \in Callers : b = after[c] => at[b] \in {"answered", "failed"}

WaitForCooldown(c) ==
    /\ at[c] = "queued" /\ Released(c)
    /\ at' = [at EXCEPT ![c] = "cooling"]
    /\ wait' = [wait EXCEPT ![c] = cooldown]
    /\ UNCHANGED <<hasRelief, last, after, provider, attempt, cooldown, window, asked>>

-----------------------------------------------------------------------------
(* attemptWithRelief, attempt and request *)

\* The relief provider keeps the traffic while its window lasts.
FirstProvider == IF hasRelief /\ window > 0 THEN "relief" ELSE "primary"

Begin(c) ==
    /\ at[c] = "cooling" /\ wait[c] = 0
    /\ at' = [at EXCEPT ![c] = "asking"]
    /\ provider' = [provider EXCEPT ![c] = FirstProvider]
    /\ UNCHANGED <<hasRelief, last, after, attempt, wait, cooldown, window, asked>>

\* Why a call fails at once: what it sends or its configuration is refused,
LocalFailures == {"not configured", "too large a request"}

\* the exchange fails,
RequestFailures == {"redirect", "http status", "timeout", "interrupted", "too large", "no reply"}

\* the stream breaks off or is not one,
StreamFailures == {"not a stream", "malformed stream", "timeout", "too large"}

\* or the completion is cut off or malformed, or used more tokens than it may.
CompletionFailures == {"malformed", "truncated"}
MessageFailures == {"malformed message", "malformed tool call"}
UsageFailures == {"malformed usage", "too many tokens"}

Failures == LocalFailures \cup RequestFailures \cup StreamFailures
                \cup CompletionFailures \cup MessageFailures \cup UsageFailures

Settle(c, status) ==
    /\ at' = [at EXCEPT ![c] = status]
    /\ UNCHANGED <<hasRelief, last, after, provider, attempt, wait, window>>

\* The reply is read and parsed, or is refused for one of these reasons.
Reply(c, reason) ==
    /\ at[c] = "asking"
    /\ Settle(c, IF reason \in Failures THEN "failed" ELSE "answered")
    /\ UNCHANGED <<cooldown, asked>>

NoteRateLimit(pause) == cooldown' = Larger(cooldown, pause)

\* The pause before the next attempt.
RetryWait(pause, n) == Smaller(MaximumRetry, pause * 2 ^ (n - 1))

\* A rate limit, or an overloaded provider, with attempts left.
Retry(c, pause) ==
    /\ attempt[c] < MaximumAttempts
    /\ LET sleep == RetryWait(pause, attempt[c]) IN
        /\ NoteRateLimit(sleep)
        /\ wait' = [wait EXCEPT ![c] = sleep]
    /\ attempt' = [attempt EXCEPT ![c] = @ + 1]
    /\ at' = [at EXCEPT ![c] = "pausing"]
    /\ UNCHANGED <<hasRelief, last, after, provider, window>>

\* The last attempt of the primary provider: the relief is asked, once and at once.
Relieve(c, pause) ==
    /\ attempt[c] = MaximumAttempts /\ hasRelief /\ provider[c] = "primary"
    /\ NoteRateLimit(pause)
    /\ window' = ReliefWindow
    /\ provider' = [provider EXCEPT ![c] = "relief"]
    /\ attempt' = [attempt EXCEPT ![c] = 1]
    /\ UNCHANGED <<hasRelief, last, after, at, wait>>

GiveUp(c, pause) ==
    /\ attempt[c] = MaximumAttempts /\ (~hasRelief \/ provider[c] = "relief")
    /\ NoteRateLimit(pause)
    /\ Settle(c, "failed")

RateLimited(c, pause) ==
    /\ at[c] = "asking"
    /\ asked' = [asked EXCEPT ![provider[c]] = Larger(@, pause)]
    /\ Retry(c, pause) \/ Relieve(c, pause) \/ GiveUp(c, pause)

Resume(c) ==
    /\ at[c] = "pausing" /\ wait[c] = 0
    /\ at' = [at EXCEPT ![c] = "asking"]
    /\ UNCHANGED <<hasRelief, last, after, provider, attempt, wait, cooldown, window, asked>>

Less(n) == IF n = 0 THEN 0 ELSE n - 1

Tick ==
    /\ wait' = [c \in Callers |-> Less(wait[c])]
    /\ cooldown' = Less(cooldown) /\ window' = Less(window)
    /\ asked' = [p \in Providers |-> Less(asked[p])]
    /\ UNCHANGED <<hasRelief, last, after, at, provider, attempt>>

Progress(c) ==
    \/ WaitForCooldown(c) \/ Begin(c) \/ Resume(c)
    \/ \E reason \in Failures \cup {"none"} : Reply(c, reason)
    \/ \E pause \in Pauses : RateLimited(c, pause)

ClientNext == Tick \/ \E c \in Callers : Enqueue(c) \/ Progress(c)

ClientSpec == ClientInit /\ [][ClientNext]_clientVars

\* The timers fire, and every request ends: with its reply or with its timeout.
FairClientSpec == ClientSpec /\ WF_clientVars(Tick) /\ \A c \in Callers : WF_clientVars(Progress(c))

-----------------------------------------------------------------------------
(* Properties *)

Asks(c, p) ==
    /\ at'[c] = "asking" /\ provider'[c] = p
    /\ at[c] # "asking" \/ provider[c] # p

\* No request is sent to a provider before the pause it asked for, capped, is over, whichever
\* call it was asked of: not by the next attempt, the next call or the return from the relief.
PausesAreHonoured == [][\A c \in Callers, p \in Providers : Asks(c, p) => asked[p] = 0]_clientVars

\* Every call ends, whatever became of the calls before it.
CallsEnd == \A c \in Callers : at[c] = "queued" ~> at[c] \in {"answered", "failed"}
=============================================================================
