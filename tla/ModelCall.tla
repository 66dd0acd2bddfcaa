------------------------------ MODULE ModelCall ------------------------------
(***************************************************************************)
(* One call of a model.  Whom to ask is settled by Router::route_all       *)
(* (ratchet-core/src/routing.rs) and the settings that the caller hands    *)
(* it; FailoverProvider::complete and retry_async                          *)
(* (ratchet-providers/src/resilience.rs) then ask.  The executor goes      *)
(* through both.  The planner and the conversation of a session take the   *)
(* first provider of the route and ask it once.                            *)
(***************************************************************************)
EXTENDS Naturals, Sequences, SequencesExt

CONSTANTS
    Providers,      \* names of the configured providers
    Unknown,        \* a name in the settings or the plan that is no provider's
    NoName,         \* a setting that is absent
    MaxAttempts     \* bound on RetryPolicy::max_attempts

ASSUME ModelCallAssumption ==
    /\ Providers # {} /\ IsFiniteSet(Providers)
    /\ Unknown \notin Providers \cup {NoName}
    /\ NoName \notin Providers
    /\ MaxAttempts \in Nat

VARIABLES
    caller,         \* who makes the call
    capable,        \* providers that meet the role's required capabilities
    place,          \* where the policy puts a provider: by score, by cost, local
                    \* first, or (policy "fixed") all at the same place
    maxAttempts,    \* RetryPolicy::max_attempts; 0 is accepted
    phase,          \* "route", "asking", "answered" or "failed"
    preferred,      \* preferred_model of the routing request
    candidates,     \* the providers of the FailoverProvider, in order
    at,             \* position of the candidate being asked
    failures,       \* failures of its retry loop
    asked,          \* history: how often each provider was asked
    refused         \* history: providers that answered with a permanent error

inputs  == <<caller, capable, place, maxAttempts>>
history == <<asked, refused>>
vars == <<inputs, phase, preferred, candidates, at, failures, history>>

Callers == {"executor", "planner", "conversation"}

TypeOK ==
    /\ caller \in Callers
    /\ capable \in SUBSET Providers
    /\ place \in [Providers -> {1, 2}]
    /\ maxAttempts \in 0 .. MaxAttempts
    /\ phase \in {"route", "asking", "answered", "failed"}
    /\ preferred \in Providers \cup {Unknown, NoName}
    /\ candidates \in Seq(Providers)
    /\ at \in Nat
    /\ phase = "asking" => at \in DOMAIN candidates
    /\ failures \in Nat
    /\ asked \in [Providers -> Nat]
    /\ refused \in SUBSET Providers

Init ==
    /\ caller \in Callers
    /\ capable \in SUBSET Providers
    /\ place \in [Providers -> {1, 2}]
    /\ maxAttempts \in 0 .. MaxAttempts
    /\ phase = "route"
    /\ preferred = NoName
    /\ candidates = <<>>
    /\ at = 0 /\ failures = 0
    /\ asked = [p \in Providers |-> 0]
    /\ refused = {}
-----------------------------------------------------------------------------
(***************************************************************************)
(* provider_for, plan, converse and Router::route_all.                     *)
(***************************************************************************)

\* The settings that may name a provider, strongest first.
Settings ==
    CASE caller = "executor" -> <<"override", "role", "pinned", "default">>
      [] caller = "planner"  -> <<"override", "role", "planning">>
      [] OTHER               -> <<"override", "role", "planning", "default">>

\* The first setting that is there, whether or not it names a provider.
Strongest(names) ==
    LET present == {k \in DOMAIN names : names[k] # NoName}
    IN  IF present = {} THEN NoName
        ELSE names[CHOOSE k \in present : \A l \in present : k <= l]

\* Mutant: the providers are not filtered by capability.
PoolOfAll == Providers

\* rank's pool: the capable providers, or everyone if there are none.
Pool == IF capable = {} THEN Providers ELSE capable

\* The order of a hash map is any order; sort_by keeps it where places are equal.
Ranked(S) == {s \in SetToSeqs(S) : \A k, l \in DOMAIN s : k < l => place[s[k]] <= place[s[l]]}

Explicit(name) == Providers \cap {name}
Fitting(name)  == Pool \ Explicit(name)
LastResort(name) == Providers \ (Pool \cup Explicit(name))

\* route_all: the preferred provider, the ranked ones, and the rest as fallback.
RouteAll(name) ==
    {h \o b \o t : h \in SetToSeqs(Explicit(name)),
                   b \in Ranked(Fitting(name)),
                   t \in SetToSeqs(LastResort(name))}

\* Only the executor asks more than the first provider.
Candidates(route) == IF caller = "executor" THEN route ELSE <<route[1]>>

Route ==
    /\ phase = "route"
    /\ \E names \in [DOMAIN Settings -> Providers \cup {Unknown, NoName}] :
         preferred' = Strongest(names)
    /\ \E route \in RouteAll(preferred') : candidates' = Candidates(route)
    /\ phase' = "asking" /\ at' = 1
    /\ UNCHANGED <<inputs, failures, history>>
-----------------------------------------------------------------------------
(***************************************************************************)
(* FailoverProvider::complete and retry_async.                             *)
(***************************************************************************)
Asked == candidates[at]

\* delay_after_failure gives no delay once the attempts are used up.
Attempts == IF caller = "executor" THEN maxAttempts ELSE 1

Retry == failures + 1 < Attempts

HasNext == at < Len(candidates)

\* A provider that has given up hands off to the next.
HandOff ==
    IF HasNext
    THEN at' = at + 1 /\ failures' = 0 /\ UNCHANGED phase
    ELSE phase' = "failed" /\ UNCHANGED <<at, failures>>

Count == asked' = [asked EXCEPT ![Asked] = @ + 1]

Answer ==
    /\ phase = "asking" /\ Count
    /\ phase' = "answered"
    /\ UNCHANGED <<inputs, preferred, candidates, at, failures, refused>>

\* An error that is_retryable: rate limits, timeouts, 5xx, broken streams.
TransientError ==
    /\ phase = "asking" /\ Count
    /\ IF Retry
       THEN failures' = failures + 1 /\ UNCHANGED <<phase, at>>
       ELSE HandOff
    /\ UNCHANGED <<inputs, preferred, candidates, refused>>

\* Mutant: every error is retried.
PermanentErrorRetried ==
    /\ phase = "asking" /\ Count
    /\ refused' = refused \cup {Asked}
    /\ IF Retry
       THEN failures' = failures + 1 /\ UNCHANGED <<phase, at>>
       ELSE HandOff
    /\ UNCHANGED <<inputs, preferred, candidates>>

\* Any other error ends the retry loop, and the next provider is asked.
PermanentError ==
    /\ phase = "asking" /\ Count
    /\ refused' = refused \cup {Asked}
    /\ HandOff
    /\ UNCHANGED <<inputs, preferred, candidates>>

Next == Route \/ Answer \/ TransientError \/ PermanentError

Spec == Init /\ [][Next]_vars
-----------------------------------------------------------------------------
(***************************************************************************)
(* Properties.                                                             *)
(***************************************************************************)

\* max_attempts counts the first attempt, so 0 asks once all the same.
Budget == IF Attempts = 0 THEN 1 ELSE Attempts

GaveUp(p) == p \in refused \/ asked[p] = Budget

\* "If one provider is down, the router's ranked candidates are tried in order,
\* so an outage on one backend does not block work another could serve": the
\* executor's call fails only after every configured provider, whatever it can
\* do and wherever it was ranked, refused or failed as often as it may.
FailureIsExhaustive ==
    phase = "failed" /\ caller = "executor" => \A p \in Providers : GaveUp(p)

\* "Permanent failures are not retried -- that would only burn time and
\* tokens": no provider is asked again after a permanent error, and none more
\* often than the policy allows.
NothingIsBurnt ==
    [][\A p \in Providers :
          asked'[p] # asked[p] => p \notin refused /\ asked'[p] <= Budget]_asked

\* How a call prefers providers: the one asked for by name, then those that can
\* do the work by the policy's order, then the others.
Better(p, q) ==
    /\ q # preferred
    /\ \/ p = preferred
       \/ p \in capable /\ q \notin capable
       \/ p \in Pool /\ q \in Pool /\ place[p] < place[q]

\* A provider is asked only when every better one has given up: neither an
\* unknown name among the settings nor the order of a hash map lets a provider
\* that cannot do the work, or that the policy puts behind, go first.
BetterFirst ==
    \A p, q \in Providers : asked[q] > 0 /\ Better(p, q) => GaveUp(p)

\* The candidates of a call are taken in their turn, and all of them.
CandidatesInTurn == BetterFirst /\ FailureIsExhaustive
=============================================================================
