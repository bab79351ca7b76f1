------------------------------ MODULE ProviderCall ------------------------------
(* One request to the provider of the AI, as complete() and compareImages() of      *)
(* ai/ai.service.ts make it: what comes back from OpenAI over HTTP, the error that   *)
(* the provider makes of it, and what the retry loop makes of that error.  OpenAI    *)
(* is the only provider that is implemented; AiMatching has the loop for any.       *)
EXTENDS Naturals

CONSTANTS MaxRetries,   \* AI_MAX_RETRIES
          Providers     \* what AI_PROVIDER and AI_VISION_PROVIDER may name

VARIABLES kind,         \* a text completion or a comparison of images
          provider,     \* the provider chosen for it
          keys,         \* the providers with a key
          pc, attempt,  \* the loop
          came          \* what came back last

vars == <<kind, provider, keys, pc, attempt, came>>

(* What may come back: a text of the model, a status of HTTP with an error in JSON,  *)
(* a body that is no JSON, one without content, no answer in time, or none at all.   *)
Statuses  == {400, 401, 429, 500, 503}
Answered  == {"text", "no json", "no content"}
Rejected  == {"timeout", "network"}
Came      == [status : {200}, body : Answered] \cup [status : Statuses, body : {"error", "no json"}]
             \cup [status : {0}, body : Rejected]
Nothing   == [status |-> 0, body |-> "nothing"]

(* What the documentation calls a passing failure: 429, 5xx, a timeout, the network. *)
Transient(c) == c.status \in {429, 500, 503} \/ c.body \in Rejected

Init ==
    /\ kind \in {"text", "images"} /\ provider \in Providers
    /\ keys \in SUBSET Providers
    /\ pc = "begin" /\ attempt = 0 /\ came = Nothing

-----------------------------------------------------------------------------
(* resolveEnabled, with AI_ENABLED left out, and isConfigured: the provider has a key. *)
Enabled == provider \in keys

Begin ==
    /\ pc = "begin"
    /\ pc' = IF Enabled THEN "asking" ELSE "refused"
    /\ UNCHANGED <<kind, provider, keys, attempt, came>>

(* The providers' errors.  A rejected fetch is caught and wrapped as well; what the   *)
(* vision model says must be JSON itself.                                            *)
EngineError(code) == [engine |-> TRUE, code |-> code]

Implemented == provider = "openai"

ErrorOf(c) ==
    IF ~Implemented THEN EngineError("NOT_IMPLEMENTED")
    ELSE IF c.status = 200 /\ c.body = "text" THEN EngineError("INVALID_REQUEST")
    ELSE EngineError("PROVIDER_ERROR")

(* isRetryable.  Errors of another class would be looked at for their status or cause, *)
(* but no provider throws one.                                                      *)
IsRetryable(e) == e.engine /\ e.code \in {"RATE_LIMITED", "PROVIDER_UNAVAILABLE"}

WillRetry(e) == IsRetryable(e) /\ attempt < MaxRetries

Ask ==
    /\ pc = "asking"
    /\ came' \in IF Implemented THEN Came ELSE {Nothing}
    /\ \/ /\ came'.status = 200 /\ came'.body = "text"
          /\ pc' = "answered" /\ UNCHANGED attempt
       \/ /\ came'.status = 200 /\ came'.body = "text" => kind = "images"
          /\ IF WillRetry(ErrorOf(came'))
             THEN /\ attempt' = attempt + 1 /\ UNCHANGED pc
             ELSE pc' = "failed" /\ UNCHANGED attempt
    /\ UNCHANGED <<kind, provider, keys>>

Next == Begin \/ Ask

Spec == Init /\ [][Next]_vars

-----------------------------------------------------------------------------
(* A passing failure (HTTP 429 or 5xx, a timeout, the network) is reported only      *)
(* after it was tried again AI_MAX_RETRIES times, as docs/환경변수.md and the order of  *)
(* work that introduced isRetryable say of it.                                      *)
TransientRetried == pc = "failed" /\ Transient(came) => attempt = MaxRetries

=============================================================================
