----------------------------- MODULE TokenUsage -----------------------------
(* runtime/usage.py and the part of runtime/hermes_api.py that makes of one
   call to the model server a proposal or an error, and an observation of the
   tokens the call used.

   A reply is what the server and the network make of one request: how far it
   got, the usage object of the body, and the content of the answer. *)
EXTENDS Integers, Sequences, FiniteSets, Functions

ChatFields == {"prompt_tokens", "completion_tokens"}
ResponseFields == {"input_tokens", "output_tokens"}
NotACount == -1

(* A usage member: its kind, and for an object the count of each known field. *)
NoUsage == [kind |-> "absent", counts |-> <<>>]
NotAnObject == [kind |-> "other", counts |-> <<>>]
UsageObject(counts) == [kind |-> "object", counts |-> counts]

Statuses == {"reported", "missing", "invalid", "unavailable"}
Failure(status) == [status |-> status, tokens |-> 0]

Family(fields) == IF fields \cap ResponseFields # {} THEN ResponseFields ELSE ChatFields

(* normalize_response_usage *)
WellFormed(counts) ==
  LET parts == Family(DOMAIN counts) IN
  /\ DOMAIN counts = parts \cup {"total_tokens"}
  /\ \A f \in DOMAIN counts : counts[f] # NotACount
  /\ counts["total_tokens"] > 0
  /\ counts["total_tokens"] = SumFunctionOnSet(counts, parts)

NormalizedUsage(usage) ==
  CASE usage.kind = "absent" -> Failure("missing")
    [] usage.kind = "object" /\ WellFormed(usage.counts) ->
         [status |-> "reported", tokens |-> usage.counts["total_tokens"]]
    [] OTHER -> Failure("invalid")

-----------------------------------------------------------------------------
(* One request. *)

(* The exceptions of urlopen and read that propose handles. *)
HandledFailures == {"http_error", "timeout", "connection_failed"}

(* What the adapter appends to usage_records.  The connection lost after the
   request was sent is an exception no handler names. *)
Observed(reply) ==
  CASE reply.transport \in HandledFailures \cup {"json_invalid"} -> <<Failure("unavailable")>>
    [] reply.transport = "answered" -> <<NormalizedUsage(reply.usage)>>
    [] reply.transport = "disconnected" -> <<>>

(* parse_proposal_content: one JSON object of the proposal's shape, alone or in
   one fence. *)
Admits(content) == content.form \in {"json", "fenced"}

Returned(reply) == reply.transport = "answered" /\ Admits(reply.content)

-----------------------------------------------------------------------------
(* summarize_usage.  An observation whose total cannot be trusted is counted
   by its status, or as invalid. *)

CountOf(records, status) == Cardinality({i \in DOMAIN records : records[i].status = status})

Monus(a, b) == IF a > b THEN a - b ELSE 0

UsageSummary(records, calls) ==
  LET reported == CountOf(records, "reported") IN
  [calls      |-> calls,
   reported   |-> reported,
   failed     |-> Len(records) - reported,
   unobserved |-> Monus(calls, Len(records)),
   unexpected |-> Monus(Len(records), calls),
   tokens     |-> SumFunction([i \in DOMAIN records |-> records[i].tokens])]

(* Faulty variant: what was observed was reported, whatever was called. *)
CompleteIfObserved(summary) == summary.failed = 0

UsageComplete(summary) ==
  /\ summary.reported = summary.calls
  /\ summary.failed = 0
  /\ summary.unobserved = 0
  /\ summary.unexpected = 0
=============================================================================
