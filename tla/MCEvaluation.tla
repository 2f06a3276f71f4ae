---------------------------- MODULE MCEvaluation ----------------------------
(* Two slots and two cases of two domains.  The tables are made of pairs of
   trials of a case, in which the controller gains, loses or ties, or one of the
   two conditions loses its runtime.  For the rounding of means: three slots,
   as many as the protocol has, and three cases, each trial of which is passed
   by the controller or by the direct answer, never by both: no criterion
   compares a mean there that was rounded from an exact half. *)
EXTENDS Evaluation

TwoSlots == <<"s1", "s2">>
ThreeSlots == <<"s1", "s2", "s3">>
CaseSeq == <<"k1", "k2">>
DomainOfCase == ("k1" :> "d1") @@ ("k2" :> "d2")

ThreeCases == <<"k1", "k2", "k3">>
DomainOfThree == DomainOfCase @@ ("k3" :> "d1")

TwoDomains == ("d1" :> 1) @@ ("d2" :> 1)
OneLarger == ("d1" :> 2) @@ ("d2" :> 1)
OneDomain == ("d1" :> 2)
SuiteCounts == ("suite" :> TwoDomains) @@ ("revised" :> TwoDomains) @@ ("larger" :> OneLarger)
                 @@ ("narrow" :> OneDomain)

Level == <<3, 5>>
Registered == [minPositive |-> 2, maxNegative |-> 1, maxRegressions |-> 0,
               maxCalls |-> <<3, 2>>, maxRatio |-> <<3, 2>>]

-----------------------------------------------------------------------------
(* What the server may answer. *)
Seen(fails, matches, distance) == [fails |-> fails, matches |-> matches, distance |-> distance]

ProposalSet ==
  {Seen({}, TRUE, 0), Seen({}, FALSE, 1), Seen({"rule"}, FALSE, 1), Seen({"rule", "action"}, FALSE, 2)}

Chat == UsageObject(("prompt_tokens" :> 4) @@ ("completion_tokens" :> 6) @@ ("total_tokens" :> 10))
Mixed == UsageObject(("prompt_tokens" :> 4) @@ ("output_tokens" :> 6) @@ ("total_tokens" :> 10))

ReplyOf(transport, usage, form, proposal, fault) ==
  [transport |-> transport, usage |-> usage,
   content |-> [form |-> form, proposal |-> proposal], fault |-> fault]

Right == Seen({}, TRUE, 0)

ServerReplies ==
  {ReplyOf("answered", Chat, "json", p, FALSE) : p \in ProposalSet}
    \cup {ReplyOf(t, NoUsage, "none", Right, TRUE) : t \in {"timeout", "json_invalid", "disconnected"}}
    \cup {ReplyOf("answered", Mixed, "fenced", Right, TRUE),
          ReplyOf("answered", NoUsage, "json", Right, TRUE),
          ReplyOf("answered", Chat, "text", Right, TRUE)}

-----------------------------------------------------------------------------
(* Tables of trials. *)
Counted(n) == [i \in 1 .. n |-> [status |-> "reported", tokens |-> 10]]

Outcome(passed, calls) ==
  [passed |-> passed, completed |-> TRUE, regressed |-> FALSE, calls |-> calls,
   records |-> Counted(calls)]

Disconnected == [passed |-> FALSE, completed |-> FALSE, regressed |-> FALSE, calls |-> 1,
                 records |-> <<>>]

Trial(k, direct, dohaa) ==
  [case |-> k, on |-> ("direct" :> direct) @@ ("dohaa" :> dohaa)
                        @@ ("self_reflection" :> Outcome(TRUE, 2))]

Same(k) == Trial(k, Outcome(TRUE, 1), Outcome(TRUE, 1))
Gain(k) == Trial(k, Outcome(FALSE, 1), Outcome(TRUE, 2))
Loss(k) == Trial(k, Outcome(TRUE, 1), Outcome(FALSE, 2))
Lost(k) == Trial(k, Outcome(FALSE, 1), Disconnected)
Refused(k) ==
  Trial(k, [Disconnected EXCEPT !.records = <<Failure("unavailable")>>], Outcome(TRUE, 1))

Pairs(k) == {<<Same(k), Same(k)>>, <<Gain(k), Same(k)>>, <<Loss(k), Same(k)>>,
             <<Gain(k), Lost(k)>>, <<Gain(k), Gain(k)>>, <<Refused(k), Same(k)>>}

AllTables == {a \o b : a \in Pairs("k1"), b \in Pairs("k2")}
TwoTables == {<<Gain("k1"), Same("k1"), Same("k2"), Same("k2")>>,
              <<Same("k1"), Same("k1"), Gain("k2"), Lost("k2")>>}

BothAlike(k) == {<<Gain(k), Gain(k)>>, <<Loss(k), Loss(k)>>}
Contested(k) == BothAlike(k) \cup {<<Gain(k), Loss(k)>>}
DecidedTables == {a \o b \o c : a \in BothAlike("k1"), b \in BothAlike("k2"), c \in Contested("k3")}
OneTable == {<<Gain("k1"), Gain("k1"), Gain("k2"), Gain("k2"), Gain("k3"), Loss("k3")>>}

(* The protocol is of the magnitudes that VerdictsEarned asks for. *)
ASSUME Magnitudes == ProtocolMagnitudes

Symmetry == Permutations(Runs) \cup Permutations(Outputs)
=============================================================================
