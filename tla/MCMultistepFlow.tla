-------------------------- MODULE MCMultistepFlow --------------------------
(* Two steps of one task: a reservation and its release.  The model may also
   propose what the tool rejects, or what the scope does not allow. *)
EXTENDS MultistepFlow

Op(id, step, kind, quantity, version, reservation) ==
  [id |-> id, task |-> "t", step |-> step, kind |-> kind, product |-> "p",
   quantity |-> quantity, version |-> version, reservation |-> reservation]

Proposals ==
  {Op("op1", "s1", "reserve", 1, 0, "none"),
   Op("op1", "s1", "reserve", 2, 0, "none"),
   Op("op2", "s2", "release", 1, 1, "op1"),
   Op("op2", "s2", "reserve", 1, 1, "none")}

Envelope(id, step, kinds, references) ==
  [id |-> id, task |-> "t", step |-> step, kinds |-> kinds, products |-> {"p"},
   max_quantity |-> 2, reservations |-> references]

Envelopes ==
  {Envelope("op1", "s1", {"reserve"}, {}),
   Envelope("op2", "s2", {"release"}, {<<"op1", "p", 1>>})}

TwoSteps ==
  <<[id |-> "op1", continue_on |-> {"applied", "abstained"}],
    [id |-> "op2", continue_on |-> {}]>>
=============================================================================
