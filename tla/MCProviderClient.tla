--------------------------- MODULE MCProviderClient ---------------------------
(***************************************************************************)
(* Two callers, two attempts of a post and one repair, and one answer of   *)
(* every kind the client tells apart.                                      *)
(***************************************************************************)
EXTENDS ProviderClient

CONSTANTS c1, c2

MCCallers == {c1, c2}
MCItems == {"x", "y"}

Response(status, names, body, header, content, usage) ==
  [kind |-> "response", status |-> status, names |-> names, body |-> body, header |-> header,
   content |-> content, usage |-> usage]
Status(status) == Response(status, None, NoHint, NoHint, None, FALSE)
Content(content) == Response(200, None, NoHint, NoHint, content, TRUE)

MCAnswers ==
  {[kind |-> "timeout"], Status(409), Status(503), Status(400),
   Response(429, "day", NoHint, 1, None, FALSE), Response(429, None, 0, 5, None, FALSE),
   Content("no_json"), Content("empty"), Content("valid")}
MCEnvelopes ==
  {<<[id |-> "x", valid |-> TRUE], [id |-> "y", valid |-> FALSE], [id |-> "z", valid |-> TRUE]>>,
   <<[id |-> "x", valid |-> TRUE], [id |-> "x", valid |-> TRUE], [id |-> "y", valid |-> TRUE]>>}

=============================================================================
