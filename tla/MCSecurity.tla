----------------------------- MODULE MCSecurity -----------------------------
(***************************************************************************)
(* SecurityManager for TLC.                                                *)
(***************************************************************************)
EXTENDS SecurityManager

\* A request that keeps the policy, and one that breaks it in two ways.
GoodRequest == [secure |-> TRUE, type |-> "allowed", length |-> "fits",
                agent |-> "mail_service", largeHeader |-> FALSE]
BadRequest == [GoodRequest EXCEPT !.secure = FALSE, !.length = "no_number"]

\* A call for body b, signed for t and saying so, unless it says no time at all.
SignedCall(b, t, said, shape) ==
  [body |-> b, sig |-> CreateSignature(b, "s1", t), time |-> said, shape |-> shape]

\* Well-formed calls for now and later, and one of each kind of other call.
MCCalls ==
  {SignedCall(b, t, t, "bytes") : b \in Bodies, t \in Times}
  \cup {SignedCall("b1", 3, said, "bytes") : said \in {0, 1}}
  \cup {SignedCall("b1", 3, 3, shape) : shape \in {"not_json", "large", "bad_header", "error"}}

Plain(r) == [request |-> r, headers |-> {}, call |-> SignedCall("b1", 3, 3, "json")]
WithHeader(h, c) == [request |-> GoodRequest, headers |-> {h}, call |-> c]

\* Plain requests under every strategy and changing limits; signed calls under
\* changing secrets and tolerances; the rest of the configuration.
MCCampaigns ==
  {[samples |-> {Plain(GoodRequest)}, parts |-> {"rates"}, strategies |-> Strategies,
    setups |-> 1, calls |-> 5],
   [samples |-> {WithHeader("x-postmark-signature", c) : c \in MCCalls}, parts |-> {"hooks"},
    strategies |-> {"fixed_window"}, setups |-> 2, calls |-> 3],
   [samples |-> {Plain(GoodRequest), Plain(BadRequest),
                 WithHeader("x-webhook-signature", SignedCall("b1", 3, 3, "json"))},
    parts |-> {"hooks", "addresses", "threats", "audit"}, strategies |-> {"sliding_window"},
    setups |-> 2, calls |-> 3],
   [samples |-> {}, parts |-> {"contents"}, strategies |-> {"fixed_window"},
    setups |-> 0, calls |-> 1]}

\* The code filters its lists by a condition on the time of each entry. On lists in
\* the order of time that keeps what DropThrough keeps.
OrderedLists == {s \in UNION {[1 .. n -> 0 .. 3] : n \in 0 .. 4} :
                   \A i, j \in DOMAIN s : i < j => s[i] <= s[j]}

ASSUME FiltersAgree ==
  \A s \in OrderedLists, cutoff \in 0 .. 3 :
    DropThrough(s, {i \in DOMAIN s : s[i] <= cutoff})
      = SelectSeq(s, LAMBDA t : t > cutoff)

MCNetworks == {{"c1"}}
=============================================================================
