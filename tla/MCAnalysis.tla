----------------------------- MODULE MCAnalysis -----------------------------
(***************************************************************************)
(* Analysis for TLC.                                                       *)
(***************************************************************************)
EXTENDS Analysis

Line(words, fact, phrases) == [words |-> words, fact |-> fact, phrases |-> phrases]
MCEmails ==
  {{Line({"idiot", "hate"}, FALSE, {}), Line({"stupid"}, TRUE, {{"stupid"}, {}})},
   {Line({"terrible"}, TRUE, {}), Line({"annoying"}, FALSE, {{}})},
   {Line({"annoying"}, FALSE, {})}}

Item(form, h, c) == [form |-> form, horseman |-> h, confidence |-> c]
Object(items) == [kind |-> "object", items |-> items]
MCAnswers ==
  {[kind |-> "none", items |-> {}], [kind |-> "cut", items |-> {}],
   Object({Item("dict", "contempt", 80)}), Object({Item("dict", "contempt", 40), Item("name", "criticism", Unrated)}),
   Object({Item("dict", "contempt", 60), Item("dict", "stonewalling", 51)}),
   Object({Item("dict", "criticism", 70), Item("dict", "criticism", 90), Item("dict", Unnamed, 60)}),
   Object({Item("dict", "criticism", 70), Item("name", "defensiveness", Unrated), Item("name", "stonewalling", Unrated)}),
   Object({Item("dict", "criticism", Unrated), Item("other", Unnamed, Unrated)}),
   Object({Item("dict", "contempt", 150)})}

Text(raw, norm, words, marks) == [raw |-> raw, norm |-> norm, words |-> words, marks |-> marks]
MCTexts ==
  {Text("A", "a", {}, {"delivery"}), Text("B", "b", {"criticism"}, {}), Text(" b", "b", {"criticism"}, {}),
   Text("C", "c", {"contempt"}, {"courtesy"})}

ModelReply(kind, class, horsemen) == [kind |-> kind, class |-> class, horsemen |-> horsemen]
MCReplies ==
  {ModelReply("down", Absent, {}), ModelReply("object", "WARNING", {"criticism"}), ModelReply("object", Absent, {}), ModelReply("malformed", Absent, {}),
   ModelReply("object", "ABUSIVE", {"contempt"})}

MCTtl == "safe_business" :> 4 @@ "safe_personal" :> 3 @@ "suspicious" :> 2 @@ "harmful" :> 1
=============================================================================
