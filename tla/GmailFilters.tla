----------------------------- MODULE GmailFilters -----------------------------
(***************************************************************************)
(* services/gmail_filter_manager.py: filters and labels of one mailbox. A  *)
(* call is a chain of requests to Gmail, each of which may be refused, and *)
(* calls for one mailbox may run in several processes.                     *)
(***************************************************************************)
EXTENDS Integers, Sequences

CONSTANTS
  Workers,        \* processes that manage the mailbox
  Senders,        \* addresses filters are about
  MaxCalls        \* bound: calls in one behaviour

VARIABLES
  labels,         \* names of the labels the mailbox has
  filters,        \* its filters: id, sender, kind, label
  todo,           \* per worker, what is left of its call
  made            \* calls begun

filterVars == <<labels, filters, todo, made>>

Parent == "CellophoneMail"
Nested == {"Toxic", "Warning", "Safe"}
NoLabel == "no label"
Free == [call |-> 0, kind |-> "none", sender |-> "none", want |-> <<>>, step |-> "none", seen |-> {}]

FiltersInit ==
  labels = {} /\ filters = {} /\ todo = [w \in Workers |-> Free] /\ made = 0
-----------------------------------------------------------------------------
Begin(w, kind, sender, want) ==
  /\ todo[w] = Free /\ made < MaxCalls
  /\ made' = made + 1
  /\ todo' = [todo EXCEPT ![w] = [call |-> made + 1, kind |-> kind, sender |-> sender, want |-> want,
                                  step |-> IF want = <<>> THEN "filter" ELSE "list", seen |-> {}]]
  /\ UNCHANGED <<labels, filters>>

\* add_abuser_to_gmail_filter and create_abuser_filter: the label, then the filter.
BlockSender(w, s) == Begin(w, "block", s, <<"Toxic">>)
CreateSafeSenderFilter(w, s) == Begin(w, "safe", s, <<>>)
\* create_four_horsemen_filters makes the labels, and no filter.
CreateFourHorsemenFilters(w) == Begin(w, "labels", "none", <<Parent, "Toxic", "Warning", "Safe">>)

To(w, step, seen) == todo' = [todo EXCEPT ![w].step = step, ![w].seen = seen]

\* The label is there: the next one, then the filter if the call makes one.
Ensured(w) ==
  LET rest == Tail(todo[w].want)
  IN todo' = [todo EXCEPT ![w] =
       IF rest # <<>> THEN [@ EXCEPT !.want = rest, !.step = "list", !.seen = {}]
       ELSE IF @.kind = "labels" THEN Free ELSE [@ EXCEPT !.step = "filter", !.seen = {}]]

\* _ensure_label_exists lists the labels once, and decides from that list.
\* Seeded fault: the parent is left out.
ListLabelsFlat(w) ==
  /\ todo[w].step = "list"
  /\ IF Head(todo[w].want) \in labels THEN Ensured(w) ELSE To(w, "create", labels)
  /\ UNCHANGED <<labels, filters, made>>
ListLabels(w) ==
  /\ todo[w].step = "list"
  /\ LET name == Head(todo[w].want)
     IN IF name \in labels THEN Ensured(w)
        ELSE To(w, IF name \in Nested /\ Parent \notin labels THEN "parent" ELSE "create", labels)
  /\ UNCHANGED <<labels, filters, made>>

\* Gmail refuses a name that exists, which raises as any other error does.
CreateParent(w) ==
  /\ todo[w].step = "parent" /\ Parent \notin labels
  /\ labels' = labels \cup {Parent}
  /\ To(w, "create", todo[w].seen)
  /\ UNCHANGED <<filters, made>>

CreateLabel(w) ==
  /\ todo[w].step = "create" /\ Head(todo[w].want) \notin labels
  /\ labels' = labels \cup {Head(todo[w].want)}
  /\ Ensured(w)
  /\ UNCHANGED <<filters, made>>

CreateFilter(w) ==
  /\ todo[w].step = "filter"
  /\ filters' = filters \cup {[id |-> todo[w].call, sender |-> todo[w].sender, kind |-> todo[w].kind,
                               label |-> IF todo[w].kind = "block" THEN "Toxic" ELSE NoLabel]}
  /\ todo' = [todo EXCEPT ![w] = Free]
  /\ UNCHANGED <<labels, made>>

\* HttpError: what the call did so far stays.
Refused(w) ==
  /\ todo[w] # Free
  /\ todo' = [todo EXCEPT ![w] = Free]
  /\ UNCHANGED <<labels, filters, made>>

\* delete_filter; the label stays.
DeleteFilter(f) ==
  filters' = filters \ {f} /\ UNCHANGED <<labels, todo, made>>

FiltersNext ==
  \/ \E w \in Workers :
       \/ \E s \in Senders : BlockSender(w, s) \/ CreateSafeSenderFilter(w, s)
       \/ CreateFourHorsemenFilters(w)
       \/ ListLabels(w) \/ CreateParent(w) \/ CreateLabel(w) \/ CreateFilter(w) \/ Refused(w)
  \/ \E f \in filters : DeleteFilter(f)

(***************************************************************************)
(* Properties.                                                             *)
(***************************************************************************)

\* Whatever requests failed and however calls of several processes interleave,
\* no label is nested under a missing one and no filter names a missing label
\* (the order of requests in create_abuser_filter and _ensure_label_exists).
LabelsInPlace ==
  /\ labels \cap Nested # {} => Parent \in labels
  /\ \A f \in filters : f.label # NoLabel => f.label \in labels
=============================================================================
