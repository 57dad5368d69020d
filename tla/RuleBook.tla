------------------------------- MODULE RuleBook -------------------------------
(***************************************************************************)
(* What naisd promises about Prometheus alert rules, without Kubernetes.   *)
(*                                                                         *)
(* There is one book of rule groups, with one entry per key.  A request    *)
(* asks for one entry to be set or erased.  It is answered once; a request *)
(* answered "ok" has had exactly its own change made, in one step, to the  *)
(* book as it stood at that moment.  A request answered "failed" may or    *)
(* may not have had its change made, but has made no other change.         *)
(***************************************************************************)

CONSTANTS Requests,   \* the requests clients may make
          Keys,       \* the names entries are filed under
          Entries,    \* what an entry may hold
          NoEntry     \* the content of a key that has no entry

VARIABLES book,       \* the entry filed under each key
          order,      \* what each request asked for, Unasked before it asks
          answer      \* what each request was told, Unanswered before that

vars == <<book, order, answer>>

Unasked == [want |-> "unasked"]
Nothing == [want |-> "nothing"]
Unanswered == "unanswered"

\* Ask for key to hold entry afterwards, or for nothing at all (a deploy whose
\* manifest has no alerts).
Changes == [want : {"change"}, key : Keys, entry : Entries \cup {NoEntry}]

Orders == Changes \cup {Nothing}

Init == /\ book \in [Keys -> Entries \cup {NoEntry}]
        /\ order = [r \in Requests |-> Unasked]
        /\ answer = [r \in Requests |-> Unanswered]

Ask(r) == /\ order[r] = Unasked
          /\ \E o \in Orders : order' = [order EXCEPT ![r] = o]
          /\ UNCHANGED <<book, answer>>

Pending(r) == order[r] # Unasked /\ answer[r] = Unanswered

Answer(r, verdict) == answer' = [answer EXCEPT ![r] = verdict]

\* A request for nothing succeeds at once.
Acknowledge(r) == /\ Pending(r)
                  /\ order[r] = Nothing
                  /\ Answer(r, "ok")
                  /\ UNCHANGED <<book, order>>

\* The request's own entry changes; every other entry is the latest one.  The
\* answer may still get lost.
Apply(r) == /\ Pending(r)
            /\ order[r] # Nothing
            /\ book' = [book EXCEPT ![order[r].key] = order[r].entry]
            /\ \/ Answer(r, "ok")
               \/ Answer(r, "failed")
            /\ UNCHANGED order

Refuse(r) == /\ Pending(r)
             /\ Answer(r, "failed")
             /\ UNCHANGED <<book, order>>

Next == \E r \in Requests : Ask(r) \/ Acknowledge(r) \/ Apply(r) \/ Refuse(r)

Spec == Init /\ [][Next]_vars
===============================================================================
