----------------------------- MODULE ReplyBook -----------------------------
(***************************************************************************)
(* Caller ownership, apps/hls_runtime/src/runtime/hls_reply_book.erl: the  *)
(* bounded table of callers whose answer an actor owes.  A handle is a     *)
(* sequence number and the call's tag; the tag never decides anything here *)
(* and is left out.                                                        *)
(***************************************************************************)
EXTENDS Integers, FiniteSets

CONSTANTS PendingCalls, \* the calls an actor may retain
          HandleLimit   \* 2^56, the end of the sequence

ASSUME PendingCallsAssumption == PendingCalls \in Nat \ {0}
ASSUME HandleLimitAssumption == HandleLimit \in Nat \ {0}

NewBook == [next |-> 1, callers |-> <<>>]

Handles(book) == DOMAIN book.callers

Exhausted(book) == book.next >= HandleLimit

\* Mutant: one caller too many.
FullLate(book) == Cardinality(Handles(book)) > PendingCalls

Full(book) == Cardinality(Handles(book)) >= PendingCalls

\* Mutant: the lowest handle that no caller holds is used again.
AdmitReusing(book, from) ==
  LET h == CHOOSE n \in 1 .. book.next :
             n \notin Handles(book) /\ \A m \in 1 .. n - 1 : m \in Handles(book)
  IN [next |-> book.next + 1,
      callers |-> [k \in Handles(book) \cup {h} |->
                     IF k = h THEN from ELSE book.callers[k]]]

\* admit/4 for a book that is neither exhausted nor full.
Admit(book, from) ==
  [next |-> book.next + 1,
   callers |-> [h \in Handles(book) \cup {book.next} |->
                  IF h = book.next THEN from ELSE book.callers[h]]]

\* Mutant: the caller stays in the book.
CompleteKeeping(book, handle) == book

\* complete/2: an absent handle changes nothing.
Complete(book, handle) ==
  [book EXCEPT !.callers = [h \in Handles(book) \ {handle} |-> book.callers[h]]]
=============================================================================
