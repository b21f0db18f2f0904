--------------------------- MODULE DeferredServer ---------------------------
(***************************************************************************)
(* A CPU server that retains calls: apps/hls_runtime/src/api/hls_gs.erl    *)
(* over hls_gs_deferred.erl, under gen_server.  The callbacks may answer   *)
(* at once, retain the call, answer any call they were given, and ask for  *)
(* one private event; gen_server runs it before the next message.          *)
(*                                                                         *)
(* Messages are named by their arrival.  gen_server's queue is not         *)
(* bounded; MaxMessages is.  An exception ends the process.                *)
(***************************************************************************)
EXTENDS ReplyBook, Sequences

CONSTANTS MaxMessages, \* bound on the messages
          None

VARIABLES running,   \* the process lives
          queue,     \* <<id, kind>>: gen_server's messages
          nextId, continue, book,
          issued,    \* history: <<handle, id>> for every call a callback was given
          answers    \* history: <<id, meant>>, the call answered and the call meant
vars == <<running, queue, nextId, continue, book, issued, answers>>

Init ==
  /\ running = TRUE /\ queue = <<>> /\ nextId = 0 /\ continue = FALSE
  /\ book = NewBook /\ issued = {} /\ answers = <<>>

\* call/2 for a declared request, or cast/2.
Send(kind) ==
  /\ running /\ nextId < MaxMessages
  /\ queue' = Append(queue, <<nextId, kind>>) /\ nextId' = nextId + 1
  /\ UNCHANGED <<running, continue, book, issued, answers>>

\* hls_reply_book:complete/2.  `reply' is a handle with its call, or None.
Reply(reply, b) ==
  IF reply = None \/ reply[1] \notin Handles(b) THEN book' = b /\ UNCHANGED answers
  ELSE /\ book' = Complete(b, reply[1])
       /\ answers' = Append(answers, <<b.callers[reply[1]], reply[2]>>)

\* finish/3: all actions are checked before the reply leaves.
Finish(reply, more, b) ==
  /\ Reply(reply, b) /\ continue' = more
  /\ UNCHANGED <<running, nextId>>

Receives(kind) == running /\ ~continue /\ queue # <<>> /\ Head(queue)[2] = kind

\* Mutant: the caller of a refused call hears nothing.
RefuseQuietly ==
  /\ Receives("call") /\ ~Exhausted(book) /\ Full(book)
  /\ queue' = Tail(queue)
  /\ UNCHANGED <<running, nextId, continue, book, issued, answers>>

\* dispatch/6 for a call that finds the book full.
Refuse ==
  /\ Receives("call") /\ ~Exhausted(book) /\ Full(book)
  /\ queue' = Tail(queue)
  /\ answers' = Append(answers, <<Head(queue)[1], Head(queue)[1]>>)
  /\ UNCHANGED <<running, nextId, continue, book, issued>>

\* dispatch/6 for a call; an immediate reply is the reply of its own handle.
HandleCall(more) ==
  LET id == Head(queue)[1]
      known == issued \cup {<<book.next, id>>}
  IN /\ Receives("call") /\ ~Exhausted(book) /\ ~Full(book)
     /\ queue' = Tail(queue) /\ issued' = known
     /\ \E reply \in {None} \cup known : Finish(reply, more, Admit(book, id))

HandleCast(more) ==
  /\ Receives("cast")
  /\ queue' = Tail(queue)
  /\ \E reply \in {None} \cup issued : Finish(reply, more, book)
  /\ UNCHANGED issued

HandleContinue(more) ==
  /\ running /\ continue
  /\ \E reply \in {None} \cup issued : Finish(reply, more, book)
  /\ UNCHANGED <<queue, issued>>

\* A callback raises, its result breaks the contract, or the handles are used up.
Crash ==
  /\ running /\ (continue \/ queue # <<>>)
  /\ running' = FALSE
  /\ UNCHANGED <<queue, nextId, continue, book, issued, answers>>

Next ==
  \/ \E kind \in {"call", "cast"} : Send(kind)
  \/ Refuse
  \/ \E more \in BOOLEAN : HandleCall(more) \/ HandleCast(more) \/ HandleContinue(more)
  \/ Crash

Spec == Init /\ [][Next]_vars

-----------------------------------------------------------------------------
Ids == 0 .. MaxMessages - 1

Asked == {queue[n][1] : n \in {m \in 1 .. Len(queue) : queue[m][2] = "call"}}
Retained == {book.callers[h] : h \in Handles(book)}
Answered == {answers[n][1] : n \in 1 .. Len(answers)}

\* Types, and the bounds of the reply book.
TypeOK ==
  /\ running \in BOOLEAN /\ continue \in BOOLEAN /\ nextId \in 0 .. MaxMessages
  /\ \A n \in 1 .. Len(queue) : queue[n] \in Ids \X {"call", "cast"}
  /\ book.next \in 1 .. HandleLimit /\ Handles(book) \subseteq 1 .. book.next - 1
  /\ Cardinality(Handles(book)) <= PendingCalls
  /\ Retained \cup Answered \subseteq Ids

Ownership == INSTANCE CallOwnership
  WITH Call <- Ids, Limit <- PendingCalls,
       waiting <- Asked, owed <- Retained, answered <- Answered

\* A call is answered at most once, by the reply a callback meant for it: a
\* handle that was completed answers nobody else (hls_reply_book).
CallsAnsweredOnce ==
  /\ Cardinality(Answered) = Len(answers)
  /\ \A n \in 1 .. Len(answers) : answers[n][1] = answers[n][2]

\* The server keeps the promise to its callers: order, one answer each, the one
\* that was meant, and busy only when PendingCalls answers are owed
\* (hls_gs_deferred:dispatch/6).
KeepsOwnership == Ownership!Spec /\ []CallsAnsweredOnce
=============================================================================
