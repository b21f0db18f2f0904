------------------------------- MODULE Statem -------------------------------
(***************************************************************************)
(* The CPU scheduler of a phase machine,                                   *)
(* apps/hls_runtime/src/api/hls_statem.erl, with an application whose      *)
(* callbacks may conclude anything the behaviour allows.                   *)
(*                                                                         *)
(* One handler of the process admits one input and then runs               *)
(* process_messages/1 until nothing is eligible.  Here each turn of that   *)
(* loop is a step and `status' is "busy" in between, so that no input      *)
(* arrives then.  A completed collection is delivered by a turn of its own *)
(* (process_contribution/6 calls process_internal/2 on the same runtime).  *)
(*                                                                         *)
(* Inputs are named by their message id.  The mailbox is the queue that    *)
(* MailboxQueue promises: enqueue/2 reserves and commits in one call.      *)
(* Connect with nothing queued also stands for a start with outputs.       *)
(*                                                                         *)
(* An exception, an invalid result and the `fail' directive end the        *)
(* process: status "stopped".                                              *)
(***************************************************************************)
EXTENDS ReplyBook, Collections, Queues

CONSTANTS Phase, InitialPhase, Key,
          Capacity,    \* of the mailbox
          InputKind,   \* the inputs clients send: "cast", "call"
          Entry,       \* what a phase's entry may return: Nothing, Raise, OpensReduction(..), ..
          Offers,      \* the contributions a callback may conclude with
          MaxMessages, \* bound on the inputs
          MaxEpochs,   \* bound on the phase entries
          None

VARIABLES status,     \* "disconnected", "idle", "busy" or "stopped"
          phase,
          mailbox,    \* ids, oldest first
          nextId,     \* next_message_id
          postponed, calls, continuation, completion, reduction, gather, book
runtime == <<status, phase, mailbox, nextId, postponed, calls, continuation,
             completion, reduction, gather, book>>

VARIABLES epoch,       \* history: phase entries so far
          dispatched,  \* the epoch of the last dispatch and the ids of its dispatches
          consumed,    \* the ids taken from the mailbox
          issued,      \* <<handle, id>> for every call the application was given
          answers,     \* <<id, meant>>: call id was answered, the application meant call `meant'
          requested,   \* continuations asked for and not run
          opened,      \* collections opened
          delivered,   \* completions delivered to the application
          accepted,    \* <<member, value>> that the last collection accepted
          population   \* of the last collection opened
history == <<epoch, dispatched, consumed, issued, answers, requested,
             opened, delivered, accepted, population>>
vars == <<runtime, history>>

Nothing == [action |-> "none"]
Raise   == [action |-> "raise"]
OpensReduction(key, p)  == [action |-> "open_reduction", key |-> key, population |-> p]
OpensGather(key, mask)  == [action |-> "open_gather", key |-> key, mask |-> mask]

\* prepare_entry_actions/4 raises for any other entry (Raise), and so for a
\* population that hls_reduction:open/4 refuses.
ASSUME EntryAssumption ==
  \A entry \in Entry :
    \/ entry \in {Nothing, Raise}
    \/ /\ entry.action = "open_reduction" /\ entry.key \in Key
       /\ entry.population \in Population /\ ValidPopulation(entry.population)
    \/ entry.action = "open_gather" /\ entry.key \in Key /\ entry.mask \subseteq Member

ASSUME OfferAssumption ==
  Offers \subseteq [kind : {"gather", "member", "count"}, key : Key, member : Member,
                   raises : BOOLEAN]

ASSUME CapacityAssumption == Capacity \in Nat /\ MaxMessages \in Nat

\* None is a value of its own.
ASSUME NoneAssumption ==
  None \notin ReductionState(Key) \cup GatherState(Key) \cup Completion(Key)

Repeat == "repeat_phase"

Init ==
  /\ status = "disconnected" /\ phase = InitialPhase
  /\ mailbox = <<>> /\ nextId = 0 /\ postponed = {} /\ calls = {}
  /\ continuation = FALSE /\ completion = None /\ reduction = None /\ gather = None
  /\ book = NewBook
  /\ epoch = 0 /\ dispatched = [epoch |-> 0, again |-> FALSE, ids |-> <<>>] /\ consumed = {}
  /\ issued = {} /\ answers = <<>> /\ requested = 0
  /\ opened = 0 /\ delivered = 0 /\ accepted = {} /\ population = None

Waiting == {mailbox[n] : n \in 1 .. Len(mailbox)}
Eligible == Without(mailbox, postponed)

Running == status = "busy"

\* Mutant: an open gather does not count.
ActiveReductionOnly == reduction # None

\* active_collection_error/1.
ActiveCollection == reduction # None \/ gather # None

Stop == status' = "stopped" /\ UNCHANGED <<phase, mailbox, nextId, postponed, calls,
          continuation, completion, reduction, gather, book, history>>

-----------------------------------------------------------------------------
(* Phase entry.                                                            *)

\* repeat_phase and a new phase are boundaries.
Crosses(to) == to # phase
MayCross(to) == Crosses(to) => epoch < MaxEpochs

\* prepare_entry_actions/4 and open_gather/5.
Opens(entry) ==
  /\ opened' = opened + 1 /\ accepted' = {}
  /\ CASE entry.action = "open_reduction" ->
            /\ population' = entry.population
            /\ reduction' = OpenReduction(entry.key, entry.population)
            /\ completion' = None /\ UNCHANGED gather
       [] entry.action = "open_gather" ->
            LET answer == OpenGather(entry.key, entry.mask) IN
            /\ population' = Members(entry.mask)
            /\ gather' = IF answer.result = "pending" THEN answer.collection ELSE gather
            /\ completion' = IF answer.result = "complete" THEN answer.event ELSE None
            /\ UNCHANGED reduction

\* enter_phase/2.  The casts an entry publishes are not modelled; an invalid
\* entry ends the process after the caller's reply was sent.
EnterPhase(entry) ==
  /\ epoch' = epoch + 1
  /\ status' = IF entry = Raise THEN "stopped" ELSE "busy"
  /\ IF entry.action \in {"open_reduction", "open_gather"} THEN Opens(entry)
     ELSE completion' = None /\ UNCHANGED <<reduction, gather, opened, accepted, population>>

Stay ==
  /\ status' = "busy" /\ completion' = None
  /\ UNCHANGED <<phase, reduction, gather, epoch, opened, accepted, population>>

\* Mutant: re-entering a phase keeps what was postponed in it.
ConcludeKeeping(to, entry, held) ==
  IF Crosses(to)
  THEN /\ phase' = IF to = Repeat THEN phase ELSE to
       /\ postponed' = IF to = Repeat THEN held ELSE {}
       /\ EnterPhase(entry)
  ELSE postponed' = held /\ Stay

\* finish_transition/2 and finish_repeat/2.
Conclude(to, entry, held) ==
  IF Crosses(to)
  THEN /\ phase' = IF to = Repeat THEN phase ELSE to
       /\ postponed' = {}
       /\ EnterPhase(entry)
  ELSE postponed' = held /\ Stay

-----------------------------------------------------------------------------
(* Inputs.                                                                 *)

Enqueued(kind, queue) ==
  /\ mailbox' = Append(queue, nextId) /\ nextId' = nextId + 1
  /\ calls' = IF kind = "call" THEN calls \cup {nextId} ELSE calls
  /\ status' = IF status = "idle" THEN "busy" ELSE status
  /\ UNCHANGED <<phase, postponed, continuation, completion, reduction, gather, book,
                 epoch, dispatched, consumed, issued, answers, requested, opened,
                 delivered, accepted, population>>

\* Mutant: a full mailbox makes room by dropping its oldest input.
EnqueueDropping(kind) ==
  Enqueued(kind, IF Len(mailbox) = Capacity THEN Tail(mailbox) ELSE mailbox)

\* Mutant: the mailbox takes one input too many.
EnqueueLate(kind) ==
  IF Len(mailbox) > Capacity THEN Stop ELSE Enqueued(kind, mailbox)

\* admit_and_process/2 and enqueue/2: a full mailbox ends the process.
Enqueue(kind) ==
  IF Len(mailbox) = Capacity THEN Stop ELSE Enqueued(kind, mailbox)

\* handle_cast/2 and handle_call/3 for a declared call.
Arrive(kind) == status \in {"disconnected", "idle"} /\ nextId < MaxMessages /\ Enqueue(kind)

\* handle_call/3 for connect, and the connected start of init/1.
Connect(entry) ==
  /\ status = "disconnected"
  /\ EnterPhase(entry)
  /\ UNCHANGED <<phase, mailbox, nextId, postponed, calls, continuation, book,
                 dispatched, consumed, issued, answers, requested, delivered>>

-----------------------------------------------------------------------------
(* Turns of process_messages/1.                                            *)

\* Mutant: what an earlier callback asked for is forgotten.
PendingLatest(more) == more

\* pending_continuation/2 where it does not fail.
PendingContinuation(more) == more \/ continuation

\* A callback's actions are at most one reply, to a call it was given (the
\* handle and the call), and at most one private event.
Requests(more, kept) ==
  /\ continuation' = kept
  /\ requested' = requested + (IF more THEN 1 ELSE 0)

\* complete_reply/2.
Reply(reply, b) ==
  IF reply = None \/ reply[1] \notin Handles(b) THEN book' = b /\ UNCHANGED answers
  ELSE /\ book' = Complete(b, reply[1])
       /\ answers' = Append(answers, <<b.callers[reply[1]], reply[2]>>)

\* Private events leave the mailbox alone.
NoInput == UNCHANGED <<mailbox, nextId, calls, dispatched, consumed, issued>>

\* process_internal/2 for a completion event; it may not reply.
CompletionTurn(to, more, entry) ==
  /\ Running /\ completion # None /\ MayCross(to)
  /\ IF (Crosses(to) /\ ActiveCollection) \/ (more /\ continuation) THEN Stop
     ELSE /\ Requests(more, PendingContinuation(more))
          /\ Conclude(to, entry, postponed)
          /\ delivered' = delivered + 1
          /\ NoInput /\ UNCHANGED <<book, answers>>

\* process_internal/2 for a continuation.
ContinuationTurn(to, more, reply, entry) ==
  /\ Running /\ completion = None /\ continuation /\ MayCross(to)
  /\ IF Crosses(to) /\ ActiveCollection THEN Stop
     ELSE /\ continuation' = more
          /\ requested' = requested - 1 + (IF more THEN 1 ELSE 0)
          /\ Reply(reply, book)
          /\ Conclude(to, entry, postponed)
          /\ NoInput /\ UNCHANGED delivered

\* The oldest input that was not postponed, once no private event is pending.
Dispatches(id) ==
  /\ Running /\ completion = None /\ ~continuation
  /\ Eligible # <<>> /\ id = Head(Eligible)

\* The history of a dispatch.  From MaxMessages + 1 dispatches on, one more than
\* an epoch without a repetition can have, only `again' changes.
Dispatched(id) ==
  LET same == dispatched.epoch = epoch
      full == same /\ Len(dispatched.ids) > MaxMessages
  IN dispatched' = [epoch |-> epoch, again |-> full /\ ~dispatched.again,
                    ids |-> CASE full -> dispatched.ids
                              [] same /\ ~full -> Append(dispatched.ids, id)
                              [] OTHER -> <<id>>]

\* consume_message/3.
ConsumeMessage(id) ==
  /\ mailbox' = Without(mailbox, {id})
  /\ calls' = calls \ {id}
  /\ consumed' = consumed \cup {id}
  /\ UNCHANGED nextId

KeepMessage == UNCHANGED <<mailbox, calls, consumed, nextId>>

\* invoke_message/3, a call that finds the book full: it is answered busy and
\* consumed without a callback.
RefuseCall(id) ==
  /\ Dispatches(id) /\ id \in calls /\ ~Exhausted(book) /\ Full(book)
  /\ answers' = Append(answers, <<id, id>>)
  /\ Dispatched(id) /\ ConsumeMessage(id)
  /\ Conclude(phase, Nothing, postponed)
  /\ UNCHANGED <<continuation, book, issued, requested, delivered>>

\* invoke_message/3: the sequence of handles is at its end.
ExhaustHandles(id) == Dispatches(id) /\ id \in calls /\ Exhausted(book) /\ Stop

\* The calls the application holds after it was given this input.
Known(id) == IF id \in calls THEN issued \cup {<<book.next, id>>} ELSE issued

\* process_message/3 with consume.
ConsumeTurn(id, to, more, reply, entry) ==
  /\ Dispatches(id) /\ MayCross(to)
  /\ id \in calls => ~Exhausted(book) /\ ~Full(book)
  /\ IF Crosses(to) /\ ActiveCollection THEN Stop
     ELSE /\ issued' = Known(id)
          /\ Reply(reply, IF id \in calls THEN Admit(book, id) ELSE book)
          /\ Requests(more, more)
          /\ Dispatched(id) /\ ConsumeMessage(id)
          /\ Conclude(to, entry, postponed)
          /\ UNCHANGED delivered

NoRequest == UNCHANGED <<continuation, requested, book, issued, answers, delivered>>

\* process_message/3 with postpone, which may change the phase.
PostponeTurn(id, to, entry) ==
  /\ Dispatches(id) /\ id \notin calls /\ to # Repeat /\ MayCross(to)
  /\ IF Crosses(to) /\ ActiveCollection THEN Stop
     ELSE /\ Dispatched(id) /\ KeepMessage
          /\ Conclude(to, entry, postponed \cup {id})
          /\ NoRequest

\* offer_collection/2.
OfferCollection(offer, id) ==
  CASE offer.kind = "gather" ->
         IF gather = None THEN Mismatch ELSE Offer(offer.key, offer.member, id, gather)
    [] offer.kind = "member" ->
         IF reduction = None THEN Mismatch
         ELSE ContributeMember(offer.key, offer.member, id, offer.raises, reduction)
    [] offer.kind = "count" ->
         IF reduction = None THEN Mismatch
         ELSE ContributeCount(offer.key, id, offer.raises, reduction)

\* process_contribution/6.  The phase stays; a mismatch waits.
ContributionTurn(id, offer) ==
  LET answer == OfferCollection(offer, id)
      next == IF answer.result = "pending" THEN answer.collection ELSE None
      Taken == /\ ConsumeMessage(id) /\ UNCHANGED postponed
               /\ accepted' = accepted \cup {<<offer.member, id>>}
               /\ IF offer.kind = "gather" THEN gather' = next /\ UNCHANGED reduction
                  ELSE reduction' = next /\ UNCHANGED gather
  IN /\ Dispatches(id) /\ id \notin calls
     /\ CASE answer.result = "error" -> Stop
          [] answer.result = "mismatch" ->
               /\ Dispatched(id) /\ KeepMessage /\ postponed' = postponed \cup {id}
               /\ NoRequest
               /\ UNCHANGED <<status, phase, completion, reduction, gather,
                              epoch, opened, accepted, population>>
          [] answer.result \in {"pending", "complete"} ->
               /\ Dispatched(id) /\ Taken
               /\ completion' = IF answer.result = "complete" THEN answer.event ELSE None
               /\ NoRequest
               /\ UNCHANGED <<status, phase, epoch, opened, population>>

\* An exception, a bad result, `fail', or a call concluded otherwise than by
\* consume.
CallbackFails ==
  /\ Running /\ (completion # None \/ continuation \/ Eligible # <<>>)
  /\ Stop

\* Nothing is eligible: the handler returns.
Settle ==
  /\ Running /\ completion = None /\ ~continuation /\ Eligible = <<>>
  /\ status' = "idle"
  /\ UNCHANGED <<phase, mailbox, nextId, postponed, calls, continuation, completion,
                 reduction, gather, book, history>>

-----------------------------------------------------------------------------
Targets == Phase \cup {Repeat}

Turn ==
  \/ \E to \in Targets, more \in BOOLEAN, entry \in Entry :
       \/ CompletionTurn(to, more, entry)
       \/ \E reply \in {None} \cup issued : ContinuationTurn(to, more, reply, entry)
       \/ \E id \in Waiting :
            \/ PostponeTurn(id, to, entry)
            \/ \E reply \in {None} \cup Known(id) : ConsumeTurn(id, to, more, reply, entry)
  \/ \E id \in Waiting : RefuseCall(id) \/ ExhaustHandles(id)
  \/ \E id \in Waiting, offer \in Offers : ContributionTurn(id, offer)
  \/ CallbackFails \/ Settle

Next ==
  \/ \E kind \in InputKind : Arrive(kind)
  \/ \E entry \in Entry : Connect(entry)
  \/ Turn

Spec == Init /\ [][Next]_vars

\* A handler that runs keeps running.
FairSpec == Spec /\ WF_vars(Turn)

-----------------------------------------------------------------------------
(* Properties.                                                             *)

Ids == 0 .. MaxMessages - 1
Value == Ids
Lives == status # "stopped"

Increasing(seq) == \A m, n \in 1 .. Len(seq) : m < n => seq[m] < seq[n]

\* Every input admitted is in the mailbox or was consumed, not both, and the
\* mailbox, within its capacity, keeps arrival order (enqueue/2, consume_message/3): no conclusion,
\* postponement or collection loses or repeats an input.  Between two phase
\* entries inputs are dispatched in that order and none twice, the ones that
\* are retried after a postponement included (process_messages/1).
InputsAccounted ==
  /\ Len(mailbox) <= Capacity /\ Increasing(mailbox) /\ Increasing(dispatched.ids)
  /\ Waiting \cup consumed = 0 .. nextId - 1 /\ Waiting \cap consumed = {}

\* When the handler of a connected machine returns, every input still in the
\* mailbox was offered to the phase since its last entry: an input that was
\* postponed is retried after every boundary, repeat_phase included.
NothingStranded ==
  status = "idle" =>
    /\ Waiting = {} \/ dispatched.epoch = epoch
    /\ Waiting \subseteq {dispatched.ids[n] : n \in 1 .. Len(dispatched.ids)}

\* A private event that was asked for is run exactly once, also when an entry's
\* empty gather completes before it (pending_continuation/2).
ContinuationKept == Lives => requested = IF continuation THEN 1 ELSE 0

\* The members and the values that were accepted.
Contributors == {a[1] : a \in accepted}
Contributed == {a[2] : a \in accepted}

\* A collection that was opened is open or completed until its completion is
\* delivered, and there is at most one (active_collection_error/1).
CollectionsAccounted ==
  LET Live(c) == IF c # None THEN 1 ELSE 0 IN
  /\ opened - delivered = Live(reduction) + Live(gather) + Live(completion)
  /\ opened - delivered <= 1

\* A completion holds exactly the accepted contributions: each expected member
\* once for a gather or a member reduction, the count for a count reduction,
\* and no value of a reducer that raised.
CompletionHolds ==
  /\ Cardinality(accepted) = population.size
  /\ population.mode = "members" => Contributors = population.members
  /\ IF completion.kind = "reduction" THEN completion.values = Contributed
     ELSE /\ completion.mask = population.members
          /\ \A m \in Member : IF m \in completion.mask
                               THEN <<m, completion.values[m]>> \in accepted
                               ELSE completion.values[m] = Padding

\* No collection is lost, doubled or completed with anything but what it
\* accepted.
CompletionExact ==
  Lives => CollectionsAccounted /\ (completion # None => CompletionHolds)

\* A call is answered at most once, by the reply the application meant for it:
\* a handle that was completed answers nobody else (hls_reply_book).
CallsAnsweredOnce ==
  /\ Cardinality({answers[n][1] : n \in 1 .. Len(answers)}) = Len(answers)
  /\ \A n \in 1 .. Len(answers) : answers[n][1] = answers[n][2]

Answered == {answers[n][1] : n \in 1 .. Len(answers)}
Retained == {book.callers[h] : h \in Handles(book)}

Ownership == INSTANCE CallOwnership
  WITH Call <- Ids, Limit <- PendingCalls,
       waiting <- calls, owed <- Retained, answered <- Answered

\* The promise to callers that hls_gs keeps too: one answer each, and busy only
\* when PendingCalls answers are owed.  Casts and the retry of a postponed cast
\* do not disturb the order of calls, which cannot be postponed; and the answer
\* is the one the application meant for that call.
KeepsOwnership == Ownership!Spec /\ []CallsAnsweredOnce
=============================================================================
