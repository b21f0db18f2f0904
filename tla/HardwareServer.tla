--------------------------- MODULE HardwareServer ---------------------------
(***************************************************************************)
(* The retained-reply driver of a hardware server, priv/xls/lib/           *)
(* hls_server.x over the slots of hls_reply.x, between the transport and   *)
(* the generated callback worker.                                          *)
(*                                                                         *)
(* One activation receives a frame or not, invokes the worker, and sends   *)
(* what it has to send before the next: here `invoked' and `sending' hold  *)
(* an activation that has not ended.  The worker answers each invocation   *)
(* once, with anything.  A frame is a call or a cast with a transaction    *)
(* ID; its number is history.                                              *)
(*                                                                         *)
(* The host is FabricClient's: it does not use the ID of an open call or   *)
(* the cast ID for a call.  MaxFaults frames break that rule.              *)
(***************************************************************************)
EXTENDS Integers, Sequences, FiniteSets, FiniteSetsExt

CONSTANTS Txid, CastId,
          Slots,         \* retained calls
          SequenceLimit, \* 2^56
          Depth,         \* of the input and output channels
          MaxFrames,     \* bound on the frames the host sends
          MaxFaults,     \* bound on its faulty calls
          None

ASSUME SlotsAssumption == Slots \in Nat \ {0}
ASSUME SequenceAssumption == SequenceLimit \in Nat \ {0}
ASSUME NoneAssumption == None \notin [handle : Nat, txid : Txid]

VARIABLES slots, sequence, continuation, initialized, failure,
          invoked,  \* the worker's invocation, or None
          sending,  \* answers of this activation that output has not taken
          input, output
driver == <<slots, sequence, continuation, initialized, failure, invoked, sending>>

VARIABLES frames,    \* frames the host sent
          faults,    \* faulty calls among them
          open,      \* numbers of the calls on each ID that wait for an answer
          issued,    \* history: <<handle, number>> for each call given to the worker
          swallowed  \* history: duplicate calls that are not answered
host == <<frames, faults, open>>
vars == <<driver, input, output, host, issued, swallowed>>

Slot == 1 .. Slots
Call(frame) == frame.call

Init ==
  /\ slots = [i \in Slot |-> None] /\ sequence = 1
  /\ continuation = FALSE /\ initialized = FALSE /\ failure = None
  /\ invoked = None /\ sending = <<>> /\ input = <<>> /\ output = <<>>
  /\ frames = 0 /\ faults = 0 /\ open = [t \in Txid |-> {}]
  /\ issued = {} /\ swallowed = {}

-----------------------------------------------------------------------------
(* hls_reply.x.                                                            *)

Live == {i \in Slot : slots[i] # None}

\* error_frame.
ErrorFrame(txid, code) == [txid |-> txid, code |-> code, meant |-> 0]

Duplicate(txid) == \E i \in Live : slots[i].txid = txid

-----------------------------------------------------------------------------
(* The driver.                                                             *)

Idle == invoked = None /\ sending = <<>>
Healthy == failure = None

Take == input' = Tail(input)
Frame == Head(input)

Code == IF Duplicate(Frame.txid) \/ Frame.txid = CastId THEN "protocol" ELSE "exhausted"

\* A protocol error or the end of the handles: sticky failure.  The call that
\* a duplicate repeats is answered when the slots are drained.
Reject ==
  /\ Take /\ failure' = Code
  /\ IF Duplicate(Frame.txid)
     THEN sending' = <<>> /\ swallowed' = swallowed \cup {<<Frame.txid, Frame.number>>}
     ELSE sending' = <<ErrorFrame(Frame.txid, Code)>> /\ UNCHANGED swallowed

Invocation(kind, txid) == [kind |-> kind, txid |-> txid]

\* A frame is received only when no continuation is pending.
External == Healthy /\ Idle /\ initialized /\ ~continuation /\ input # <<>>
Rejected == Call(Frame) /\ (Duplicate(Frame.txid) \/ Frame.txid = CastId
                              \/ sequence = SequenceLimit)

RejectCall ==
  /\ External /\ Rejected /\ Reject
  /\ UNCHANGED <<slots, sequence, continuation, initialized, invoked, output, host, issued>>

\* Mutant: a full table drops the call.
RefuseSilently ==
  /\ External /\ Call(Frame) /\ ~Rejected /\ Live = Slot
  /\ Take
  /\ UNCHANGED <<slots, sequence, continuation, initialized, failure, invoked, sending,
                 output, host, issued, swallowed>>

\* A full table answers the call and stays open to casts.
RefuseCall ==
  /\ External /\ Call(Frame) /\ ~Rejected /\ Live = Slot
  /\ Take /\ sending' = <<ErrorFrame(Frame.txid, "busy")>>
  /\ UNCHANGED <<slots, sequence, continuation, initialized, failure, invoked, output,
                 host, issued, swallowed>>

\* Mutant: the handle is the slot's.
HandleOfSlot == Min(Slot \ Live)

NewHandle == sequence

\* The handle is new and the slot is the first free one.
InvokeCall ==
  /\ External /\ Call(Frame) /\ ~Rejected /\ Live # Slot
  /\ Take
  /\ slots' = [slots EXCEPT ![Min(Slot \ Live)] = [handle |-> NewHandle, txid |-> Frame.txid]]
  /\ sequence' = sequence + 1
  /\ issued' = issued \cup {<<NewHandle, Frame.number>>}
  /\ invoked' = Invocation("call", Frame.txid)
  /\ UNCHANGED <<continuation, initialized, failure, sending, output, host, swallowed>>

InvokeCast ==
  /\ External /\ ~Call(Frame)
  /\ Take /\ invoked' = Invocation("cast", Frame.txid)
  /\ UNCHANGED <<slots, sequence, continuation, initialized, failure, sending, output,
                 host, issued, swallowed>>

\* Initialization and continuations consume no frame.
InvokeInternal ==
  /\ Healthy /\ Idle /\ (~initialized \/ continuation)
  /\ invoked' = Invocation("internal", CastId)
  /\ UNCHANGED <<slots, sequence, continuation, initialized, failure, sending, input,
                 output, host, issued, swallowed>>

Response(i, meant) == [txid |-> slots[i].txid, code |-> "reply", meant |-> meant]

\* The worker's outcome: a handle it was given with the call it means, or
\* zero, a reply or none, an error or none.  A reply for a live handle must be
\* allowed.  Nothing of a step that failed is kept.
Outcome(from, reply, code, more) ==
  LET found == {i \in Live : slots[i].handle = from[1]}
      i     == IF found # {} /\ reply # None THEN Min(found) ELSE None
      error == IF code # None THEN code
               ELSE IF i # None /\ reply = "refused" THEN "contract" ELSE None
      fault == IF error # None /\ invoked.kind = "cast"
               THEN <<ErrorFrame(invoked.txid, error)>> ELSE <<>>
  IN /\ invoked # None
     /\ invoked' = None
     /\ IF i # None /\ error = None
        THEN slots' = [slots EXCEPT ![i] = None] /\ sending' = <<Response(i, from[2])>>
        ELSE sending' = fault /\ UNCHANGED slots
     /\ initialized' = TRUE /\ continuation' = more /\ failure' = error
     /\ UNCHANGED <<sequence, input, output, host, issued, swallowed>>

Send ==
  /\ sending # <<>> /\ Len(output) < Depth
  /\ output' = Append(output, Head(sending)) /\ sending' = Tail(sending)
  /\ UNCHANGED <<slots, sequence, continuation, initialized, failure, invoked, input,
                 host, issued, swallowed>>

\* Mutant: the retained callers are forgotten.
DrainSlotForgetting ==
  /\ ~Healthy /\ Idle /\ Live # {}
  /\ slots' = [i \in Slot |-> None]
  /\ UNCHANGED <<sequence, continuation, initialized, failure, invoked, sending, input,
                 output, host, issued, swallowed>>

\* After a failure every retained call is answered, then every frame.
DrainSlot ==
  /\ ~Healthy /\ Idle /\ Live # {}
  /\ sending' = <<ErrorFrame(slots[Min(Live)].txid, failure)>>
  /\ slots' = [slots EXCEPT ![Min(Live)] = None]
  /\ UNCHANGED <<sequence, continuation, initialized, failure, invoked, input, output,
                 host, issued, swallowed>>

DrainFrame ==
  /\ ~Healthy /\ Idle /\ Live = {} /\ input # <<>>
  /\ Take /\ sending' = <<ErrorFrame(Frame.txid, failure)>>
  /\ UNCHANGED <<slots, sequence, continuation, initialized, failure, invoked, output,
                 host, issued, swallowed>>

-----------------------------------------------------------------------------
(* The host: whoever sends frames on the stream.  hls_fabric_client.erl is *)
(* one that keeps the ID rules; this one need not.                         *)

Faulty(frame) == frame.call /\ (frame.txid = CastId \/ open[frame.txid] # {})

HostSends(frame) ==
  /\ frames < MaxFrames /\ Len(input) < Depth
  /\ Faulty(frame) => faults < MaxFaults
  /\ frames' = frames + 1
  /\ faults' = IF Faulty(frame) THEN faults + 1 ELSE faults
  /\ open' = IF frame.call THEN [open EXCEPT ![frame.txid] = @ \cup {frames + 1}] ELSE open
  /\ input' = Append(input, [frame EXCEPT !.number = frames + 1])
  /\ UNCHANGED <<driver, output, issued, swallowed>>

\* A reply closes its call, an error the oldest call on its ID.
HostReceives ==
  LET answer == Head(output)
      closed == IF answer.meant \in open[answer.txid] THEN {answer.meant}
                ELSE IF open[answer.txid] = {} THEN {} ELSE {Min(open[answer.txid])}
  IN /\ output # <<>>
     /\ output' = Tail(output)
     /\ open' = [open EXCEPT ![answer.txid] = @ \ closed]
     /\ UNCHANGED <<driver, input, frames, faults, issued, swallowed>>

-----------------------------------------------------------------------------
HostFrame == [call : {TRUE}, txid : Txid, number : {0}]
               \cup [call : {FALSE}, txid : {CastId}, number : {0}]

Given == {<<0, 0>>} \cup issued

Driver == \/ RejectCall \/ RefuseCall \/ InvokeCall \/ InvokeCast \/ InvokeInternal
          \/ Send \/ DrainSlot \/ DrainFrame

Worker == \E from \in Given, reply \in {None, "allowed", "refused"}, code \in {None, "fault"},
             more \in BOOLEAN : Outcome(from, reply, code, more)

Next == Driver \/ Worker \/ HostReceives \/ \E frame \in HostFrame : HostSends(frame)

Spec == Init /\ [][Next]_vars

\* The circuit and the host's reader are not stopped; the host need not send
\* and the worker need not reply.
FairSpec == Spec /\ WF_vars(Driver) /\ WF_vars(Worker) /\ WF_vars(HostReceives)

-----------------------------------------------------------------------------
Flying(t) == Cardinality({n \in 1 .. Len(output) : output[n].txid = t})
               + Cardinality({n \in 1 .. Len(sending) : sending[n].txid = t})
Queued(t) == Cardinality({n \in 1 .. Len(input) : input[n].call /\ input[n].txid = t})
Retained(t) == Cardinality({i \in Live : slots[i].txid = t})
Swallowed(t) == Cardinality({s \in swallowed : s[1] = t})

\* Every call the host waits for is in exactly one place: the input, a slot, an
\* answer under way, or the duplicate that failed the activation.  No call is
\* forgotten or answered twice, whatever the worker returns, also while a
\* failure is drained (hls_server.x).  And a reply goes to the call it is meant
\* for: a handle that was completed never names a later call in the same slot
\* with the same ID (hls_reply.x).
CallsBalance ==
  /\ \A t \in Txid \ {CastId} :
       Cardinality(open[t]) = Queued(t) + Retained(t) + Flying(t) + Swallowed(t)
  /\ \A n \in 1 .. Len(output) :
       output[n].code = "reply" => output[n].meant \in open[output[n].txid]

\* A failure strands nobody: once it is latched every caller hears of it.
FailureReachesAll ==
  \A t \in Txid \ {CastId} :
    (~Healthy /\ Swallowed(t) = 0 /\ open[t] # {}) ~> (open[t] = {} \/ Swallowed(t) # 0)
=============================================================================
