------------------------------ MODULE RespClient ------------------------------
(***************************************************************************)
(* MinimalRedisClient (packages/queue/src/redis-queue-adapter.js): many    *)
(* callers share one connection, replies carry no name and are matched to  *)
(* the callbacks in order.  The connection may break at any moment; the    *)
(* next sendCommand then opens a new one.                                  *)
(*                                                                         *)
(* Calls are numbered in the order they are sent.  Every reply is a bulk   *)
(* string of one character.  What arrives is a sequence of characters,     *)
(* each marked with the call it belongs to; the line "$<length>" is one of *)
(* them, since the parser takes it as a whole.  The server counts bytes,   *)
(* the parser characters of a decoded string.                              *)
(***************************************************************************)
EXTENDS Naturals, Sequences

CONSTANTS
  maxCalls,     \* bound: how many commands are sent in all
  maxPending,   \* bound: how many callers wait together
  Widths,       \* UTF-8 lengths a character of a reply may have
  Faults,       \* which of "error" and "close" happen to a connection
  None, Rejected

Assumptions ==
  /\ {maxCalls, maxPending} \subseteq Nat
  /\ Widths \subseteq 1..4
  /\ Faults \subseteq {"error", "close"}

Calls == 1..maxCalls

VARIABLES
  connected,
  sent,               \* how many commands were sent
  server,             \* commands the server has not answered yet
  wire,               \* characters on their way to the client
  buffer,
  pendingCallbacks,   \* the calls that wait, in order
  outcome,            \* what each call was given
  interrupted         \* history: a connection was lost while calls waited

vars == <<connected, sent, server, wire, buffer, pendingCallbacks, outcome,
          interrupted>>

Char == [call : Calls, is : {"$", "text", "CR", "LF"}, length : Widths \cup {0}]

Reply(c, width) ==
  << [call |-> c, is |-> "$", length |-> width],
     [call |-> c, is |-> "text", length |-> 0],
     [call |-> c, is |-> "CR", length |-> 0],
     [call |-> c, is |-> "LF", length |-> 0] >>

Value(c) == <<[call |-> c, is |-> "text", length |-> 0]>>

(***************************************************************************)
(* The type invariant: the socket's bytes, the client's buffer and the     *)
(* calls in its pendingCallbacks.                                          *)
(***************************************************************************)
TypeOK ==
  /\ connected \in BOOLEAN
  /\ sent \in 0..maxCalls
  /\ server \in Seq(Calls)
  /\ wire \in Seq(Char)
  /\ buffer \in Seq(Char)
  /\ pendingCallbacks \in Seq(Calls)
  /\ outcome \in [Calls -> Seq(Char) \cup {None, Rejected}]
  /\ interrupted \in BOOLEAN

Init ==
  /\ connected = FALSE
  /\ sent = 0
  /\ server = <<>>
  /\ wire = <<>>
  /\ buffer = <<>>
  /\ pendingCallbacks = <<>>
  /\ outcome = [c \in Calls |-> None]
  /\ interrupted = FALSE

-----------------------------------------------------------------------------
(***************************************************************************)
(* sendCommand, which connects first when it has to.  buffer and           *)
(* pendingCallbacks are kept from one connection to the next.              *)
(***************************************************************************)
Send ==
  /\ sent < maxCalls
  /\ Len(pendingCallbacks) < maxPending
  /\ connected' = TRUE
  /\ sent' = sent + 1
  /\ pendingCallbacks' = Append(pendingCallbacks, sent + 1)
  /\ server' = Append(server, sent + 1)
  /\ UNCHANGED <<wire, buffer, outcome, interrupted>>

Answer(width) ==
  /\ server # <<>>
  /\ wire' = wire \o Reply(Head(server), width)
  /\ server' = Tail(server)
  /\ UNCHANGED <<connected, sent, buffer, pendingCallbacks, outcome, interrupted>>

(***************************************************************************)
(* _parseResp of a bulk string: nothing is consumed until all of it, with  *)
(* its CRLF, is there.  Anything but "$" in front is not understood.       *)
(***************************************************************************)
CompleteEarly(buf) == Len(buf) >= 1 + buf[1].length   \* defect: without the CRLF

Complete(buf) == Len(buf) >= 1 + buf[1].length + 2

Parses(buf, pending) ==
  /\ buf # <<>>
  /\ pending # <<>>
  /\ buf[1].is = "$"
  /\ Complete(buf)

Parsed(buf) == SubSeq(buf, 2, 1 + buf[1].length)

Rest(buf) == SubSeq(buf, 1 + buf[1].length + 3, Len(buf))

Pop(pending) ==   \* defect: pop for shift
  [callback |-> pending[Len(pending)], others |-> SubSeq(pending, 1, Len(pending) - 1)]

Shift(pending) == [callback |-> Head(pending), others |-> Tail(pending)]

Given(buf) == Parsed(buf)

(***************************************************************************)
(* One turn of the loop of _processBuffer: the first callback is given the *)
(* reply that is there in full, or the loop ends.                          *)
(***************************************************************************)
Turn(loop) ==
  IF Parses(loop.buffer, loop.pending)
  THEN LET first == Shift(loop.pending) IN
       [buffer |-> Rest(loop.buffer), pending |-> first.others,
        given |-> [loop.given EXCEPT ![first.callback] = Given(loop.buffer)]]
  ELSE loop

Turns(loop) ==
  LET after[n \in Nat] == IF n = 0 THEN loop ELSE Turn(after[n - 1]) IN after

(***************************************************************************)
(* _processBuffer: as many replies as there are callbacks for.             *)
(***************************************************************************)
Processed(buf, pending, given) ==
  Turns([buffer |-> buf, pending |-> pending, given |-> given])[Len(pending)]

(***************************************************************************)
(* A chunk of any size arrives.                                            *)
(***************************************************************************)
Data(size) ==
  LET after == Processed(buffer \o SubSeq(wire, 1, size), pendingCallbacks, outcome) IN
  /\ size <= Len(wire)
  /\ wire' = SubSeq(wire, size + 1, Len(wire))
  /\ buffer' = after.buffer
  /\ pendingCallbacks' = after.pending
  /\ outcome' = after.given
  /\ UNCHANGED <<connected, sent, server, interrupted>>

-----------------------------------------------------------------------------
(***************************************************************************)
(* The connection is lost with everything on it: the error event rejects   *)
(* the first callback, the close event none.                               *)
(***************************************************************************)
Lost ==
  /\ connected
  /\ connected' = FALSE
  /\ server' = <<>>
  /\ wire' = <<>>
  /\ interrupted' = (interrupted \/ pendingCallbacks # <<>>)
  /\ UNCHANGED <<sent, buffer>>

Error ==
  /\ "error" \in Faults
  /\ Lost
  /\ IF pendingCallbacks = <<>>
     THEN UNCHANGED <<pendingCallbacks, outcome>>
     ELSE /\ pendingCallbacks' = Tail(pendingCallbacks)
          /\ outcome' = [outcome EXCEPT ![Head(pendingCallbacks)] = Rejected]

Close ==
  /\ "close" \in Faults
  /\ Lost
  /\ UNCHANGED <<pendingCallbacks, outcome>>

Next ==
  \/ Send
  \/ \E width \in Widths : Answer(width)
  \/ \E size \in 1..Len(wire) : Data(size)
  \/ Error
  \/ Close

Spec == Init /\ [][Next]_vars

(***************************************************************************)
(* The server answers and what it sent arrives.                            *)
(***************************************************************************)
Fairness ==
  /\ WF_vars(\E width \in Widths : Answer(width))
  /\ WF_vars(\E size \in 1..Len(wire) : Data(size))

FairSpec == Spec /\ Fairness

-----------------------------------------------------------------------------
(***************************************************************************)
(* However replies are cut into chunks, a call is given its own reply, as  *)
(* long as no connection was lost that calls were waiting on: one that is  *)
(* lost while nobody waits does no harm.                                   *)
(***************************************************************************)
ReplyIsOwn ==
  ~interrupted => \A c \in Calls : outcome[c] \in {None, Value(c)}

(***************************************************************************)
(* No call stays without an answer for ever, unless a connection is lost   *)
(* under somebody.                                                         *)
(***************************************************************************)
EveryCallReturns ==
  []<>(\A c \in Calls : c <= sent => outcome[c] # None \/ interrupted)

==============================================================================
