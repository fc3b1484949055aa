----------------------------- MODULE AppServer -----------------------------
(***************************************************************************)
(* The client of `zcode app-server` (src/proto.rs): a child process that   *)
(* answers newline-delimited frames on its stdout, a reader thread that    *)
(* moves its lines into a channel until the stream or the channel ends,    *)
(* and a caller that writes one request at a time and takes frames from    *)
(* the channel until its answer, an error or the frame timeout.            *)
(*                                                                         *)
(* A frame is its kind and the request id it carries (0: an id that no     *)
(* request has).  "bad" is a line that does not parse as a response, a     *)
(* well-formed one without an id included.  "eof" in the pipe is where it   *)
(* breaks off under a live server: stdout closed, or a line that is not    *)
(* UTF-8, which ends the reading like the end does.                        *)
(***************************************************************************)
EXTENDS Integers, Sequences

CONSTANTS
  FrameTimeout,  \* FRAME_TIMEOUT, in ticks
  MaxClients,    \* bound: clients made, one after the other
  MaxCalls,      \* bound: calls on one client
  MaxNoise       \* bound: frames of a server that answer no request

ASSUME AppServerAssumption ==
  {FrameTimeout, MaxClients, MaxCalls, MaxNoise} \subseteq Nat

Clients == 1 .. MaxClients
Frame == [kind : {"result", "error", "other", "bad", "eof"}, id : 0 .. MaxCalls]
Of(kind, id) == [kind |-> kind, id |-> id]

VARIABLES
  clients,  \* how many were made
  client,   \* the live one, 0 if none
  child,    \* child[c]: "none", "up" or "gone"
  asked,    \* asked[c]: the requests server c has read and not answered
  noise,    \* noise[c]: frames server c sent unasked
  stdout,   \* stdout[c]: the lines in the pipe
  reader,   \* reader[c]: "none", "reading" or "done"
  frames,   \* the channel of the live client
  next_id,
  call,     \* [pc, id, left] of the caller
  verdict   \* how the last operation of the caller ended

vars == <<clients, client, child, asked, noise, stdout, reader, frames, next_id,
          call, verdict>>

servers == <<child, asked, noise, stdout, reader>>
Waiting == call.pc = "waiting"

Init ==
  /\ clients = 0 /\ client = 0
  /\ child = [c \in Clients |-> "none"]
  /\ asked = [c \in Clients |-> {}]
  /\ noise = [c \in Clients |-> 0]
  /\ stdout = [c \in Clients |-> <<>>]
  /\ reader = [c \in Clients |-> "none"]
  /\ frames = <<>> /\ next_id = 1
  /\ call = [pc |-> "idle", id |-> 0, left |-> 0]
  /\ verdict = "none"

-----------------------------------------------------------------------------
(* The caller *)

Spawn ==
  /\ client = 0 /\ clients < MaxClients
  /\ LET c == clients + 1
     IN /\ clients' = c /\ client' = c
        /\ child' = [child EXCEPT ![c] = "up"]
        /\ reader' = [reader EXCEPT ![c] = "reading"]
  /\ frames' = <<>> /\ next_id' = 1 /\ verdict' = "none"
  /\ UNCHANGED <<asked, noise, stdout, call>>

\* No child could be started.
SpawnFails ==
  /\ client = 0 /\ clients < MaxClients
  /\ clients' = clients + 1
  /\ verdict' = "failure"
  /\ UNCHANGED <<client, servers, frames, next_id, call>>

\* The child runs, but the thread that would read it does not start: the
\* handle goes out of scope, and that does not kill the child.
SpawnThreadFails ==
  /\ client = 0 /\ clients < MaxClients
  /\ clients' = clients + 1
  /\ child' = [child EXCEPT ![clients + 1] = "up"]
  /\ verdict' = "failure"
  /\ UNCHANGED <<client, asked, noise, stdout, reader, frames, next_id, call>>

\* Every caller drops a client whose call failed.
MayAsk ==
  /\ client # 0 /\ ~Waiting /\ next_id <= MaxCalls
  /\ verdict \in {"none", "answer"}

\* Mutant: the id is not counted up, so every request has the same.
CallSameId ==
  /\ MayAsk /\ child[client] = "up"
  /\ asked' = [asked EXCEPT ![client] = @ \cup {next_id}]
  /\ call' = [pc |-> "waiting", id |-> next_id, left |-> FrameTimeout]
  /\ next_id' = next_id /\ verdict' = "none"
  /\ UNCHANGED <<clients, client, child, noise, stdout, reader, frames>>

\* The request is written and flushed; the clock of this call starts.
Call ==
  /\ MayAsk /\ child[client] = "up"
  /\ asked' = [asked EXCEPT ![client] = @ \cup {next_id}]
  /\ call' = [pc |-> "waiting", id |-> next_id, left |-> FrameTimeout]
  /\ next_id' = next_id + 1 /\ verdict' = "none"
  /\ UNCHANGED <<clients, client, child, noise, stdout, reader, frames>>

\* The request cannot be written: the server is gone, or reads no more.
CallFails ==
  /\ MayAsk
  /\ next_id' = next_id + 1 /\ verdict' = "failure"
  /\ UNCHANGED <<clients, client, servers, frames, call>>

Return(v) ==
  /\ call' = [call EXCEPT !.pc = "idle", !.left = 0]
  /\ verdict' = v

\* Mutant: the next response is taken for the answer.
AnyId(f) == f.kind \in {"result", "error"}

\* Is this frame the answer to the pending request?
Matches(f) == f.kind \in {"result", "error"} /\ f.id = call.id

\* One frame from the channel: the answer, a line that ends the call, or a
\* response to something else, which is skipped.
Recv ==
  /\ Waiting /\ frames # <<>>
  /\ LET f == Head(frames)
     IN IF f.kind \in {"bad", "eof"} THEN Return("failure")
        ELSE IF Matches(f)
             THEN Return(IF f.kind = "result" THEN "answer" ELSE "refusal")
             ELSE UNCHANGED <<call, verdict>>
  /\ frames' = Tail(frames)
  /\ UNCHANGED <<clients, client, servers, next_id>>

\* Mutant: recv instead of recv_timeout.
TimeOutNever ==
  /\ Waiting /\ frames = <<>> /\ reader[client] = "done"
  /\ Return("timeout")
  /\ UNCHANGED <<clients, client, servers, frames, next_id>>

\* recv_timeout looks at the channel before it looks at the clock; a channel
\* whose reader has ended is reported as a timeout too.
TimeOut ==
  /\ Waiting /\ frames = <<>>
  /\ call.left = 0 \/ reader[client] = "done"
  /\ Return("timeout")
  /\ UNCHANGED <<clients, client, servers, frames, next_id>>

\* Mutant: the handle is dropped without killing the child.
DropHandle ==
  /\ client # 0 /\ ~Waiting
  /\ client' = 0 /\ frames' = <<>>
  /\ UNCHANGED <<clients, servers, next_id, call, verdict>>

\* The client goes out of scope: the child is killed and reaped, the channel
\* is closed.
Drop ==
  /\ client # 0 /\ ~Waiting
  /\ child' = [child EXCEPT ![client] = "gone"]
  /\ client' = 0 /\ frames' = <<>>
  /\ UNCHANGED <<clients, asked, noise, stdout, reader, next_id, call, verdict>>

Tick ==
  /\ Waiting /\ call.left > 0
  /\ call' = [call EXCEPT !.left = @ - 1]
  /\ UNCHANGED <<clients, client, servers, frames, next_id, verdict>>

-----------------------------------------------------------------------------
(* The reader thread of client c *)

\* There is nothing more to read, or it cannot be read.
Ended(c) ==
  \/ stdout[c] = <<>> /\ child[c] = "gone"
  \/ stdout[c] # <<>> /\ Head(stdout[c]).kind = "eof"

\* A line goes into the channel; without a receiver the thread ends.
ReadLine(c) ==
  /\ reader[c] = "reading" /\ stdout[c] # <<>> /\ ~Ended(c)
  /\ stdout' = [stdout EXCEPT ![c] = Tail(@)]
  /\ IF client = c
     THEN frames' = Append(frames, Head(stdout[c])) /\ UNCHANGED reader
     ELSE reader' = [reader EXCEPT ![c] = "done"] /\ UNCHANGED frames
  /\ UNCHANGED <<clients, client, child, asked, noise, next_id, call, verdict>>

\* Mutant: the thread ends at the end of the stream without a word.
ReadEofSilently(c) ==
  /\ reader[c] = "reading" /\ Ended(c)
  /\ reader' = [reader EXCEPT ![c] = "done"]
  /\ UNCHANGED <<clients, client, child, asked, noise, stdout, frames, next_id, call, verdict>>

\* The end of the stream, or an error of it, is passed on; the thread ends.
ReadEof(c) ==
  /\ reader[c] = "reading" /\ Ended(c)
  /\ reader' = [reader EXCEPT ![c] = "done"]
  /\ frames' = IF client = c THEN Append(frames, Of("eof", 0)) ELSE frames
  /\ UNCHANGED <<clients, client, child, asked, noise, stdout, next_id, call, verdict>>

-----------------------------------------------------------------------------
(* The server: it answers in any order, late or never, sends what nobody   *)
(* asked for or what cannot be read, closes its stdout, and dies.          *)

Says(c, f) == stdout' = [stdout EXCEPT ![c] = Append(@, f)]

Answer(c) ==
  /\ child[c] = "up"
  /\ \E id \in asked[c], kind \in {"result", "error"} :
       /\ Says(c, Of(kind, id))
       /\ asked' = [asked EXCEPT ![c] = @ \ {id}]
  /\ UNCHANGED <<clients, client, child, noise, reader, frames, next_id, call, verdict>>

Chatter(c) ==
  /\ child[c] = "up" /\ noise[c] < MaxNoise
  /\ \E f \in {Of("result", 0), Of("bad", 0), Of("eof", 0)} : Says(c, f)
  /\ noise' = [noise EXCEPT ![c] = @ + 1]
  /\ UNCHANGED <<clients, client, child, asked, reader, frames, next_id, call, verdict>>

Exit(c) ==
  /\ child[c] = "up"
  /\ child' = [child EXCEPT ![c] = "gone"]
  /\ UNCHANGED <<clients, client, asked, noise, stdout, reader, frames, next_id, call, verdict>>

-----------------------------------------------------------------------------
Caller == Spawn \/ SpawnFails \/ SpawnThreadFails \/ Call \/ CallFails \/ Drop
Receiving == Recv \/ TimeOut
Reading(c) == ReadLine(c) \/ ReadEof(c)
Serving(c) == Answer(c) \/ Chatter(c) \/ Exit(c)

Next ==
  \/ Caller \/ Receiving \/ Tick
  \/ \E c \in Clients : Reading(c) \/ Serving(c)

Spec == Init /\ [][Next]_vars

\* The receiving loop, the reader threads and the clock are scheduled; the
\* server owes nothing.
FairSpec ==
  /\ Spec /\ WF_vars(Receiving) /\ WF_vars(Tick)
  /\ \A c \in Clients : WF_vars(Reading(c))

-----------------------------------------------------------------------------
(* Properties *)

\* Type invariant; a dropped client leaves no pending call.
TypeOK ==
  /\ clients \in 0 .. MaxClients /\ client \in 0 .. MaxClients
  /\ child \in [Clients -> {"none", "up", "gone"}]
  /\ asked \in [Clients -> SUBSET (1 .. MaxCalls)]
  /\ noise \in [Clients -> 0 .. MaxNoise]
  /\ stdout \in [Clients -> Seq(Frame)]
  /\ reader \in [Clients -> {"none", "reading", "done"}]
  /\ frames \in Seq(Frame)
  /\ next_id \in 1 .. MaxCalls + 1
  /\ call \in [pc : {"idle", "waiting"}, id : 0 .. MaxCalls, left : 0 .. FrameTimeout]
  /\ verdict \in {"none", "answer", "refusal", "failure", "timeout"}
  /\ Waiting => client # 0 /\ call.id = next_id - 1

\* proto.rs: "Kills the child on drop so a hung server can never outlive the
\* client": true of every child that has got its reader thread.
NoOrphan == \A c \in Clients : child[c] = "up" /\ reader[c] # "none" => client = c

\* A server that dies under a call is reported as such, never as a timeout: a
\* caller that sees a timeout has waited for its whole budget.
TimeoutMeansSilence ==
  [][verdict' = "timeout" /\ Waiting => call.left = 0]_vars

\* A hung, chattering or dead server cannot keep a caller for ever, nor the
\* thread that reads for a client that was dropped.
CallsAndReadersEnd ==
  /\ Waiting ~> ~Waiting
  /\ \A c \in Clients : (reader[c] = "reading" /\ client # c) ~> reader[c] = "done"

\* The client keeps the promise its callers rely on; in particular what they
\* are given as an answer is one the server gave to this very request.
Trip == INSTANCE RoundTrip WITH
  phase <- IF client = 0 THEN "closed" ELSE IF Waiting THEN "asked" ELSE "open",
  left <- call.left,
  served <- Waiting /\ call.id \notin asked[client],
  verdict <- verdict
ImplementsRoundTrip == Trip!RTSpec
=============================================================================
