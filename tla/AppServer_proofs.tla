-------------------------- MODULE AppServer_proofs --------------------------
(***************************************************************************)
(* For any budget, any number of clients, calls and unasked frames: the    *)
(* app-server client keeps the promise of RoundTrip, its timeouts mean     *)
(* silence, and no child with a reader outlives its client.                *)
(***************************************************************************)
EXTENDS AppServer, TLAPS

\* Servers that were not started yet have done nothing.
Untouched ==
  /\ client <= clients
  /\ \A c \in Clients : c > clients =>
       child[c] = "none" /\ reader[c] = "none" /\ asked[c] = {} /\ stdout[c] = <<>>

\* A call is pending, or its budget is gone.
OneCall == IF Waiting THEN verdict = "none" /\ call.id # 0 ELSE call.left = 0

\* A response that carries a request's id, below n, is the only answer to it:
\* the request is no longer open.
Honest(f, n, open) ==
  f.kind \in {"result", "error"} => f.id = 0 \/ (f.id < n /\ f.id \notin open)
AllHonest(s, n, open) == \A i \in 1 .. Len(s) : Honest(s[i], n, open)

\* Whatever is on its way to the caller is honest.
Answered ==
  IF client = 0 THEN frames = <<>>
  ELSE /\ \A id \in asked[client] : id < next_id
       /\ AllHonest(stdout[client], next_id, asked[client])
       /\ AllHonest(frames, next_id, asked[client])

\* The caller has been told, or will be, that the stream has ended.
EndIsTold ==
  client # 0 =>
    /\ reader[client] # "none"
    /\ reader[client] = "done" =>
         verdict = "failure" \/ \E i \in 1 .. Len(frames) : frames[i].kind = "eof"

IInv == TypeOK /\ Untouched /\ OneCall /\ Answered /\ EndIsTold /\ NoOrphan

-----------------------------------------------------------------------------
USE DEF servers, Waiting, Clients

\* What the proofs use of the constants.
LEMMA Constants ==
  FrameTimeout \in Nat /\ MaxClients \in Nat /\ MaxCalls \in Nat /\ MaxNoise \in Nat
BY AppServerAssumption

\* What a frame can be.
Line == {"result", "error", "other", "bad", "eof"}

\* The frames that are made are frames.
LEMMA FrameType ==
  ASSUME NEW kind \in Line, NEW id \in 0 .. MaxCalls
  PROVE  Of(kind, id) \in Frame /\ Of(kind, id).kind = kind /\ Of(kind, id).id = id
BY DEF Of, Frame, Line

\* What a channel or a pipe does with its frames.
LEMMA QueueType ==
  ASSUME NEW F, NEW s \in Seq(F), NEW f \in F
  PROVE  /\ Append(s, f) \in Seq(F) /\ Len(Append(s, f)) = Len(s) + 1
         /\ Append(s, f)[Len(s) + 1] = f
         /\ \A i \in 1 .. Len(s) : Append(s, f)[i] = s[i]
         /\ s # <<>> =>
              /\ Head(s) \in F /\ Head(s) = s[1] /\ 1 \in 1 .. Len(s)
              /\ Tail(s) \in Seq(F) /\ Len(Tail(s)) = Len(s) - 1
              /\ \A i \in 1 .. Len(s) - 1 : Tail(s)[i] = s[i + 1]
OBVIOUS

\* A call that ends leaves its id, and no budget.
LEMMA ReturnType ==
  ASSUME TypeOK, NEW v, Return(v)
  PROVE  /\ call' \in [pc : {"idle", "waiting"}, id : 0 .. MaxCalls, left : 0 .. FrameTimeout]
         /\ call'.pc = "idle" /\ call'.id = call.id /\ call'.left = 0 /\ verdict' = v
<1>1. 0 \in 0 .. FrameTimeout
  BY Constants
<1> QED BY <1>1 DEF TypeOK, Return

\* Every step keeps the types.
LEMMA NextType ==
  ASSUME TypeOK, [Next]_vars PROVE TypeOK'
<1>1. CASE Spawn
  BY <1>1, Constants DEF TypeOK, Spawn
<1>2. CASE SpawnFails
  BY <1>2, Constants DEF TypeOK, SpawnFails
<1>15. CASE SpawnThreadFails
  BY <1>15, Constants DEF TypeOK, SpawnThreadFails
<1>16. CASE Drop
  BY <1>16, Constants DEF TypeOK, Drop
<1>3. CASE CallFails
  BY <1>3, Constants DEF TypeOK, CallFails, MayAsk
<1>4. CASE Call
  <2>1. client \in Clients /\ next_id \in 1 .. MaxCalls
    BY <1>4, Constants DEF TypeOK, Call, MayAsk
  <2>2. asked' \in [Clients -> SUBSET (1 .. MaxCalls)]
    BY <1>4, <2>1 DEF TypeOK, Call
  <2>3. call' \in [pc : {"idle", "waiting"}, id : 0 .. MaxCalls, left : 0 .. FrameTimeout]
    BY <1>4, <2>1, Constants DEF Call
  <2>4. next_id' \in 1 .. MaxCalls + 1 /\ call'.id = next_id' - 1 /\ client' # 0
    BY <1>4, <2>1, Constants DEF TypeOK, Call
  <2> QED BY <1>4, <2>2, <2>3, <2>4 DEF TypeOK, Call
<1>5. CASE Recv
  <2>1. frames' \in Seq(Frame)
    BY <1>5, QueueType DEF TypeOK, Recv
  <2>2. CASE UNCHANGED <<call, verdict>>
    BY <1>5, <2>1, <2>2 DEF TypeOK, Recv
  <2>3. CASE \E v \in {"failure", "answer", "refusal"} : Return(v)
    BY <1>5, <2>1, <2>3, ReturnType DEF TypeOK, Recv
  <2> QED BY <1>5, <2>2, <2>3 DEF Recv
<1>6. CASE TimeOut
  BY <1>6, ReturnType DEF TypeOK, TimeOut
<1>7. CASE Tick
  <2>1. call.left - 1 \in 0 .. FrameTimeout
    BY <1>7, Constants DEF TypeOK, Tick
  <2>2. call' \in [pc : {"idle", "waiting"}, id : 0 .. MaxCalls, left : 0 .. FrameTimeout]
        /\ call'.pc = call.pc /\ call'.id = call.id
    BY <1>7, <2>1 DEF TypeOK, Tick
  <2> QED BY <1>7, <2>2 DEF TypeOK, Tick
<1>8. ASSUME NEW c \in Clients, ReadLine(c) PROVE TypeOK'
  <2>4. stdout[c] \in Seq(Frame) /\ stdout[c] # <<>> /\ frames \in Seq(Frame)
    BY <1>8 DEF TypeOK, ReadLine
  <2>5. Head(stdout[c]) \in Frame /\ Tail(stdout[c]) \in Seq(Frame)
    BY <2>4
  <2>1. Tail(stdout[c]) \in Seq(Frame) /\ Append(frames, Head(stdout[c])) \in Seq(Frame)
    BY <2>4, <2>5
  <2>2. stdout' \in [Clients -> Seq(Frame)] /\ frames' \in Seq(Frame)
    BY <1>8, <2>1 DEF TypeOK, ReadLine
  <2>3. reader' \in [Clients -> {"none", "reading", "done"}]
    BY <1>8 DEF TypeOK, ReadLine
  <2> QED BY <1>8, <2>2, <2>3 DEF TypeOK, ReadLine
<1>9. ASSUME NEW c \in Clients, ReadEof(c) PROVE TypeOK'
  <2>1. Append(frames, Of("eof", 0)) \in Seq(Frame)
    BY FrameType, QueueType, Constants DEF TypeOK, Line
  <2>2. reader' \in [Clients -> {"none", "reading", "done"}]
    BY <1>9 DEF TypeOK, ReadEof
  <2> QED BY <1>9, <2>1, <2>2 DEF TypeOK, ReadEof
<1>10. ASSUME NEW c \in Clients, NEW f \in Frame, Says(c, f)
       PROVE  stdout' \in [Clients -> Seq(Frame)]
  <2>1. Append(stdout[c], f) \in Seq(Frame)
    BY QueueType DEF TypeOK
  <2> QED BY <1>10, <2>1 DEF TypeOK, Says
<1>11. ASSUME NEW c \in Clients, Answer(c) PROVE TypeOK'
  <2>1. PICK id \in asked[c], kind \in {"result", "error"} :
          Says(c, Of(kind, id)) /\ asked' = [asked EXCEPT ![c] = @ \ {id}]
    BY <1>11 DEF Answer
  <2>2. id \in 0 .. MaxCalls
    BY Constants DEF TypeOK
  <2>3. stdout' \in [Clients -> Seq(Frame)]
    BY <1>10, <2>1, <2>2, FrameType DEF Line
  <2>4. asked' \in [Clients -> SUBSET (1 .. MaxCalls)]
    BY <2>1 DEF TypeOK
  <2> QED BY <1>11, <2>3, <2>4 DEF TypeOK, Answer
<1>12. ASSUME NEW c \in Clients, Chatter(c) PROVE TypeOK'
  <2>1. {Of("result", 0), Of("bad", 0), Of("eof", 0)} \subseteq Frame
    BY FrameType, Constants DEF Line
  <2>2. stdout' \in [Clients -> Seq(Frame)]
    BY <1>10, <1>12, <2>1 DEF Chatter
  <2>3. noise[c] + 1 \in 0 .. MaxNoise
    BY <1>12, Constants DEF TypeOK, Chatter
  <2>4. noise' \in [Clients -> 0 .. MaxNoise]
    BY <1>12, <2>3 DEF TypeOK, Chatter
  <2> QED BY <1>12, <2>2, <2>4 DEF TypeOK, Chatter
<1>13. ASSUME NEW c \in Clients, Exit(c) PROVE TypeOK'
  BY <1>13 DEF TypeOK, Exit
<1>14. CASE UNCHANGED vars
  BY <1>14 DEF TypeOK, vars
<1> QED BY <1>1, <1>2, <1>3, <1>4, <1>5, <1>6, <1>7, <1>8, <1>9, <1>11, <1>12, <1>13, <1>14,
     <1>15, <1>16
     DEF Next, Caller, Receiving, Reading, Serving

\* Only new clients get new servers.
LEMMA NextUntouched ==
  ASSUME TypeOK, Untouched, NoOrphan, [Next]_vars PROVE Untouched'
<1>1. CASE Spawn \/ SpawnFails \/ SpawnThreadFails
  <2>1. /\ clients \in Nat /\ clients + 1 \in Clients /\ clients' = clients + 1
        /\ client' = 0 \/ client' = clients + 1
    BY <1>1, Constants DEF TypeOK, Spawn, SpawnFails, SpawnThreadFails
  <2>2. ASSUME NEW c \in Clients, c > clients'
        PROVE  child'[c] = "none" /\ reader'[c] = "none" /\ asked'[c] = {} /\ stdout'[c] = <<>>
    <3>1. c > clients /\ c # clients + 1
      BY <2>1, <2>2
    <3>2. child'[c] = child[c] /\ reader'[c] = reader[c] /\ asked' = asked /\ stdout' = stdout
      BY <1>1, <3>1 DEF TypeOK, Spawn, SpawnFails, SpawnThreadFails
    <3> QED BY <3>1, <3>2 DEF Untouched
  <2> QED BY <2>1, <2>2 DEF Untouched
<1>2. CASE Drop
  <2>1. /\ client \in Nat /\ clients \in Nat /\ client <= clients
        /\ client' = 0 /\ UNCHANGED <<clients, reader, asked, stdout>>
        /\ child' = [child EXCEPT ![client] = "gone"] /\ DOMAIN child = Clients
    BY <1>2, Constants DEF TypeOK, Untouched, Drop
  <2>2. ASSUME NEW c \in Clients, c > clients PROVE child'[c] = child[c]
    <3>1. c # client
      BY <2>1, <2>2
    <3> QED BY <2>1, <3>1
  <2> QED BY <2>1, <2>2 DEF Untouched
<1>3. CASE Call
  BY <1>3 DEF TypeOK, Untouched, NoOrphan, Call, MayAsk
<1>4. CASE CallFails \/ Recv \/ TimeOut \/ Tick
  BY <1>4 DEF Untouched, CallFails, Recv, TimeOut, Tick
<1>5. ASSUME NEW c \in Clients, Reading(c) PROVE Untouched'
  BY <1>5 DEF TypeOK, Untouched, Reading, ReadLine, ReadEof
<1>6. ASSUME NEW c \in Clients, Serving(c) PROVE Untouched'
  BY <1>6 DEF TypeOK, Untouched, Serving, Answer, Chatter, Says, Exit
<1>7. CASE UNCHANGED vars
  BY <1>7 DEF Untouched, vars
<1> QED BY <1>1, <1>2, <1>3, <1>4, <1>5, <1>6, <1>7 DEF Next, Caller, Receiving

\* A call begins with no verdict and its whole budget, and ends with both.
LEMMA NextOneCall ==
  ASSUME TypeOK, OneCall, [Next]_vars PROVE OneCall'
<1>1. CASE Spawn \/ SpawnFails \/ SpawnThreadFails \/ Call \/ CallFails \/ Drop
  BY <1>1 DEF TypeOK, OneCall, Spawn, SpawnFails, SpawnThreadFails, Call, CallFails, Drop,
     MayAsk
<1>2. CASE Recv
  BY <1>2 DEF TypeOK, OneCall, Recv, Return
<1>3. CASE TimeOut
  BY <1>3 DEF TypeOK, OneCall, TimeOut, Return
<1>4. CASE Tick
  BY <1>4 DEF TypeOK, OneCall, Tick
<1>5. ASSUME NEW c \in Clients, Reading(c) \/ Serving(c) PROVE OneCall'
  BY <1>5 DEF OneCall, Reading, ReadLine, ReadEof, Serving, Answer, Chatter, Exit
<1>6. CASE UNCHANGED vars
  BY <1>6 DEF OneCall, vars
<1> QED BY <1>1, <1>2, <1>3, <1>4, <1>5, <1>6 DEF Next, Caller, Receiving

\* Frames stay honest while requests are added and answered.
LEMMA StaysHonest ==
  ASSUME NEW n \in Nat, NEW m \in Nat, m >= n, NEW open, NEW left \in SUBSET (open \cup {n}),
         NEW s \in Seq(Frame), AllHonest(s, n, open)
  PROVE  AllHonest(s, m, left)
<1>1. ASSUME NEW f \in Frame, Honest(f, n, open) PROVE Honest(f, m, left)
  BY <1>1 DEF Honest, Frame
<1> QED BY <1>1 DEF AllHonest

\* A queue of honest frames gives honest frames and takes them.
LEMMA HonestQueue ==
  ASSUME NEW n, NEW open, NEW s \in Seq(Frame), AllHonest(s, n, open)
  PROVE  /\ s # <<>> => Honest(Head(s), n, open) /\ AllHonest(Tail(s), n, open)
         /\ \A f \in Frame : Honest(f, n, open) => AllHonest(Append(s, f), n, open)
<1>1. ASSUME s # <<>> PROVE Honest(Head(s), n, open) /\ AllHonest(Tail(s), n, open)
  <2>1. Head(s) = s[1] /\ 1 \in 1 .. Len(s)
    BY <1>1
  <2>2. \A i \in 1 .. Len(Tail(s)) : Tail(s)[i] = s[i + 1] /\ i + 1 \in 1 .. Len(s)
    BY <1>1
  <2> QED BY <2>1, <2>2 DEF AllHonest
<1>2. ASSUME NEW f \in Frame, Honest(f, n, open) PROVE AllHonest(Append(s, f), n, open)
  <2>1. \A i \in 1 .. Len(Append(s, f)) :
          (i \in 1 .. Len(s) /\ Append(s, f)[i] = s[i]) \/ Append(s, f)[i] = f
    OBVIOUS
  <2> QED BY <1>2, <2>1 DEF AllHonest
<1> QED BY <1>1, <1>2

\* The server answers what was asked, once; a new client finds nothing.
LEMMA NextAnswered ==
  ASSUME TypeOK, Untouched, Answered, [Next]_vars PROVE Answered'
<1>0. client \in 0 .. MaxClients /\ next_id \in Nat /\ frames \in Seq(Frame)
      /\ \A c \in Clients : stdout[c] \in Seq(Frame) /\ asked[c] \subseteq 1 .. MaxCalls
  BY Constants DEF TypeOK
<1>1. CASE Spawn
  <2>1. /\ clients + 1 \in Clients /\ clients + 1 > clients
        /\ client' = clients + 1 /\ client' # 0
    BY <1>1, Constants DEF TypeOK, Spawn
  <2>2. asked'[client'] = {} /\ stdout'[client'] = <<>> /\ frames' = <<>>
    BY <1>1, <2>1 DEF Untouched, Spawn
  <2> QED BY <2>1, <2>2 DEF Answered, AllHonest
<1>2. CASE SpawnFails \/ SpawnThreadFails \/ Drop
  BY <1>2 DEF Answered, SpawnFails, SpawnThreadFails, Drop
<1>3. CASE Call \/ CallFails
  <2>1. client \in Clients /\ client # 0 /\ client' = client /\ UNCHANGED <<stdout, frames>>
    BY <1>0, <1>3 DEF Call, CallFails, MayAsk
  <2>2. /\ next_id' = next_id + 1
        /\ asked'[client] \in SUBSET (asked[client] \cup {next_id})
    BY <1>3, <2>1 DEF TypeOK, Call, CallFails
  <2>3. next_id' \in Nat /\ next_id' >= next_id
    BY <1>0, <2>2
  <2>4. /\ AllHonest(frames, next_id', asked'[client])
        /\ AllHonest(stdout[client], next_id', asked'[client])
    BY <1>0, <2>1, <2>2, <2>3, StaysHonest DEF Answered
  <2>5. ASSUME NEW id \in asked'[client] PROVE id < next_id'
    <3>1. id \in Nat /\ (id < next_id \/ id = next_id)
      BY <1>0, <2>1, <2>2, <2>5 DEF Answered
    <3> QED BY <1>0, <2>2, <3>1
  <2> QED BY <2>1, <2>4, <2>5 DEF Answered
<1>4. CASE Recv
  <2>1. client # 0 /\ UNCHANGED <<client, stdout, asked, next_id>>
    BY <1>4 DEF TypeOK, Recv
  <2>2. frames # <<>> /\ frames' = Tail(frames)
    BY <1>4 DEF Recv
  <2> QED BY <1>0, <2>1, <2>2, HonestQueue DEF Answered
<1>5. CASE TimeOut \/ Tick
  BY <1>5 DEF Answered, TimeOut, Tick
<1>6. ASSUME NEW c \in Clients, ReadLine(c) PROVE Answered'
  <2>1. UNCHANGED <<client, asked, next_id>> /\ stdout[c] # <<>> /\ c # 0
    BY <1>6 DEF ReadLine
  <2>2. stdout'[c] = Tail(stdout[c]) /\ \A d \in Clients : d # c => stdout'[d] = stdout[d]
    BY <1>6 DEF TypeOK, ReadLine
  <2>3. CASE client = c
    <3>1. frames' = Append(frames, Head(stdout[c])) /\ Head(stdout[c]) \in Frame
      BY <1>0, <1>6, <2>1, <2>3 DEF ReadLine
    <3> QED BY <1>0, <2>1, <2>2, <2>3, <3>1, HonestQueue DEF Answered
  <2>4. CASE client # c
    <3>1. frames' = frames
      BY <1>6, <2>4 DEF ReadLine
    <3> QED BY <1>0, <2>1, <2>2, <2>4, <3>1 DEF Answered
  <2> QED BY <2>3, <2>4
<1>7. ASSUME NEW c \in Clients, ReadEof(c) PROVE Answered'
  <2>1. UNCHANGED <<client, asked, next_id, stdout>> /\ c # 0
    BY <1>7 DEF ReadEof
  <2>2. Of("eof", 0) \in Frame /\ Honest(Of("eof", 0), next_id, asked[client])
    BY FrameType, Constants DEF Honest, Line
  <2>3. CASE client = c
    <3>1. frames' = Append(frames, Of("eof", 0))
      BY <1>7, <2>3 DEF ReadEof
    <3> QED BY <1>0, <2>1, <2>2, <2>3, <3>1, HonestQueue DEF Answered
  <2>4. CASE client # c
    <3>1. frames' = frames
      BY <1>7, <2>4 DEF ReadEof
    <3> QED BY <1>0, <2>1, <2>4, <3>1 DEF Answered
  <2> QED BY <2>3, <2>4
<1>8. ASSUME NEW c \in Clients, NEW f \in Frame, Says(c, f), client = c,
             Honest(f, next_id, asked[c])
      PROVE  AllHonest(stdout'[c], next_id, asked[c])
  <2>1. stdout'[c] = Append(stdout[c], f)
    BY <1>8 DEF TypeOK, Says
  <2>2. c # 0 /\ AllHonest(stdout[c], next_id, asked[c]) /\ stdout[c] \in Seq(Frame)
    BY <1>0, <1>8 DEF Answered
  <2> QED BY <1>8, <2>1, <2>2, HonestQueue
<1>9. ASSUME NEW c \in Clients, NEW f, Says(c, f)
      PROVE  \A d \in Clients : d # c => stdout'[d] = stdout[d]
  BY <1>9 DEF TypeOK, Says
<1>10. ASSUME NEW c \in Clients, Answer(c) PROVE Answered'
  <2>1. UNCHANGED <<client, next_id, frames>>
    BY <1>10 DEF Answer
  <2>2. PICK id \in asked[c], kind \in {"result", "error"} :
          Says(c, Of(kind, id)) /\ asked' = [asked EXCEPT ![c] = @ \ {id}]
    BY <1>10 DEF Answer
  <2>3. asked'[c] = asked[c] \ {id} /\ \A d \in Clients : d # c => asked'[d] = asked[d]
    BY <2>2 DEF TypeOK
  <2>4. Of(kind, id) \in Frame /\ Of(kind, id).id = id
    BY <1>0, FrameType, Constants DEF Line
  <2>5. CASE client = c
    <3>1. c # 0 /\ asked'[c] \in SUBSET (asked[c] \cup {next_id}) /\ next_id >= next_id
      BY <1>0, <2>3
    <3>2. AllHonest(frames, next_id, asked'[c]) /\ AllHonest(stdout[c], next_id, asked'[c])
      BY <1>0, <2>5, <3>1, StaysHonest DEF Answered
    <3>3. Honest(Of(kind, id), next_id, asked'[c])
      BY <2>3, <2>4, <2>5, <3>1 DEF Answered, Honest
    <3>4. stdout'[c] = Append(stdout[c], Of(kind, id))
      BY <2>2 DEF TypeOK, Says
    <3>5. AllHonest(stdout'[c], next_id, asked'[c])
      BY <1>0, <2>4, <3>2, <3>3, <3>4, HonestQueue
    <3>6. \A j \in asked'[c] : j < next_id
      BY <2>3, <2>5, <3>1 DEF Answered
    <3> QED BY <2>1, <2>5, <3>1, <3>2, <3>5, <3>6 DEF Answered
  <2>6. CASE client # c
    BY <1>0, <1>9, <2>1, <2>2, <2>3, <2>6 DEF Answered
  <2> QED BY <2>5, <2>6
<1>11. ASSUME NEW c \in Clients, Chatter(c) PROVE Answered'
  <2>1. UNCHANGED <<client, next_id, frames, asked>> /\ c # 0
    BY <1>11 DEF Chatter
  <2>2. PICK f \in {Of("result", 0), Of("bad", 0), Of("eof", 0)} : Says(c, f)
    BY <1>11 DEF Chatter
  <2>3. f \in Frame /\ Honest(f, next_id, asked[c])
    BY FrameType, Constants DEF Honest, Line
  <2>4. CASE client = c
    <3>1. AllHonest(stdout'[c], next_id, asked[c])
      BY <1>8, <2>2, <2>3, <2>4
    <3> QED BY <2>1, <2>4, <3>1 DEF Answered
  <2>5. CASE client # c
    <3>1. client # 0 => stdout'[client] = stdout[client]
      BY <1>0, <1>9, <2>2, <2>5
    <3> QED BY <2>1, <3>1 DEF Answered
  <2> QED BY <2>4, <2>5
<1>12. ASSUME NEW c \in Clients, Exit(c) PROVE Answered'
  BY <1>12 DEF Answered, Exit
<1>13. CASE UNCHANGED vars
  BY <1>13 DEF Answered, vars
<1> QED BY <1>1, <1>2, <1>3, <1>4, <1>5, <1>6, <1>7, <1>10, <1>11, <1>12, <1>13
     DEF Next, Caller, Receiving, Reading, Serving

\* Every client has a reader, which says so when the stream ends.
LEMMA NextEndIsTold ==
  ASSUME TypeOK, Untouched, OneCall, EndIsTold, [Next]_vars PROVE EndIsTold'
<1>0. client \in 0 .. MaxClients /\ frames \in Seq(Frame)
  BY DEF TypeOK
<1>1. CASE Spawn
  BY <1>1, Constants DEF TypeOK, EndIsTold, Spawn
<1>2. CASE SpawnFails \/ SpawnThreadFails \/ Drop
  BY <1>2 DEF EndIsTold, SpawnFails, SpawnThreadFails, Drop
<1>3. CASE Call \/ CallFails
  BY <1>3 DEF EndIsTold, Call, CallFails, MayAsk
<1>4. CASE Recv
  <2>1. client # 0 /\ UNCHANGED <<client, reader>> /\ frames # <<>> /\ frames' = Tail(frames)
    BY <1>4 DEF TypeOK, Recv
  <2>2. CASE Head(frames).kind = "eof"
    BY <1>4, <2>1, <2>2 DEF EndIsTold, Recv, Return
  <2>3. CASE Head(frames).kind # "eof"
    <3>1. verdict # "failure"
      BY <1>4 DEF OneCall, Recv
    <3>2. ASSUME NEW i \in 1 .. Len(frames), frames[i].kind = "eof"
          PROVE  i - 1 \in 1 .. Len(frames') /\ frames'[i - 1].kind = "eof"
      BY <1>0, <2>1, <2>3, <3>2
    <3> QED BY <2>1, <3>1, <3>2 DEF EndIsTold
  <2> QED BY <2>2, <2>3
<1>5. CASE TimeOut
  BY <1>5 DEF OneCall, EndIsTold, TimeOut
<1>6. CASE Tick
  BY <1>6 DEF EndIsTold, Tick
<1>7. ASSUME NEW f, frames' = Append(frames, f)
      PROVE  /\ f.kind = "eof" => \E i \in 1 .. Len(frames') : frames'[i].kind = "eof"
             /\ (\E i \in 1 .. Len(frames) : frames[i].kind = "eof")
                  => \E i \in 1 .. Len(frames') : frames'[i].kind = "eof"
  <2>1. Len(frames') = Len(frames) + 1 /\ frames'[Len(frames) + 1] = f
        /\ \A i \in 1 .. Len(frames) : frames'[i] = frames[i]
    BY <1>0, <1>7
  <2>2. Len(frames) \in Nat
    BY <1>0
  <2> QED BY <2>1, <2>2
<1>8. ASSUME NEW c \in Clients, ReadLine(c) PROVE EndIsTold'
  <2>1. CASE client = c
    BY <1>7, <1>8, <2>1 DEF EndIsTold, ReadLine
  <2>2. CASE client # c
    <3>1. UNCHANGED <<client, frames, verdict>>
      BY <1>8, <2>2 DEF ReadLine
    <3>2. reader' = reader \/ reader' = [reader EXCEPT ![c] = "done"]
      BY <1>8 DEF ReadLine
    <3>3. DOMAIN reader = Clients
      BY DEF TypeOK
    <3>4. ASSUME client # 0 PROVE reader'[client] = reader[client]
      <4>1. client \in Clients
        BY <1>0, <3>4
      <4> QED BY <2>2, <3>2, <3>3, <4>1
    <3> QED BY <3>1, <3>4 DEF EndIsTold
  <2> QED BY <2>1, <2>2
<1>9. ASSUME NEW c \in Clients, ReadEof(c) PROVE EndIsTold'
  <2>1. CASE client = c
    <3>1. frames' = Append(frames, Of("eof", 0)) /\ Of("eof", 0).kind = "eof" /\ client' = c
          /\ reader'[c] = "done"
      BY <1>9, <2>1 DEF TypeOK, ReadEof, Of
    <3> QED BY <1>7, <3>1 DEF EndIsTold
  <2>2. CASE client # c
    BY <1>0, <1>9, <2>2 DEF TypeOK, EndIsTold, ReadEof
  <2> QED BY <2>1, <2>2
<1>10. ASSUME NEW c \in Clients, Serving(c) PROVE EndIsTold'
  BY <1>10 DEF EndIsTold, Serving, Answer, Chatter, Exit
<1>11. CASE UNCHANGED vars
  BY <1>11 DEF EndIsTold, vars
<1> QED BY <1>1, <1>2, <1>3, <1>4, <1>5, <1>6, <1>8, <1>9, <1>10, <1>11
     DEF Next, Caller, Receiving, Reading

\* A client that is dropped kills its child.
LEMMA NextNoOrphan ==
  ASSUME TypeOK, Untouched, NoOrphan, [Next]_vars PROVE NoOrphan'
<1>1. CASE Spawn
  <2>1. clients + 1 \in Clients /\ clients + 1 > clients /\ client = 0 /\ client' = clients + 1
    BY <1>1, Constants DEF TypeOK, Spawn
  <2>2. \A c \in Clients : c # clients + 1 => child'[c] = child[c] /\ reader'[c] = reader[c]
    BY <1>1, <2>1 DEF TypeOK, Spawn
  <2>3. \A c \in Clients : c # clients + 1 => ~(child[c] = "up" /\ reader[c] # "none")
    BY <2>1 DEF NoOrphan
  <2> QED BY <2>1, <2>2, <2>3 DEF NoOrphan
<1>2. CASE SpawnThreadFails
  <2>1. clients + 1 \in Clients /\ clients + 1 > clients /\ UNCHANGED <<client, reader>>
    BY <1>2, Constants DEF TypeOK, SpawnThreadFails
  <2>2. reader[clients + 1] = "none"
    BY <2>1 DEF Untouched
  <2>3. \A c \in Clients : c # clients + 1 => child'[c] = child[c]
    BY <1>2, <2>1 DEF TypeOK, SpawnThreadFails
  <2> QED BY <2>1, <2>2, <2>3 DEF NoOrphan
<1>3. CASE SpawnFails \/ Call \/ CallFails \/ Recv \/ TimeOut \/ Tick
  BY <1>3 DEF NoOrphan, SpawnFails, Call, CallFails, MayAsk, Recv, TimeOut, Tick
<1>4. CASE Drop
  BY <1>4 DEF TypeOK, NoOrphan, Drop
<1>5. ASSUME NEW c \in Clients, Reading(c) PROVE NoOrphan'
  <2>1. UNCHANGED <<client, child>>
    BY <1>5 DEF Reading, ReadLine, ReadEof
  <2>2. \A d \in Clients : reader[d] = "none" => reader'[d] = "none"
    BY <1>5 DEF TypeOK, Reading, ReadLine, ReadEof
  <2> QED BY <2>1, <2>2 DEF NoOrphan
<1>6. ASSUME NEW c \in Clients, Serving(c) PROVE NoOrphan'
  <2>1. UNCHANGED <<client, reader>>
    BY <1>6 DEF Serving, Answer, Chatter, Exit
  <2>2. \A d \in Clients : child'[d] = "up" => child[d] = "up"
    BY <1>6 DEF TypeOK, Serving, Answer, Chatter, Exit
  <2> QED BY <2>1, <2>2 DEF NoOrphan
<1>7. CASE UNCHANGED vars
  BY <1>7 DEF NoOrphan, vars
<1> QED BY <1>1, <1>2, <1>3, <1>4, <1>5, <1>6, <1>7 DEF Next, Caller, Receiving

\* No client, no call, no frame: every part holds of the start.
LEMMA InitHolds == Init => IInv
<1> SUFFICES ASSUME Init PROVE IInv
  OBVIOUS
<1>1. TypeOK
  <2>1. 0 \in 0 .. MaxClients /\ 0 \in 0 .. MaxNoise /\ 1 \in 1 .. MaxCalls + 1
        /\ 0 \in 0 .. MaxCalls /\ 0 \in 0 .. FrameTimeout
    BY Constants
  <2> QED BY <2>1 DEF Init, TypeOK
<1> QED BY <1>1 DEF Init, IInv, Untouched, OneCall, Answered, EndIsTold, NoOrphan

\* The inductive invariant.
THEOREM InvariantHolds == Spec => []IInv
<1>1. IInv /\ [Next]_vars => IInv'
  BY NextType, NextUntouched, NextOneCall, NextAnswered, NextEndIsTold, NextNoOrphan DEF IInv
<1> QED BY InitHolds, <1>1, PTL DEF Spec

-----------------------------------------------------------------------------
\* The state of the client is well-formed, and no call is left pending by a
\* client that is gone.
THEOREM TypeCorrect == Spec => []TypeOK
<1>1. IInv => TypeOK
  BY DEF IInv
<1> QED BY InvariantHolds, <1>1, PTL

\* A child that has got its reader dies with its client.
THEOREM NoServerIsOrphaned == Spec => []NoOrphan
<1>1. IInv => NoOrphan
  BY DEF IInv
<1> QED BY InvariantHolds, <1>1, PTL

\* The end of a server's output is never taken for its silence.
THEOREM TimeoutsMeanSilence == Spec => TimeoutMeansSilence
<1>1. IInv /\ [Next]_vars => [verdict' = "timeout" /\ Waiting => call.left = 0]_vars
  <2> SUFFICES ASSUME IInv, Next, verdict' = "timeout", Waiting PROVE call.left = 0
    BY DEF vars
  <2>1. verdict = "none"
    BY DEF IInv, OneCall
  <2>2. TimeOut
    BY <2>1 DEF Next, Caller, Receiving, Reading, Serving, Spawn, SpawnFails, SpawnThreadFails,
       Call, CallFails, MayAsk, Drop, Recv, Return, Tick, ReadLine, ReadEof, Answer, Chatter,
       Exit
  <2>3. client # 0 /\ frames = <<>>
    BY <2>2 DEF IInv, TypeOK, TimeOut
  <2>4. reader[client] # "done"
    BY <2>1, <2>3 DEF IInv, EndIsTold
  <2> QED BY <2>2, <2>4 DEF TimeOut
<1> QED BY InvariantHolds, <1>1, PTL DEF Spec, TimeoutMeansSilence

-----------------------------------------------------------------------------
\* The state that RoundTrip sees.
Phase == IF client = 0 THEN "closed" ELSE IF Waiting THEN "asked" ELSE "open"
Served == Waiting /\ call.id \notin asked[client]

\* A response with the id of the pending call has been served.
LEMMA NoFalseAnswers ==
  ASSUME IInv, Waiting, frames # <<>>, Matches(Head(frames))
  PROVE  Served
<1>1. client # 0 /\ call.id = next_id - 1 /\ next_id \in Nat /\ call.id \in Nat
  BY Constants DEF IInv, TypeOK
<1>2. Honest(Head(frames), next_id, asked[client])
  BY <1>1, HonestQueue DEF IInv, TypeOK, Answered
<1>3. call.id # 0
  BY DEF IInv, OneCall
<1> QED BY <1>1, <1>2, <1>3 DEF Honest, Matches, Served

\* Every step of the client is one its callers expect, or none.
LEMMA StepImplements ==
  ASSUME IInv, [Next]_vars PROVE [Trip!RTNext]_(Trip!rtvars)
<1>1. CASE Spawn
  <2>1. Phase = "closed" /\ Phase' = "open" /\ verdict' = "none" /\ UNCHANGED call
    BY <1>1, Constants DEF IInv, TypeOK, Spawn, Phase
  <2>2. ~Served /\ ~Served'
    BY <1>1 DEF IInv, TypeOK, Spawn, Served
  <2>3. Trip!Open
    BY <2>1, <2>2 DEF Trip!Open, Phase, Served
  <2> QED BY <2>3 DEF Trip!RTNext
<1>2. CASE SpawnFails \/ SpawnThreadFails
  <2>1. Phase = "closed" /\ Phase' = "closed" /\ verdict' = "failure" /\ UNCHANGED call
    BY <1>2, Constants DEF IInv, TypeOK, SpawnFails, SpawnThreadFails, Phase
  <2>2. ~Served /\ ~Served'
    BY <1>2 DEF IInv, TypeOK, SpawnFails, SpawnThreadFails, Served
  <2>3. Trip!OpenFails
    BY <2>1, <2>2 DEF Trip!OpenFails, Phase, Served
  <2> QED BY <2>3 DEF Trip!RTNext
<1>3. CASE Call
  <2>1. Phase = "open" /\ Phase' = "asked" /\ call'.left = FrameTimeout
        /\ verdict \in {"none", "answer"} /\ verdict' = "none"
    BY <1>3 DEF Call, MayAsk, Phase
  <2>2. client \in Clients /\ client' = client /\ call'.id = next_id
        /\ asked'[client] = asked[client] \cup {next_id}
    BY <1>3, Constants DEF IInv, TypeOK, Call, MayAsk
  <2>3. ~Served'
    BY <2>2 DEF Served
  <2>4. Trip!Ask
    BY <2>1, <2>3 DEF Trip!Ask, Phase, Served
  <2> QED BY <2>4 DEF Trip!RTNext
<1>4. CASE CallFails
  <2>1. Phase = "open" /\ Phase' = "open" /\ verdict' = "failure" /\ UNCHANGED call
        /\ verdict \in {"none", "answer"}
    BY <1>4 DEF CallFails, MayAsk, Phase
  <2>2. ~Served /\ ~Served'
    BY <1>4 DEF CallFails, MayAsk, Served
  <2>3. Trip!AskFails
    BY <2>1, <2>2 DEF Trip!AskFails, Phase, Served
  <2> QED BY <2>3 DEF Trip!RTNext
<1>5. CASE Drop
  <2>1. Phase = "open" /\ Phase' = "closed" /\ UNCHANGED <<call, verdict>>
    BY <1>5 DEF Drop, Phase
  <2>2. ~Served /\ ~Served'
    BY <1>5 DEF Drop, Served
  <2>3. Trip!Close
    BY <2>1, <2>2 DEF Trip!Close, Phase, Served
  <2> QED BY <2>3 DEF Trip!RTNext
<1>6. ASSUME NEW v, Return(v), Waiting, UNCHANGED client PROVE Trip!Ends(v)
  <2>1. Phase = "asked" /\ Phase' = "open" /\ call'.left = 0 /\ verdict' = v /\ ~Waiting'
    BY <1>6, ReturnType DEF IInv, TypeOK, Phase
  <2>2. ~Served'
    BY <2>1 DEF Served
  <2> QED BY <2>1, <2>2 DEF Trip!Ends, Phase, Served
<1>7. CASE Recv
  <2>1. Waiting /\ frames # <<>> /\ UNCHANGED <<client, asked>>
    BY <1>7 DEF Recv
  <2>2. CASE Return("failure")
    <3>1. Trip!Fails
      BY <1>6, <2>1, <2>2 DEF Trip!Fails
    <3> QED BY <3>1 DEF Trip!RTNext
  <2>3. CASE Matches(Head(frames)) /\ (Return("answer") \/ Return("refusal"))
    <3>1. Served
      BY <2>1, <2>3, NoFalseAnswers
    <3>2. Trip!Ends("answer") \/ Trip!Ends("refusal")
      BY <1>6, <2>1, <2>3
    <3>3. Trip!Answers
      BY <3>1, <3>2 DEF Served, Trip!Answers
    <3> QED BY <3>3 DEF Trip!RTNext
  <2>4. CASE UNCHANGED <<call, verdict>>
    <3>1. UNCHANGED Trip!rtvars
      BY <2>1, <2>4 DEF Trip!rtvars
    <3> QED BY <3>1
  <2> QED BY <1>7, <2>2, <2>3, <2>4 DEF Recv
<1>8. CASE TimeOut
  <2>1. Waiting /\ frames = <<>> /\ UNCHANGED client /\ Return("timeout") /\ client # 0
    BY <1>8 DEF IInv, TypeOK, TimeOut
  <2>2. reader[client] # "done"
    BY <2>1 DEF IInv, OneCall, EndIsTold
  <2>3. call.left = 0
    BY <1>8, <2>2 DEF TimeOut
  <2>4. Trip!Expires
    BY <1>6, <2>1, <2>3 DEF Trip!Expires
  <2> QED BY <2>4 DEF Trip!RTNext
<1>9. CASE Tick
  <2>1. /\ Phase = "asked" /\ Phase' = "asked" /\ call.left > 0 /\ call'.left = call.left - 1
        /\ UNCHANGED verdict
    BY <1>9 DEF IInv, TypeOK, Tick, Phase
  <2>2. Served' = Served
    BY <1>9 DEF IInv, TypeOK, Tick, Served
  <2>3. Trip!TimePasses
    BY <2>1, <2>2 DEF Trip!TimePasses, Phase, Served
  <2> QED BY <2>3 DEF Trip!RTNext
<1>10. ASSUME NEW c \in Clients, Answer(c) PROVE Trip!Serve \/ UNCHANGED Trip!rtvars
  <2>1. Phase' = Phase /\ UNCHANGED <<call, verdict, client>>
    BY <1>10 DEF Answer, Phase
  <2>2. CASE Served' = Served
    BY <2>1, <2>2 DEF Trip!rtvars, Phase, Served
  <2>3. CASE Served' # Served
    <3>1. ~Served /\ Served'
      BY <1>10, <2>1, <2>3 DEF IInv, TypeOK, Answer, Served
    <3>2. Phase = "asked"
      BY <2>1, <3>1 DEF IInv, TypeOK, Phase, Served
    <3>3. Trip!Serve
      BY <2>1, <3>1, <3>2 DEF Trip!Serve, Phase, Served
    <3> QED BY <3>3
  <2> QED BY <2>2, <2>3
<1>11. ASSUME NEW c \in Clients, Reading(c) \/ Chatter(c) \/ Exit(c)
       PROVE  UNCHANGED Trip!rtvars
  BY <1>11 DEF Reading, ReadLine, ReadEof, Chatter, Exit, Trip!rtvars
<1>12. CASE UNCHANGED vars
  BY <1>12 DEF vars, Trip!rtvars
<1>13. CASE \E c \in Clients : Answer(c)
  BY <1>10, <1>13 DEF Trip!RTNext
<1> QED BY <1>1, <1>2, <1>3, <1>4, <1>5, <1>7, <1>8, <1>9, <1>11, <1>12, <1>13
     DEF Next, Caller, Receiving, Serving

\* AppServer implements RoundTrip.
THEOREM RoundTripImplemented == Spec => ImplementsRoundTrip
<1>1. Init => Trip!RTInit
  <2> SUFFICES ASSUME Init PROVE Trip!RTInit
    OBVIOUS
  <2>1. Phase = "closed" /\ call.left = 0 /\ verdict = "none" /\ ~Served
    BY DEF Init, Phase, Served
  <2> QED BY <2>1 DEF Trip!RTInit, Phase, Served
<1>2. IInv /\ [Next]_vars => [Trip!RTNext]_(Trip!rtvars)
  BY StepImplements
<1> QED BY InvariantHolds, <1>1, <1>2, PTL DEF Spec, ImplementsRoundTrip, Trip!RTSpec
=============================================================================
