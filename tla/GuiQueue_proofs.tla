-------------------------- MODULE GuiQueue_proofs --------------------------
(***************************************************************************)
(* For any number of actors, briefs and requests, any clock behaviour and  *)
(* any number of faults: the queue keeps every confirmed request and every *)
(* confirmed claim, PROVIDED that no two actors enqueue briefs whose names *)
(* can coincide (DisjointNames).                                           *)
(***************************************************************************)
EXTENDS GuiQueue, TLAPS

\* Cutting the clock to the second gives a natural number.
LEMMA StampType ==
  ASSUME NEW c \in Nat PROVE c \div Second \in Nat
BY QueueAssumption

\* Every stem `unique_stem' tries is a stem, and its name is one the slug owns.
LEMMA CandidateType ==
  ASSUME NEW bs \in Stem, NEW i \in Nat \ {0}
  PROVE  /\ Candidate(bs, i) \in Stem
         /\ Candidate(bs, i)[2] \in NamesOf(bs[2])
<1>1. /\ bs = <<bs[1], bs[2]>> /\ bs[1] \in Nat /\ bs[2] \in Seq(Token)
  BY DEF Stem, Slug
<1>2. i \in Token
  BY DEF Token
<1>3. Append(bs[2], i) \in Seq(Token)
  BY <1>1, <1>2
<1>4. CASE i = 1
  BY <1>4 DEF Candidate, NamesOf
<1>5. CASE i # 1
  <2>1. Candidate(bs, i) = <<bs[1], Append(bs[2], i)>>
    BY <1>5 DEF Candidate
  <2>2. Append(bs[2], i) \in NamesOf(bs[2])
    BY <1>5 DEF NamesOf
  <2>3. <<bs[1], Append(bs[2], i)>> \in Stem
    BY <1>1, <1>3 DEF Stem, Slug
  <2>4. Candidate(bs, i)[2] = Append(bs[2], i)
    BY <2>1
  <2> QED BY <2>1, <2>2, <2>3, <2>4
<1> QED BY <1>4, <1>5

LEMMA IdleType == Idle \in Process /\ NoEntry \in Entry
<1>1. NoStem \in Stem
  <2>1. <<>> \in Seq(Token)
    OBVIOUS
  <2> QED BY <2>1 DEF NoStem, Stem, Slug
<1>2. NoEntry \in Entry
  BY <1>1 DEF NoEntry, Entry, Status
<1>3. <<>> \in Seq(Entry)
  OBVIOUS
<1>4. Phantom \in Stem \cup {Phantom}
  OBVIOUS
<1> HIDE DEF NoEntry, Entry, NoStem, Stem
<1>5. Idle \in Process
  BY <1>1, <1>2, <1>3, <1>4 DEF Idle, Process, PCs
<1> QED BY <1>2, <1>5

-----------------------------------------------------------------------------
(* Type correctness *)

LEMMA InitType == Init => TypeOK
<1> SUFFICES ASSUME Init PROVE TypeOK
  OBVIOUS
<1>1. dir \in [DOMAIN dir -> Entry \cup {Garbage}] /\ DOMAIN dir \subseteq Stem
  BY QueueAssumption DEF Init
<1>2. proc \in [Procs -> Process]
  BY IdleType DEF Init
<1> QED BY <1>1, <1>2 DEF Init, TypeOK

\* A step of actor p that leaves its process as record r.
LEMMA BecomeType ==
  ASSUME TypeOK, NEW p \in Procs, NEW r, Become(p, r)
  PROVE  /\ proc'[p] = r
         /\ \A q \in Procs : q # p => proc'[q] = proc[q]
         /\ r \in Process => proc' \in [Procs -> Process]
BY DEF TypeOK, Become

\* A process about to rename has its own temp file, whole: temp names carry
\* the process id, so nobody else touches it.
TempsOwned == \A p \in Procs : RenamesOwnTemp(p)

\* The files a process still has to read exist: no step deletes a queue file.
SnapshotsExist == \A p \in Procs : proc[p].todo \subseteq DOMAIN dir

LEMMA NextType ==
  TypeOK /\ TempsOwned /\ SnapshotsExist /\ [Next]_vars => TypeOK'
<1> SUFFICES ASSUME TypeOK, TempsOwned, SnapshotsExist, [Next]_vars PROVE TypeOK'
  OBVIOUS
<1> USE DEF At, PCs
<1>0. Idle \in Process /\ NoEntry \in Entry
  BY IdleType
<1>a. \A p \in Procs : proc[p] \in Process
  BY DEF TypeOK
<1>b. Snapshot \in Process
  <2>1. DOMAIN dir \subseteq Stem /\ {a[2] : a \in acked} \subseteq Stem /\ claims \subseteq Stem
    BY DEF TypeOK
  <2> QED BY <1>0, <2>1 DEF Snapshot, Process
<1>1. ASSUME NEW p \in Procs, NEW b \in BriefsOf[p], StartEnqueue(p, b)
      PROVE  TypeOK'
  <2>1. BaseStem(b) \in Stem
    BY StampType, QueueAssumption DEF BaseStem, Stem, TypeOK
  <2>2. [NoEntry EXCEPT !.req = reqs + 1] \in Entry
    BY <1>0 DEF TypeOK, Entry
  <2>3. [Idle EXCEPT !.pc = "probe", !.base = BaseStem(b),
                     !.entry = [NoEntry EXCEPT !.req = reqs + 1]] \in Process
    BY <1>0, <2>1, <2>2 DEF Process
  <2>4. proc' \in [Procs -> Process]
    BY <1>1, <2>3, BecomeType DEF StartEnqueue
  <2> QED BY <1>1, <2>4 DEF StartEnqueue, TypeOK
<1>2. ASSUME NEW p \in Procs, Probe(p)
      PROVE  TypeOK'
  <2>1. /\ [proc[p] EXCEPT !.n = @ + 1] \in Process
        /\ [proc[p] EXCEPT !.pc = "build"] \in Process
    BY <1>a DEF Process
  <2>2. proc' \in [Procs -> Process]
    BY <1>2, <2>1, BecomeType DEF Probe
  <2> QED BY <1>2, <2>2 DEF Probe, TypeOK
<1>3. ASSUME NEW p \in Procs, Build(p)
      PROVE  TypeOK'
  <2> DEFINE stem == Candidate(proc[p].base, proc[p].n)
  <2>1. stem \in Stem
    BY CandidateType DEF TypeOK, Process
  <2>2. [proc[p].entry EXCEPT !.id = stem, !.created = clock] \in Entry
    BY <2>1 DEF TypeOK, Process, Entry
  <2>3. [proc[p] EXCEPT !.pc = "write", !.target = stem,
           !.entry = [@ EXCEPT !.id = stem, !.created = clock]] \in Process
    BY <2>1, <2>2 DEF TypeOK, Process
  <2>4. proc' \in [Procs -> Process]
    BY <1>3, <2>3, BecomeType DEF Build
  <2> QED BY <1>3, <2>4 DEF Build, TypeOK
<1>4. ASSUME NEW p \in Procs, WriteTemp(p)
      PROVE  TypeOK'
  <2>1. [proc[p] EXCEPT !.pc = "rename"] \in Process
    BY DEF TypeOK, Process
  <2>2. proc' \in [Procs -> Process]
    BY <1>4, <2>1, BecomeType DEF WriteTemp
  <2>3. <<proc[p].target, p>> \in Stem \X Procs /\ proc[p].entry \in Entry
    BY DEF TypeOK, Process
  <2>4. /\ tmp' \in [DOMAIN tmp' -> Entry \cup {Garbage}]
        /\ DOMAIN tmp' \subseteq Stem \X Procs
    BY <1>4, <2>3 DEF WriteTemp, TypeOK, Put
  <2> QED BY <1>4, <2>2, <2>4 DEF WriteTemp, TypeOK
<1>5. ASSUME NEW p \in Procs, Rename(p)
      PROVE  TypeOK'
  <2>1. [proc[p] EXCEPT !.pc = "print"] \in Process
    BY DEF TypeOK, Process
  <2>2. proc' \in [Procs -> Process]
    BY <1>5, <2>1, BecomeType DEF Rename
  <2>3. proc[p].target \in Stem /\ tmp[<<proc[p].target, p>>] \in Entry
    BY <1>5 DEF Rename, TempsOwned, RenamesOwnTemp, TypeOK, Process
  <2>4. /\ dir' \in [DOMAIN dir' -> Entry \cup {Garbage}]
        /\ DOMAIN dir' \subseteq Stem
    BY <1>5, <2>3 DEF Rename, TypeOK, Put
  <2>5. /\ tmp' \in [DOMAIN tmp' -> Entry \cup {Garbage}]
        /\ DOMAIN tmp' \subseteq Stem \X Procs
    BY <1>5 DEF Rename, TypeOK, Remove
  <2> QED BY <1>5, <2>2, <2>4, <2>5 DEF Rename, TypeOK
<1>6. ASSUME NEW p \in Procs, PrintId(p)
      PROVE  TypeOK'
  <2>1. proc' \in [Procs -> Process]
    BY <1>0, <1>6, BecomeType DEF PrintId, Exit
  <2>2. proc[p].entry \in Entry
    BY DEF TypeOK, Process
  <2>3. acked' \subseteq Nat \X Stem /\ claims' \subseteq Stem
    BY <1>6, <2>2 DEF PrintId, TypeOK, Entry
  <2> QED BY <1>6, <2>1, <2>3 DEF PrintId, TypeOK
<1>7. ASSUME NEW p \in Procs, NEW id \in ClaimableIds, StartClaim(p, id)
      PROVE  TypeOK'
  <2>1. id \in Stem \cup {Phantom}
    BY DEF ClaimableIds, Parses, TypeOK, Entry
  <2>2. [Snapshot EXCEPT !.pc = "scan", !.want = id] \in Process
    BY <1>b, <2>1 DEF Process
  <2>3. proc' \in [Procs -> Process]
    BY <1>7, <2>2, BecomeType DEF StartClaim
  <2> QED BY <1>7, <2>3 DEF StartClaim, TypeOK
<1>8. ASSUME NEW p \in Procs, Scan(p)
      PROVE  TypeOK'
  <2> PICK s \in proc[p].todo :
         IF Parses(dir[s]) /\ dir[s].id = proc[p].want
         THEN Become(p, [proc[p] EXCEPT !.pc = "write", !.target = s,
                           !.entry = [dir[s] EXCEPT !.status = "claimed"]])
         ELSE Become(p, [proc[p] EXCEPT !.todo = @ \ {s}])
    BY <1>8 DEF Scan
  <2>1. [proc[p] EXCEPT !.todo = @ \ {s}] \in Process
    BY <1>a DEF Process
  <2>2. ASSUME Parses(dir[s]), s \in DOMAIN dir
        PROVE  [proc[p] EXCEPT !.pc = "write", !.target = s,
                  !.entry = [dir[s] EXCEPT !.status = "claimed"]] \in Process
    <3>1. dir[s] \in Entry
      BY <2>2 DEF TypeOK, Parses
    <3>2. [dir[s] EXCEPT !.status = "claimed"] \in Entry
      BY <3>1 DEF Entry, Status
    <3>3. s \in Stem
      BY <2>2 DEF TypeOK
    <3> QED BY <1>a, <3>2, <3>3 DEF Process
  <2>3. s \in DOMAIN dir
    BY DEF SnapshotsExist
  <2>4. proc' \in [Procs -> Process]
    BY <2>1, <2>2, <2>3, BecomeType
  <2> QED BY <1>8, <2>4 DEF Scan, TypeOK
<1>9. ASSUME NEW p \in Procs, NotFound(p) \/ ListDone(p)
      PROVE  TypeOK'
  <2>1. proc' \in [Procs -> Process]
    BY <1>0, <1>9, BecomeType DEF NotFound, ListDone, Exit
  <2> QED BY <1>9, <2>1 DEF NotFound, ListDone, TypeOK
<1>10. ASSUME NEW p \in Procs, StartList(p)
       PROVE  TypeOK'
  <2>1. [Snapshot EXCEPT !.pc = "list"] \in Process
    BY <1>b DEF Process
  <2>2. proc' \in [Procs -> Process]
    BY <1>10, <2>1, BecomeType DEF StartList
  <2> QED BY <1>10, <2>2 DEF StartList, TypeOK
<1>11. ASSUME NEW p \in Procs, ListNext(p)
       PROVE  TypeOK'
  <2> PICK s \in proc[p].todo :
         Become(p, [proc[p] EXCEPT !.todo = @ \ {s},
                      !.shown = IF Parses(dir[s]) THEN Append(@, dir[s]) ELSE @])
    BY <1>11 DEF ListNext
  <2>1. (IF Parses(dir[s]) THEN Append(proc[p].shown, dir[s]) ELSE proc[p].shown)
          \in Seq(Entry)
    <3>1. Parses(dir[s]) => dir[s] \in Entry
      BY DEF TypeOK, Parses, SnapshotsExist
    <3>2. proc[p].shown \in Seq(Entry)
      BY DEF TypeOK, Process
    <3> QED BY <3>1, <3>2
  <2>2. [proc[p] EXCEPT !.todo = @ \ {s},
           !.shown = IF Parses(dir[s]) THEN Append(@, dir[s]) ELSE @] \in Process
    BY <2>1 DEF TypeOK, Process
  <2>3. proc' \in [Procs -> Process]
    BY <2>2, BecomeType
  <2> QED BY <1>11, <2>3 DEF ListNext, TypeOK
<1>12. ASSUME NEW p \in Procs, WriteFails(p)
       PROVE  TypeOK'
  <2>1. proc' \in [Procs -> Process]
    BY <1>0, <1>12, BecomeType DEF WriteFails, Exit
  <2>2. <<proc[p].target, p>> \in Stem \X Procs
    BY DEF TypeOK, Process
  <2>3. /\ tmp' \in [DOMAIN tmp' -> Entry \cup {Garbage}]
        /\ DOMAIN tmp' \subseteq Stem \X Procs
    BY <1>12, <2>2 DEF WriteFails, TypeOK, Put
  <2> QED BY <1>12, <2>1, <2>3 DEF WriteFails, TypeOK
<1>13. ASSUME NEW p \in Procs, Crash(p)
       PROVE  TypeOK'
  <2>1. proc' \in [Procs -> Process]
    BY <1>0, <1>13, BecomeType DEF Crash, Exit
  <2> QED BY <1>13, <2>1 DEF Crash, TypeOK
<1>14. CASE Tick
  BY <1>14 DEF Tick, TypeOK
<1>15. ASSUME NEW d \in ClockSteps, StepBack(d)
       PROVE  TypeOK'
  BY <1>15, QueueAssumption DEF StepBack, TypeOK
<1>16. CASE UNCHANGED vars
  BY <1>16 DEF vars, TypeOK
<1> QED BY <1>1, <1>2, <1>3, <1>4, <1>5, <1>6, <1>7, <1>8, <1>9, <1>10, <1>11,
           <1>12, <1>13, <1>14, <1>15, <1>16, QueueAssumption DEF Next, Step

\* Every step is a step of one actor, or leaves the queue alone.
Act(p) ==
  \/ Step(p) \/ WriteFails(p) \/ Crash(p) \/ StartList(p)
  \/ \E b \in BriefsOf[p] : StartEnqueue(p, b)
  \/ \E id \in ClaimableIds : StartClaim(p, id)

LEMMA OneActor ==
  ASSUME [Next]_vars
  PROVE  (\E p \in Procs : Act(p)) \/ UNCHANGED <<dir, tmp, proc, acked, claims>>
BY QueueAssumption DEF Next, vars, Act, Tick, StepBack

-----------------------------------------------------------------------------
(* What each step does to the fields of the acting process *)

Writer(p) == <<proc[p].base, proc[p].n, proc[p].entry, proc[p].target>>

LEMMA EnqueueSteps ==
  ASSUME TypeOK, NEW p \in Procs
  PROVE  /\ \A b \in BriefsOf[p] : StartEnqueue(p, b) =>
              /\ proc'[p].pc = "probe" /\ proc'[p].base[2] = SlugOf[b]
              /\ proc'[p].entry.status = "queued" /\ proc'[p].todo = {}
         /\ Probe(p) =>
              /\ proc'[p].base = proc[p].base /\ proc'[p].entry = proc[p].entry
              /\ proc'[p].todo = proc[p].todo
              /\ \/ proc'[p].pc = "probe"
                 \/ /\ proc'[p].pc = "build" /\ proc'[p].n = proc[p].n
                    /\ Candidate(proc[p].base, proc[p].n) \notin DOMAIN dir
         /\ Build(p) =>
              /\ proc'[p].pc = "write" /\ proc'[p].base = proc[p].base
              /\ proc'[p].n = proc[p].n /\ proc'[p].todo = proc[p].todo
              /\ proc'[p].target = Candidate(proc[p].base, proc[p].n)
              /\ proc'[p].entry.id = Candidate(proc[p].base, proc[p].n)
              /\ proc'[p].entry.status = proc[p].entry.status
<1>0. proc[p] \in Process /\ proc[p].entry \in Entry
  BY DEF TypeOK, Process
<1>1. ASSUME NEW b \in BriefsOf[p], StartEnqueue(p, b)
      PROVE  /\ proc'[p].pc = "probe" /\ proc'[p].base[2] = SlugOf[b]
             /\ proc'[p].entry.status = "queued" /\ proc'[p].todo = {}
  <2> DEFINE doc == [NoEntry EXCEPT !.req = reqs + 1]
  <2>1. proc'[p] = [Idle EXCEPT !.pc = "probe", !.base = BaseStem(b), !.entry = doc]
    BY <1>1, BecomeType DEF StartEnqueue
  <2>2. doc.status = "queued"
    BY DEF NoEntry
  <2>3. BaseStem(b)[2] = SlugOf[b]
    BY DEF BaseStem
  <2> HIDE DEF doc
  <2>4. /\ proc'[p].pc = "probe" /\ proc'[p].base = BaseStem(b)
        /\ proc'[p].entry = doc /\ proc'[p].todo = {}
    BY <2>1 DEF Idle
  <2> QED BY <2>2, <2>3, <2>4
<1>2. ASSUME Probe(p), Candidate(proc[p].base, proc[p].n) \in DOMAIN dir
      PROVE  /\ proc'[p].base = proc[p].base /\ proc'[p].entry = proc[p].entry
             /\ proc'[p].todo = proc[p].todo /\ proc'[p].pc = "probe"
  <2>1. proc'[p] = [proc[p] EXCEPT !.n = @ + 1]
    BY <1>2, BecomeType DEF Probe
  <2> QED BY <1>0, <1>2, <2>1 DEF Probe, At, Process
<1>3. ASSUME Probe(p), Candidate(proc[p].base, proc[p].n) \notin DOMAIN dir
      PROVE  /\ proc'[p].base = proc[p].base /\ proc'[p].entry = proc[p].entry
             /\ proc'[p].todo = proc[p].todo /\ proc'[p].pc = "build"
             /\ proc'[p].n = proc[p].n
  <2>1. proc'[p] = [proc[p] EXCEPT !.pc = "build"]
    BY <1>3, BecomeType DEF Probe
  <2> QED BY <1>0, <2>1 DEF Process
<1>4. ASSUME Build(p)
      PROVE  /\ proc'[p].pc = "write" /\ proc'[p].base = proc[p].base
             /\ proc'[p].n = proc[p].n /\ proc'[p].todo = proc[p].todo
             /\ proc'[p].target = Candidate(proc[p].base, proc[p].n)
             /\ proc'[p].entry.id = Candidate(proc[p].base, proc[p].n)
             /\ proc'[p].entry.status = proc[p].entry.status
  <2> DEFINE stem == Candidate(proc[p].base, proc[p].n)
             doc == [proc[p].entry EXCEPT !.id = stem, !.created = clock]
  <2>1. proc'[p] = [proc[p] EXCEPT !.pc = "write", !.target = stem, !.entry = doc]
    BY <1>4, BecomeType DEF Build
  <2>2. doc.id = stem /\ doc.status = proc[p].entry.status
    BY <1>0 DEF Entry
  <2> HIDE DEF doc, stem
  <2>3. /\ proc'[p].pc = "write" /\ proc'[p].base = proc[p].base
        /\ proc'[p].n = proc[p].n /\ proc'[p].todo = proc[p].todo
        /\ proc'[p].target = stem /\ proc'[p].entry = doc
    BY <1>0, <2>1 DEF Process
  <2> QED BY <2>2, <2>3 DEF stem
<1> QED BY <1>1, <1>2, <1>3, <1>4

LEMMA WriteSteps ==
  ASSUME TypeOK, NEW p \in Procs
  PROVE  /\ WriteTemp(p) =>
              proc'[p].pc = "rename" /\ Writer(p)' = Writer(p) /\ proc'[p].todo = proc[p].todo
         /\ Rename(p) =>
              proc'[p].pc = "print" /\ Writer(p)' = Writer(p) /\ proc'[p].todo = proc[p].todo
         /\ PrintId(p) \/ NotFound(p) \/ ListDone(p) \/ WriteFails(p) \/ Crash(p) =>
              proc'[p].pc = "idle" /\ proc'[p].todo = {}
<1>0. proc[p] \in Process
  BY DEF TypeOK
<1>1. ASSUME WriteTemp(p)
      PROVE  proc'[p].pc = "rename" /\ Writer(p)' = Writer(p) /\ proc'[p].todo = proc[p].todo
  <2>1. proc'[p] = [proc[p] EXCEPT !.pc = "rename"]
    BY <1>1, BecomeType DEF WriteTemp
  <2> QED BY <1>0, <2>1 DEF Process, Writer
<1>2. ASSUME Rename(p)
      PROVE  proc'[p].pc = "print" /\ Writer(p)' = Writer(p) /\ proc'[p].todo = proc[p].todo
  <2>1. proc'[p] = [proc[p] EXCEPT !.pc = "print"]
    BY <1>2, BecomeType DEF Rename
  <2> QED BY <1>0, <2>1 DEF Process, Writer
<1>3. ASSUME PrintId(p) \/ NotFound(p) \/ ListDone(p) \/ WriteFails(p) \/ Crash(p)
      PROVE  proc'[p].pc = "idle" /\ proc'[p].todo = {}
  <2>1. proc'[p] = Idle
    BY <1>3, BecomeType DEF PrintId, NotFound, ListDone, WriteFails, Crash, Exit
  <2> QED BY <2>1 DEF Idle
<1> QED BY <1>1, <1>2, <1>3

LEMMA ReadSteps ==
  ASSUME TypeOK, SnapshotsExist, NEW p \in Procs
  PROVE  /\ \A id \in ClaimableIds : StartClaim(p, id) =>
              proc'[p].pc = "scan" /\ proc'[p].todo = DOMAIN dir
         /\ StartList(p) => proc'[p].pc = "list" /\ proc'[p].todo = DOMAIN dir
         /\ ListNext(p) => proc'[p].pc = "list" /\ proc'[p].todo \subseteq proc[p].todo
         /\ Scan(p) =>
              /\ proc'[p].todo \subseteq proc[p].todo
              /\ \/ proc'[p].pc = "scan"
                 \/ \E s \in DOMAIN dir :
                      /\ proc'[p].pc = "write" /\ proc'[p].target = s
                      /\ Parses(dir[s]) /\ dir[s] \in Entry
                      /\ proc'[p].entry = [dir[s] EXCEPT !.status = "claimed"]
<1>0. proc[p] \in Process
  BY DEF TypeOK
<1>1. ASSUME NEW id \in ClaimableIds, StartClaim(p, id)
      PROVE  proc'[p].pc = "scan" /\ proc'[p].todo = DOMAIN dir
  <2>1. proc'[p] = [Snapshot EXCEPT !.pc = "scan", !.want = id]
    BY <1>1, BecomeType DEF StartClaim
  <2> QED BY <2>1 DEF Snapshot, Idle
<1>2. ASSUME StartList(p)
      PROVE  proc'[p].pc = "list" /\ proc'[p].todo = DOMAIN dir
  <2>1. proc'[p] = [Snapshot EXCEPT !.pc = "list"]
    BY <1>2, BecomeType DEF StartList
  <2> QED BY <2>1 DEF Snapshot, Idle
<1>3. ASSUME ListNext(p)
      PROVE  proc'[p].pc = "list" /\ proc'[p].todo \subseteq proc[p].todo
  <2> PICK s \in proc[p].todo :
         Become(p, [proc[p] EXCEPT !.todo = @ \ {s},
                      !.shown = IF Parses(dir[s]) THEN Append(@, dir[s]) ELSE @])
    BY <1>3 DEF ListNext
  <2>1. proc'[p] = [proc[p] EXCEPT !.todo = @ \ {s},
                      !.shown = IF Parses(dir[s]) THEN Append(@, dir[s]) ELSE @]
    BY BecomeType
  <2> QED BY <1>0, <1>3, <2>1 DEF Process, ListNext, At
<1>4. ASSUME Scan(p)
      PROVE  /\ proc'[p].todo \subseteq proc[p].todo
             /\ \/ proc'[p].pc = "scan"
                \/ \E s \in DOMAIN dir :
                     /\ proc'[p].pc = "write" /\ proc'[p].target = s
                     /\ Parses(dir[s]) /\ dir[s] \in Entry
                     /\ proc'[p].entry = [dir[s] EXCEPT !.status = "claimed"]
  <2> PICK s \in proc[p].todo :
         IF Parses(dir[s]) /\ dir[s].id = proc[p].want
         THEN Become(p, [proc[p] EXCEPT !.pc = "write", !.target = s,
                           !.entry = [dir[s] EXCEPT !.status = "claimed"]])
         ELSE Become(p, [proc[p] EXCEPT !.todo = @ \ {s}])
    BY <1>4 DEF Scan
  <2>1. s \in DOMAIN dir
    BY DEF SnapshotsExist
  <2>2. CASE Parses(dir[s]) /\ dir[s].id = proc[p].want
    <3>1. proc'[p] = [proc[p] EXCEPT !.pc = "write", !.target = s,
                        !.entry = [dir[s] EXCEPT !.status = "claimed"]]
      BY <2>2, BecomeType
    <3>2. dir[s] \in Entry
      BY <2>1, <2>2 DEF TypeOK, Parses
    <3>3. /\ proc'[p].pc = "write" /\ proc'[p].target = s
          /\ proc'[p].todo = proc[p].todo
          /\ proc'[p].entry = [dir[s] EXCEPT !.status = "claimed"]
      BY <1>0, <3>1 DEF Process
    <3> QED BY <2>1, <2>2, <3>2, <3>3
  <2>3. CASE ~(Parses(dir[s]) /\ dir[s].id = proc[p].want)
    <3>1. proc'[p] = [proc[p] EXCEPT !.todo = @ \ {s}]
      BY <2>3, BecomeType
    <3>2. proc'[p].pc = proc[p].pc /\ proc'[p].todo \subseteq proc[p].todo
      BY <1>0, <3>1 DEF Process
    <3> QED BY <1>4, <3>2 DEF Scan, At
  <2> QED BY <2>2, <2>3
<1> QED BY <1>1, <1>2, <1>3, <1>4

LEMMA OthersUntouched ==
  ASSUME TypeOK, NEW p \in Procs, Act(p), NEW q \in Procs, q # p
  PROVE  /\ proc'[q] = proc[q]
         /\ RenamesOwnTemp(q) => RenamesOwnTemp(q)'
<1>1. PICK r : Become(p, r)
  BY DEF Act, Step, Probe, Build, WriteTemp, Rename, PrintId, Scan, NotFound,
     ListNext, ListDone, WriteFails, Crash, StartList, StartEnqueue, StartClaim, Exit
<1>2. proc'[q] = proc[q]
  BY <1>1, BecomeType
<1> DEFINE key == <<proc[q].target, q>>
           mine == <<proc[p].target, p>>
           Kept == key \in DOMAIN tmp => key \in DOMAIN tmp' /\ tmp'[key] = tmp[key]
<1>a. key # mine
  OBVIOUS
<1>b. Kept => (RenamesOwnTemp(q) => RenamesOwnTemp(q)')
  BY <1>2 DEF RenamesOwnTemp, At
<1> HIDE DEF key, mine
<1>3. CASE WriteTemp(p)
  <2>1. tmp' = Put(tmp, mine, proc[p].entry)
    BY <1>3 DEF WriteTemp, mine
  <2>2. Kept
    BY <1>a, <2>1 DEF Put
  <2> QED BY <1>2, <1>b, <2>2
<1>4. CASE Rename(p)
  <2>1. tmp' = Remove(tmp, mine)
    BY <1>4 DEF Rename, mine
  <2>2. Kept
    BY <1>a, <2>1 DEF Remove
  <2> QED BY <1>2, <1>b, <2>2
<1>5. CASE WriteFails(p)
  <2>1. tmp' = tmp \/ tmp' = Put(tmp, mine, Garbage)
    BY <1>5 DEF WriteFails, mine
  <2>2. Kept
    BY <1>a, <2>1 DEF Put
  <2> QED BY <1>2, <1>b, <2>2
<1>6. CASE ~WriteTemp(p) /\ ~Rename(p) /\ ~WriteFails(p)
  <2>1. tmp' = tmp
    BY <1>6 DEF Act, Step, Probe, Build, PrintId, Scan, NotFound,
       ListNext, ListDone, Crash, StartList, StartEnqueue, StartClaim
  <2> QED BY <1>2, <2>1 DEF RenamesOwnTemp, At
<1> QED BY <1>2, <1>3, <1>4, <1>5, <1>6

\* No step deletes a queue file.
LEMMA FilesStay ==
  ASSUME NEW p \in Procs, Act(p)
  PROVE  /\ DOMAIN dir \subseteq DOMAIN dir'
         /\ ~Rename(p) => dir' = dir
<1>1. CASE Rename(p)
  BY <1>1 DEF Rename, Put
<1>2. CASE ~Rename(p)
  BY <1>2 DEF Act, Step, Probe, Build, WriteTemp, PrintId, Scan, NotFound, ListNext,
     ListDone, WriteFails, Crash, StartList, StartEnqueue, StartClaim
<1> QED BY <1>1, <1>2

\* Temp files stay owned and directory snapshots existing.
LEMMA NextOwned ==
  TypeOK /\ TempsOwned /\ SnapshotsExist /\ [Next]_vars
    => TempsOwned' /\ SnapshotsExist'
<1> SUFFICES ASSUME TypeOK, TempsOwned, SnapshotsExist, [Next]_vars,
                    NEW q \in Procs
             PROVE  RenamesOwnTemp(q)' /\ proc'[q].todo \subseteq DOMAIN dir'
  BY DEF TempsOwned, SnapshotsExist
<1>1. RenamesOwnTemp(q) /\ proc[q].todo \subseteq DOMAIN dir
  BY DEF TempsOwned, SnapshotsExist
<1>2. CASE UNCHANGED <<dir, tmp, proc, acked, claims>>
  BY <1>1, <1>2 DEF RenamesOwnTemp, At
<1>3. ASSUME NEW p \in Procs, Act(p), p # q
      PROVE  RenamesOwnTemp(q)' /\ proc'[q].todo \subseteq DOMAIN dir'
  BY <1>1, <1>3, OthersUntouched, FilesStay
<1>4. ASSUME Act(q)
      PROVE  RenamesOwnTemp(q)' /\ proc'[q].todo \subseteq DOMAIN dir'
  <2>1. proc'[q].todo \subseteq DOMAIN dir
    BY <1>1, <1>4, EnqueueSteps, WriteSteps, ReadSteps DEF Act, Step
  <2>2. CASE WriteTemp(q)
    <3>1. proc'[q].target = proc[q].target /\ proc'[q].entry = proc[q].entry
      BY <2>2, WriteSteps DEF Writer
    <3> DEFINE key == <<proc[q].target, q>>
    <3>a. tmp' = Put(tmp, key, proc[q].entry)
      BY <2>2 DEF WriteTemp
    <3>b. key \in DOMAIN tmp' /\ tmp'[key] = proc[q].entry
      BY <3>a DEF Put
    <3>2. RenamesOwnTemp(q)'
      BY <3>1, <3>b DEF RenamesOwnTemp
    <3> QED BY <1>4, <2>1, <3>2, FilesStay
  <2>3. CASE ~WriteTemp(q)
    <3>1. proc'[q].pc # "rename"
      BY <1>4, <2>3, EnqueueSteps, WriteSteps, ReadSteps DEF Act, Step
    <3> QED BY <1>4, <2>1, <3>1, FilesStay DEF RenamesOwnTemp, At
  <2> QED BY <2>2, <2>3
<1> QED BY <1>2, <1>3, <1>4, OneActor

LEMMA Owned == Spec => [](TypeOK /\ TempsOwned /\ SnapshotsExist)
<1> DEFINE Inv == TypeOK /\ TempsOwned /\ SnapshotsExist
<1>1. Init => Inv
  BY InitType DEF Init, Idle, TempsOwned, RenamesOwnTemp, SnapshotsExist, At
<1>2. Inv /\ [Next]_vars => Inv'
  BY NextType, NextOwned
<1> QED BY <1>1, <1>2, PTL DEF Spec

\* Type correctness of the queue, for every instance: TypeOK holds in every
\* reachable state of the directory protocol of src/gui_queue.rs.
THEOREM TypeCorrect == Spec => []TypeOK
BY Owned, PTL

-----------------------------------------------------------------------------
(* The write discipline *)

OwnName(p) == \E b \in BriefsOf[p] : proc[p].base[2] = SlugOf[b]

Disciplined(p) ==
  /\ At(p, "probe") => OwnName(p)
  /\ proc[p].pc \in {"probe", "build"} => Enqueuing(p)
  /\ NameStaysFree(p) /\ RewritesOwnFile(p) /\ PrintsWhatIsOnDisk(p)

\* A step keeps what a queue file says: its request and id for good, its
\* claim once it has one.  A file it adds has one of the actor's own names.
FilesEvolve(p) ==
  /\ \A s \in DOMAIN dir : Parses(dir[s]) =>
       /\ s \in DOMAIN dir' /\ Parses(dir'[s]) /\ dir'[s].req = dir[s].req
       /\ dir[s].status = "claimed" => dir'[s].status = "claimed"
  /\ \A s \in DOMAIN dir' \ DOMAIN dir :
       \E b \in BriefsOf[p] : s[2] \in NamesOf(SlugOf[b])

LEMMA DirStep ==
  ASSUME TypeOK, TempsOwned, FileNamedById, NEW p \in Procs, Disciplined(p), Act(p)
  PROVE  FilesEvolve(p) /\ FileNamedById'
<1>1. CASE ~Rename(p)
  BY <1>1, FilesStay DEF FilesEvolve, FileNamedById
<1>2. CASE Rename(p)
  <2> DEFINE e == proc[p].entry
             t == proc[p].target
  <2>1. At(p, "rename") /\ Writing(p)
    BY <1>2 DEF Rename, At, Writing
  <2>2. dir' = Put(dir, t, e)
    BY <1>2, <2>1 DEF Rename, TempsOwned, RenamesOwnTemp
  <2>3. e \in Entry /\ proc[p].base \in Stem /\ proc[p].n \in Nat \ {0}
    BY DEF TypeOK, Process
  <2>4. Parses(e) /\ e.id = t
    BY <2>1, <2>3, QueueAssumption DEF Parses, Disciplined, RewritesOwnFile
  <2>5. /\ DOMAIN dir' = DOMAIN dir \cup {t} /\ dir'[t] = e
        /\ \A s \in DOMAIN dir : s # t => dir'[s] = dir[s]
    BY <2>2 DEF Put
  <2>6. FileNamedById'
    BY <2>4, <2>5 DEF FileNamedById
  <2>7. CASE Enqueuing(p)
    <3>1. t = Candidate(proc[p].base, proc[p].n) /\ t \notin DOMAIN dir /\ OwnName(p)
      BY <2>1, <2>7 DEF Disciplined, RewritesOwnFile, NameStaysFree, OwnName
    <3>2. \E b \in BriefsOf[p] : t[2] \in NamesOf(SlugOf[b])
      BY <2>3, <3>1, CandidateType DEF OwnName
    <3> QED BY <2>5, <2>6, <3>1, <3>2 DEF FilesEvolve
  <2>8. CASE ~Enqueuing(p)
    <3>1. Holds(t, e.req) /\ e.status = "claimed"
      BY <2>1, <2>3, <2>8 DEF Disciplined, RewritesOwnFile, Enqueuing, Entry, Status
    <3> QED BY <2>4, <2>5, <2>6, <3>1 DEF FilesEvolve, Holds
  <2> QED BY <2>7, <2>8
<1> QED BY <1>1, <1>2

LEMMA OthersStayDisciplined ==
  ASSUME DisjointNames, TypeOK, NEW p \in Procs, Act(p), FilesEvolve(p),
         NEW q \in Procs, q # p, Disciplined(q)
  PROVE  Disciplined(q)'
<1>1. proc'[q] = proc[q]
  BY OthersUntouched
<1>2. \A id, r : Holds(id, r) => Holds(id, r)'
  BY DEF Holds, FilesEvolve
<1>3. NameStaysFree(q)'
  <2> SUFFICES ASSUME At(q, "build") \/ (Writing(q) /\ Enqueuing(q))
               PROVE  /\ OwnName(q)
                      /\ Candidate(proc[q].base, proc[q].n) \notin DOMAIN dir'
    BY <1>1 DEF NameStaysFree, OwnName, At, Writing, Enqueuing
  <2>1. OwnName(q) /\ Candidate(proc[q].base, proc[q].n) \notin DOMAIN dir
    BY DEF Disciplined, NameStaysFree, OwnName
  <2>2. PICK b \in BriefsOf[q] : proc[q].base[2] = SlugOf[b]
    BY <2>1 DEF OwnName
  <2>3. Candidate(proc[q].base, proc[q].n)[2] \in NamesOf(SlugOf[b])
    BY <2>2, CandidateType DEF TypeOK, Process
  <2> QED BY <2>1, <2>3 DEF FilesEvolve, DisjointNames
<1>4. RewritesOwnFile(q)'
  BY <1>1, <1>2 DEF Disciplined, RewritesOwnFile, Writing, Enqueuing
<1>5. PrintsWhatIsOnDisk(q)'
  BY <1>1, <1>2 DEF Disciplined, PrintsWhatIsOnDisk, FilesEvolve, Holds, At, Enqueuing
<1> QED BY <1>1, <1>3, <1>4, <1>5 DEF Disciplined, OwnName, At, Enqueuing

LEMMA ActorStaysDisciplined ==
  ASSUME TypeOK, TempsOwned, SnapshotsExist, FileNamedById,
         NEW p \in Procs, Disciplined(p), Act(p), FilesEvolve(p)
  PROVE  Disciplined(p)'
<1> USE DEF At, Writing, Enqueuing, OwnName
<1>1. ASSUME NEW b \in BriefsOf[p], StartEnqueue(p, b) PROVE Disciplined(p)'
  BY <1>1, EnqueueSteps DEF Disciplined, NameStaysFree, RewritesOwnFile, PrintsWhatIsOnDisk
<1>2. CASE Probe(p)
  <2>1. dir' = dir /\ proc[p].pc = "probe"
    BY <1>2 DEF Probe
  <2> QED BY <1>2, <2>1, EnqueueSteps
          DEF Disciplined, NameStaysFree, RewritesOwnFile, PrintsWhatIsOnDisk
<1>3. CASE Build(p)
  <2>1. dir' = dir /\ proc[p].pc = "build"
    BY <1>3 DEF Build
  <2> QED BY <1>3, <2>1, EnqueueSteps
          DEF Disciplined, NameStaysFree, RewritesOwnFile, PrintsWhatIsOnDisk
<1>4. CASE WriteTemp(p)
  <2>1. dir' = dir /\ proc[p].pc = "write"
    BY <1>4 DEF WriteTemp
  <2>2. proc'[p].pc = "rename" /\ Writer(p)' = Writer(p)
    BY <1>4, WriteSteps
  <2> QED BY <2>1, <2>2
          DEF Writer, Disciplined, NameStaysFree, RewritesOwnFile, PrintsWhatIsOnDisk, Holds
<1>5. CASE Rename(p)
  <2>1. proc[p].pc = "rename" /\ dir' = Put(dir, proc[p].target, proc[p].entry)
    BY <1>5 DEF Rename, TempsOwned, RenamesOwnTemp
  <2>2. proc'[p].pc = "print" /\ proc'[p].entry = proc[p].entry
    BY <1>5, WriteSteps DEF Writer
  <2>3. proc[p].entry \in Entry /\ proc[p].entry.id = proc[p].target
    BY <2>1 DEF TypeOK, Process, Disciplined, RewritesOwnFile
  <2>4. Parses(proc[p].entry)
    BY <2>3, QueueAssumption DEF Parses
  <2>5. proc[p].target \in DOMAIN dir' /\ dir'[proc[p].target] = proc[p].entry
    BY <2>1 DEF Put
  <2>6. PrintsWhatIsOnDisk(p)'
    BY <2>2, <2>3, <2>4, <2>5 DEF PrintsWhatIsOnDisk, Holds, Entry, Status
  <2> QED BY <2>2, <2>6 DEF Disciplined, NameStaysFree, RewritesOwnFile
<1>6. CASE Scan(p)
  <2>1. dir' = dir
    BY <1>6 DEF Scan
  <2>2. CASE proc'[p].pc = "scan"
    BY <2>2 DEF Disciplined, NameStaysFree, RewritesOwnFile, PrintsWhatIsOnDisk
  <2>3. CASE proc'[p].pc # "scan"
    <3>1. PICK s \in DOMAIN dir :
            /\ proc'[p].pc = "write" /\ proc'[p].target = s
            /\ Parses(dir[s]) /\ dir[s] \in Entry
            /\ proc'[p].entry = [dir[s] EXCEPT !.status = "claimed"]
      BY <1>6, <2>3, ReadSteps
    <3>2. /\ proc'[p].entry.id = s /\ proc'[p].entry.req = dir[s].req
          /\ proc'[p].entry.status = "claimed"
      BY <3>1 DEF FileNamedById, Entry
    <3> QED BY <2>1, <3>1, <3>2
            DEF Disciplined, NameStaysFree, RewritesOwnFile, PrintsWhatIsOnDisk, Holds
  <2> QED BY <2>2, <2>3
<1>7. CASE proc'[p].pc \in {"idle", "scan", "list"}
  BY <1>7 DEF Disciplined, NameStaysFree, RewritesOwnFile, PrintsWhatIsOnDisk
<1>8. CASE \/ PrintId(p) \/ NotFound(p) \/ ListDone(p) \/ WriteFails(p) \/ Crash(p)
           \/ ListNext(p) \/ StartList(p) \/ \E id \in ClaimableIds : StartClaim(p, id)
  BY <1>7, <1>8, WriteSteps, ReadSteps
<1> QED BY <1>1, <1>2, <1>3, <1>4, <1>5, <1>6, <1>8 DEF Act, Step

\* What is confirmed by a step is on disk, and stays there.
LEMMA ConfirmationsHold ==
  ASSUME TypeOK, ConfirmedStaysQueued, ClaimSticks, NEW p \in Procs,
         Disciplined(p), Act(p), FilesEvolve(p)
  PROVE  ConfirmedStaysQueued' /\ ClaimSticks'
<1>1. \A id, r : Holds(id, r) => Holds(id, r)'
  BY DEF Holds, FilesEvolve
<1>2. /\ \A a \in acked : Holds(a[2], a[1])'
      /\ \A id \in claims :
           id \in DOMAIN dir' /\ Parses(dir'[id]) /\ dir'[id].status = "claimed"
  BY <1>1 DEF ConfirmedStaysQueued, ClaimSticks, FilesEvolve
<1>3. CASE PrintId(p)
  <2>1. dir' = dir /\ At(p, "print")
    BY <1>3 DEF PrintId
  <2>2. /\ Holds(proc[p].entry.id, proc[p].entry.req)
        /\ ~Enqueuing(p) => dir[proc[p].entry.id].status = "claimed"
    BY <2>1 DEF Disciplined, PrintsWhatIsOnDisk
  <2>3. CASE Enqueuing(p)
    <3>1. acked' = acked \cup {<<proc[p].entry.req, proc[p].entry.id>>} /\ claims' = claims
      BY <1>3, <2>3 DEF PrintId, Enqueuing
    <3> QED BY <1>2, <2>1, <2>2, <3>1 DEF ConfirmedStaysQueued, ClaimSticks, Holds
  <2>4. CASE ~Enqueuing(p)
    <3>1. claims' = claims \cup {proc[p].entry.id} /\ acked' = acked
      BY <1>3, <2>4 DEF PrintId, Enqueuing
    <3> QED BY <1>2, <2>1, <2>2, <2>4, <3>1 DEF ConfirmedStaysQueued, ClaimSticks, Holds
  <2> QED BY <2>3, <2>4
<1>4. CASE ~PrintId(p)
  <2>1. acked' = acked /\ claims' = claims
    BY <1>4 DEF Act, Step, Probe, Build, WriteTemp, Rename, Scan, NotFound,
       ListNext, ListDone, WriteFails, Crash, StartList, StartEnqueue, StartClaim
  <2> QED BY <1>2, <2>1 DEF ConfirmedStaysQueued, ClaimSticks
<1> QED BY <1>3, <1>4

Discipline ==
  /\ FileNamedById /\ ConfirmedStaysQueued /\ ClaimSticks
  /\ \A p \in Procs : Disciplined(p)

LEMMA InitDiscipline == Init => Discipline
BY DEF Init, Idle, Discipline, FileNamedById, ConfirmedStaysQueued, ClaimSticks, Parses,
   Disciplined, NameStaysFree, RewritesOwnFile, PrintsWhatIsOnDisk, At, Writing

LEMMA NextDiscipline ==
  ASSUME DisjointNames, TypeOK, TempsOwned, SnapshotsExist, Discipline, [Next]_vars
  PROVE  Discipline'
<1>1. CASE UNCHANGED <<dir, tmp, proc, acked, claims>>
  BY <1>1 DEF Discipline, FileNamedById, ConfirmedStaysQueued, ClaimSticks, Holds,
     Disciplined, OwnName, NameStaysFree, RewritesOwnFile, PrintsWhatIsOnDisk,
     At, Writing, Enqueuing
<1>2. ASSUME NEW p \in Procs, Act(p)
      PROVE  Discipline'
  <2>1. FilesEvolve(p) /\ FileNamedById'
    BY <1>2, DirStep DEF Discipline
  <2>2. ConfirmedStaysQueued' /\ ClaimSticks'
    BY <1>2, <2>1, ConfirmationsHold DEF Discipline
  <2>3. Disciplined(p)'
    BY <1>2, <2>1, ActorStaysDisciplined DEF Discipline
  <2>4. \A q \in Procs : q # p => Disciplined(q)'
    BY <1>2, <2>1, OthersStayDisciplined DEF Discipline
  <2> QED BY <2>1, <2>2, <2>3, <2>4 DEF Discipline
<1> QED BY <1>1, <1>2, OneActor

LEMMA AlwaysDiscipline == ASSUME DisjointNames PROVE Spec => []Discipline
<1>1. TypeOK /\ TempsOwned /\ SnapshotsExist /\ Discipline /\ [Next]_vars => Discipline'
  BY NextDiscipline
<1> QED BY <1>1, InitDiscipline, Owned, PTL DEF Spec

\* The write discipline that the run checks, for every instance whose actors'
\* names are disjoint.
THEOREM WriteDisciplineHolds ==
  ASSUME DisjointNames PROVE Spec => []WriteDiscipline
<1>1. TypeOK /\ TempsOwned /\ SnapshotsExist /\ Discipline => WriteDiscipline
  BY DEF TempsOwned, SnapshotsExist, Discipline, Disciplined, OwnName, WriteDiscipline
<1> QED BY <1>1, AlwaysDiscipline, Owned, PTL

\* No confirmed request is ever lost: src/gui_queue.rs keeps it under the id it
\* printed, whatever crashes, faults and clock steps occur.
THEOREM ConfirmedRequestsStay ==
  ASSUME DisjointNames PROVE Spec => []ConfirmedStaysQueued
<1>1. WriteDiscipline => ConfirmedStaysQueued
  BY DEF WriteDiscipline
<1> QED BY <1>1, WriteDisciplineHolds, PTL

\* No confirmed claim is ever undone.
THEOREM ConfirmedClaimsStick ==
  ASSUME DisjointNames PROVE Spec => []ClaimSticks
<1>1. WriteDiscipline => ClaimSticks
  BY DEF WriteDiscipline
<1> QED BY <1>1, WriteDisciplineHolds, PTL

\* With disjoint names two confirmed requests never share a queue file: the
\* collision the README rules out needs two actors with coinciding names.
THEOREM DisjointNamesNeverCollide ==
  ASSUME DisjointNames PROVE Spec => []NeverCollide
<1>1. TypeOK /\ ConfirmedStaysQueued => NeverCollide
  BY DEF TypeOK, ConfirmedStaysQueued, NeverCollide, Holds
<1> QED BY <1>1, TypeCorrect, ConfirmedRequestsStay, PTL
=============================================================================
