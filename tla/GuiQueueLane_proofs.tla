------------------------ MODULE GuiQueueLane_proofs ------------------------
(***************************************************************************)
(* What the callers of the GUI dispatch queue see, for any number of       *)
(* actors, briefs and requests: a scan finds what was confirmed before it, *)
(* a listing is complete, in order and current, and the directory protocol *)
(* implements the dispatch lane.                                           *)
(***************************************************************************)
EXTENDS GuiQueue_proofs

-----------------------------------------------------------------------------
(* Files that can be found *)

\* There is a file of that id, and it can be read.
Present(id) == id \in DOMAIN dir /\ Parses(dir[id])

\* What one process relies on, and brings about, to find a file by its id.
FindsFiles(p) ==
  /\ Writing(p) => proc[p].entry.id = proc[p].target
  /\ At(p, "print") => Present(proc[p].entry.id)
  /\ proc[p].pc \in {"scan", "list"} => \A id \in proc[p].due : Present(id)
  /\ At(p, "scan") /\ proc[p].want \in proc[p].due => proc[p].want \in proc[p].todo

\* A confirmed id stays findable, even where another actor's file takes its
\* name: names need not be disjoint.
Findable ==
  /\ FileNamedById
  /\ \A a \in acked : Present(a[2])
  /\ \A p \in Procs : FindsFiles(p)

\* The steps that read, field by field: what `claim' and `list' note when they
\* start, and what each file they read adds.
LEMMA StartReads ==
  ASSUME TypeOK, NEW p \in Procs
  PROVE  /\ \A id \in ClaimableIds : StartClaim(p, id) =>
              /\ proc'[p].pc = "scan" /\ proc'[p].want = id
              /\ proc'[p].todo = DOMAIN dir /\ proc'[p].due = {a[2] : a \in acked}
         /\ StartList(p) =>
              /\ proc'[p].pc = "list" /\ proc'[p].todo = DOMAIN dir
              /\ proc'[p].due = {a[2] : a \in acked}
              /\ proc'[p].dueClaims = claims /\ proc'[p].shown = <<>>
<1>1. ASSUME NEW id \in ClaimableIds, StartClaim(p, id)
      PROVE  /\ proc'[p].pc = "scan" /\ proc'[p].want = id
             /\ proc'[p].todo = DOMAIN dir /\ proc'[p].due = {a[2] : a \in acked}
  <2>1. proc'[p] = [Snapshot EXCEPT !.pc = "scan", !.want = id]
    BY <1>1, BecomeType DEF StartClaim
  <2> QED BY <2>1 DEF Snapshot, Idle
<1>2. ASSUME StartList(p)
      PROVE  /\ proc'[p].pc = "list" /\ proc'[p].todo = DOMAIN dir
             /\ proc'[p].due = {a[2] : a \in acked}
             /\ proc'[p].dueClaims = claims /\ proc'[p].shown = <<>>
  <2>1. proc'[p] = [Snapshot EXCEPT !.pc = "list"]
    BY <1>2, BecomeType DEF StartList
  <2> QED BY <2>1 DEF Snapshot, Idle
<1> QED BY <1>1, <1>2

LEMMA ScanReads ==
  ASSUME TypeOK, NEW p \in Procs, Scan(p)
  PROVE  \E s \in proc[p].todo :
           \/ /\ Parses(dir[s]) /\ dir[s].id = proc[p].want
              /\ proc'[p].pc = "write" /\ proc'[p].target = s
              /\ proc'[p].entry = [dir[s] EXCEPT !.status = "claimed"]
           \/ /\ ~(Parses(dir[s]) /\ dir[s].id = proc[p].want)
              /\ proc'[p].pc = "scan" /\ proc'[p].want = proc[p].want
              /\ proc'[p].due = proc[p].due /\ proc'[p].todo = proc[p].todo \ {s}
<1>0. proc[p] \in Process
  BY DEF TypeOK
<1> PICK s \in proc[p].todo :
       IF Parses(dir[s]) /\ dir[s].id = proc[p].want
       THEN Become(p, [proc[p] EXCEPT !.pc = "write", !.target = s,
                         !.entry = [dir[s] EXCEPT !.status = "claimed"]])
       ELSE Become(p, [proc[p] EXCEPT !.todo = @ \ {s}])
  BY DEF Scan
<1>1. CASE Parses(dir[s]) /\ dir[s].id = proc[p].want
  <2>1. proc'[p] = [proc[p] EXCEPT !.pc = "write", !.target = s,
                      !.entry = [dir[s] EXCEPT !.status = "claimed"]]
    BY <1>1, BecomeType
  <2>2. /\ proc'[p].pc = "write" /\ proc'[p].target = s
        /\ proc'[p].entry = [dir[s] EXCEPT !.status = "claimed"]
    BY <1>0, <2>1 DEF Process
  <2> QED BY <1>1, <2>2
<1>2. CASE ~(Parses(dir[s]) /\ dir[s].id = proc[p].want)
  <2>1. proc'[p] = [proc[p] EXCEPT !.todo = @ \ {s}]
    BY <1>2, BecomeType
  <2>2. /\ proc'[p].pc = proc[p].pc /\ proc'[p].want = proc[p].want
        /\ proc'[p].due = proc[p].due /\ proc'[p].todo = proc[p].todo \ {s}
    BY <1>0, <2>1 DEF Process
  <2> QED BY <1>2, <2>2 DEF Scan, At
<1> QED BY <1>1, <1>2

LEMMA ListReads ==
  ASSUME TypeOK, NEW p \in Procs, ListNext(p)
  PROVE  \E s \in proc[p].todo :
           /\ IsNewest(s, proc[p].todo) /\ At(p, "list")
           /\ proc'[p].pc = "list" /\ proc'[p].todo = proc[p].todo \ {s}
           /\ proc'[p].due = proc[p].due /\ proc'[p].dueClaims = proc[p].dueClaims
           /\ proc'[p].shown = IF Parses(dir[s]) THEN Append(proc[p].shown, dir[s])
                                                 ELSE proc[p].shown
<1>0. proc[p] \in Process
  BY DEF TypeOK
<1> PICK s \in proc[p].todo :
       /\ IsNewest(s, proc[p].todo)
       /\ Become(p, [proc[p] EXCEPT !.todo = @ \ {s},
                       !.shown = IF Parses(dir[s]) THEN Append(@, dir[s]) ELSE @])
  BY DEF ListNext
<1>1. proc'[p] = [proc[p] EXCEPT !.todo = @ \ {s},
                    !.shown = IF Parses(dir[s]) THEN Append(@, dir[s]) ELSE @]
  BY BecomeType
<1>2. /\ proc'[p].pc = proc[p].pc /\ proc'[p].todo = proc[p].todo \ {s}
      /\ proc'[p].due = proc[p].due /\ proc'[p].dueClaims = proc[p].dueClaims
      /\ proc'[p].shown = IF Parses(dir[s]) THEN Append(proc[p].shown, dir[s])
                                            ELSE proc[p].shown
  BY <1>0, <1>1 DEF Process
<1> QED BY <1>2 DEF ListNext, At

\* No step makes a file unfindable: what is renamed into place is whole, as the
\* temp file is the process's own, and is named after its id.
LEMMA DirKeepsFiles ==
  ASSUME TypeOK, TempsOwned, FileNamedById, NEW p \in Procs, FindsFiles(p), Act(p)
  PROVE  /\ FileNamedById'
         /\ \A id : Present(id) => Present(id)'
         /\ Rename(p) => \A id : id = proc[p].entry.id => Present(id)'
<1>1. CASE ~Rename(p)
  BY <1>1, FilesStay DEF FileNamedById, Present
<1>2. CASE Rename(p)
  <2> DEFINE e == proc[p].entry
             t == proc[p].target
  <2>1. At(p, "rename") /\ Writing(p)
    BY <1>2 DEF Rename, At, Writing
  <2>2. dir' = Put(dir, t, e)
    BY <1>2, <2>1 DEF Rename, TempsOwned, RenamesOwnTemp
  <2>3. e \in Entry /\ e.id = t
    BY <2>1 DEF TypeOK, Process, FindsFiles
  <2>4. Parses(e)
    BY <2>3, QueueAssumption DEF Parses
  <2>5. /\ DOMAIN dir' = DOMAIN dir \cup {t} /\ dir'[t] = e
        /\ \A s \in DOMAIN dir : s # t => dir'[s] = dir[s]
    BY <2>2 DEF Put
  <2> HIDE DEF e, t
  <2>6. FileNamedById'
    BY <2>3, <2>5 DEF FileNamedById
  <2>7. \A id : Present(id) => Present(id)'
    BY <2>4, <2>5 DEF Present
  <2>8. \A id : id = proc[p].entry.id => Present(id)'
    BY <2>3, <2>4, <2>5 DEF Present, e
  <2> QED BY <2>6, <2>7, <2>8
<1> QED BY <1>1, <1>2

\* An actor's step keeps what it relies on.
LEMMA ActorFindsFiles ==
  ASSUME TypeOK, TempsOwned, SnapshotsExist, Findable, NEW p \in Procs, Act(p)
  PROVE  FindsFiles(p)'
<1> USE DEF At, Writing
<1>0. FindsFiles(p) /\ FileNamedById /\ \A a \in acked : Present(a[2])
  BY DEF Findable
<1>a. /\ \A id : Present(id) => Present(id)'
      /\ Rename(p) => \A id : id = proc[p].entry.id => Present(id)'
  BY <1>0, DirKeepsFiles
<1>b. \A id \in {a[2] : a \in acked} : Present(id)
  BY <1>0
<1>1. ASSUME NEW b \in BriefsOf[p], StartEnqueue(p, b) PROVE FindsFiles(p)'
  BY <1>1, EnqueueSteps DEF FindsFiles
<1>2. CASE Probe(p)
  BY <1>2, EnqueueSteps DEF FindsFiles
<1>3. CASE Build(p)
  BY <1>3, EnqueueSteps DEF FindsFiles
<1>4. CASE WriteTemp(p)
  <2>1. proc[p].pc = "write" /\ proc'[p].pc = "rename" /\ Writer(p)' = Writer(p)
    BY <1>4, WriteSteps DEF WriteTemp
  <2> QED BY <1>0, <2>1 DEF FindsFiles, Writer
<1>5. CASE Rename(p)
  <2>1. proc'[p].pc = "print" /\ proc'[p].entry = proc[p].entry
    BY <1>5, WriteSteps DEF Writer
  <2>2. Present(proc[p].entry.id)'
    BY <1>5, <1>a, <2>1
  <2> QED BY <2>1, <2>2 DEF FindsFiles
<1>6. CASE Scan(p)
  <2>1. dir' = dir /\ At(p, "scan")
    BY <1>6 DEF Scan
  <2> PICK s \in proc[p].todo :
        \/ /\ Parses(dir[s]) /\ dir[s].id = proc[p].want
           /\ proc'[p].pc = "write" /\ proc'[p].target = s
           /\ proc'[p].entry = [dir[s] EXCEPT !.status = "claimed"]
        \/ /\ ~(Parses(dir[s]) /\ dir[s].id = proc[p].want)
           /\ proc'[p].pc = "scan" /\ proc'[p].want = proc[p].want
           /\ proc'[p].due = proc[p].due /\ proc'[p].todo = proc[p].todo \ {s}
    BY <1>6, ScanReads
  <2>2. s \in DOMAIN dir
    BY DEF SnapshotsExist
  <2>3. CASE proc'[p].pc = "write"
    <3>1. dir[s] \in Entry
      BY <2>2, <2>3 DEF TypeOK, Parses
    <3>2. proc'[p].entry.id = s
      BY <1>0, <2>2, <2>3, <3>1 DEF FileNamedById, Entry
    <3> QED BY <2>3, <3>2 DEF FindsFiles
  <2>4. CASE proc'[p].pc # "write"
    <3>1. proc[p].want \in proc[p].due => s # proc[p].want
      BY <1>0, <2>1, <2>2, <2>4 DEF FindsFiles, Present, FileNamedById
    <3> QED BY <1>0, <1>a, <2>1, <2>4, <3>1 DEF FindsFiles
  <2> QED BY <2>3, <2>4
<1>7. ASSUME NEW id \in ClaimableIds, StartClaim(p, id) PROVE FindsFiles(p)'
  BY <1>7, <1>a, <1>b, StartReads DEF FindsFiles, Present
<1>8. CASE StartList(p)
  BY <1>8, <1>a, <1>b, StartReads DEF FindsFiles
<1>9. CASE ListNext(p)
  <2>1. proc[p].pc = "list" /\ proc'[p].pc = "list" /\ proc'[p].due = proc[p].due
    BY <1>9, ListReads
  <2> QED BY <1>0, <1>a, <2>1 DEF FindsFiles
<1>10. CASE PrintId(p) \/ NotFound(p) \/ ListDone(p) \/ WriteFails(p) \/ Crash(p)
  BY <1>10, WriteSteps DEF FindsFiles
<1> QED BY <1>1, <1>2, <1>3, <1>4, <1>5, <1>6, <1>7, <1>8, <1>9, <1>10 DEF Act, Step

\* What a step adds to the histories of confirmations.
LEMMA Confirmations ==
  ASSUME NEW p \in Procs, Act(p)
  PROVE  /\ claims \subseteq claims'
         /\ ~PrintId(p) => acked' = acked /\ claims' = claims
         /\ PrintId(p) => /\ At(p, "print") /\ dir' = dir
                          /\ acked' \subseteq acked \cup {<<proc[p].entry.req, proc[p].entry.id>>}
<1>1. CASE PrintId(p)
  BY <1>1 DEF PrintId
<1>2. CASE ~PrintId(p)
  BY <1>2 DEF Act, Step, Probe, Build, WriteTemp, Rename, Scan, NotFound, ListNext,
     ListDone, WriteFails, Crash, StartList, StartEnqueue, StartClaim
<1> QED BY <1>1, <1>2

LEMMA InitFindable == Init => Findable
BY DEF Init, Idle, Findable, FileNamedById, FindsFiles, Parses, At, Writing

\* So every step keeps confirmed ids findable.
LEMMA NextFindable ==
  TypeOK /\ TempsOwned /\ SnapshotsExist /\ Findable /\ [Next]_vars => Findable'
<1> SUFFICES ASSUME TypeOK, TempsOwned, SnapshotsExist, Findable, [Next]_vars
             PROVE  Findable'
  OBVIOUS
<1>1. CASE UNCHANGED <<dir, tmp, proc, acked, claims>>
  BY <1>1 DEF Findable, FileNamedById, FindsFiles, Present, At, Writing
<1>2. ASSUME NEW p \in Procs, Act(p)
      PROVE  Findable'
  <2>1. FileNamedById' /\ \A id : Present(id) => Present(id)'
    BY <1>2, DirKeepsFiles DEF Findable
  <2>2. \A a \in acked' : Present(a[2])'
    <3>1. \A a \in acked : Present(a[2])'
      BY <2>1 DEF Findable
    <3>2. CASE PrintId(p)
      <4>1. \A id : id = proc[p].entry.id => Present(id)'
        BY <1>2, <2>1, <3>2, Confirmations DEF Findable, FindsFiles
      <4> QED BY <1>2, <3>1, <3>2, <4>1, Confirmations
    <3> QED BY <1>2, <3>1, <3>2, Confirmations
  <2>3. FindsFiles(p)'
    BY <1>2, ActorFindsFiles
  <2>4. ASSUME NEW q \in Procs, q # p
        PROVE  FindsFiles(q)'
    <3>1. proc'[q] = proc[q] /\ FindsFiles(q)
      BY <1>2, <2>4, OthersUntouched DEF Findable
    <3> QED BY <2>1, <3>1 DEF FindsFiles, At, Writing
  <2> QED BY <2>1, <2>2, <2>3, <2>4 DEF Findable
<1> QED BY <1>1, <1>2, OneActor

LEMMA AlwaysFindable == Spec => []Findable
BY InitFindable, NextFindable, Owned, PTL DEF Spec

\* Claiming a confirmed request never ends in "not found" (`claim' of
\* src/gui_queue.rs), for any number of actors, faults and clock steps, and
\* even where names collide: the file is then another request's, but it is there.
THEOREM ConfirmedAreClaimable == Spec => []ConfirmedIsClaimable
<1>1. Findable => ConfirmedIsClaimable
  BY DEF Findable, FindsFiles, ConfirmedIsClaimable
<1> QED BY <1>1, AlwaysFindable, PTL

-----------------------------------------------------------------------------
(* A listing under way *)

\* What `list' has collected so far, and what it has not read yet.
ListingSoFar(p) ==
  At(p, "list") =>
    LET shown == proc[p].shown
    IN /\ \A id \in proc[p].due :
            id \in proc[p].todo \/ \E i \in DOMAIN shown : shown[i].id = id
       /\ proc[p].dueClaims \subseteq claims
       /\ \A i \in DOMAIN shown :
            /\ shown[i].id \in proc[p].dueClaims => shown[i].status = "claimed"
            /\ \A t \in proc[p].todo : shown[i].id # t /\ shown[i].id[1] >= t[1]
       /\ \A i, j \in DOMAIN shown :
            i < j => shown[i].id # shown[j].id /\ shown[i].id[1] >= shown[j].id[1]

ListingsSoFar == \A p \in Procs : ListingSoFar(p)

\* Reading the newest file left adds its entry below those shown so far, and
\* above all that is left.
LEMMA ActorKeepsListing ==
  ASSUME TypeOK, SnapshotsExist, Findable, ClaimSticks, NEW p \in Procs, Act(p),
         ListingSoFar(p)
  PROVE  ListingSoFar(p)'
<1> USE DEF At
<1>1. CASE StartList(p)
  <2>1. /\ proc'[p].todo = DOMAIN dir /\ proc'[p].due = {a[2] : a \in acked}
        /\ proc'[p].dueClaims = claims /\ proc'[p].shown = <<>> /\ claims' = claims
    BY <1>1, StartReads DEF StartList
  <2>2. \A id \in proc'[p].due : id \in proc'[p].todo
    BY <2>1 DEF Findable, Present
  <2>3. DOMAIN proc'[p].shown = {}
    BY <2>1
  <2> QED BY <2>1, <2>2, <2>3 DEF ListingSoFar
<1>2. CASE ListNext(p)
  <2> PICK s \in proc[p].todo :
         /\ IsNewest(s, proc[p].todo) /\ At(p, "list")
         /\ proc'[p].pc = "list" /\ proc'[p].todo = proc[p].todo \ {s}
         /\ proc'[p].due = proc[p].due /\ proc'[p].dueClaims = proc[p].dueClaims
         /\ proc'[p].shown = IF Parses(dir[s]) THEN Append(proc[p].shown, dir[s])
                                               ELSE proc[p].shown
    BY <1>2, ListReads
  <2> DEFINE old == proc[p].shown
             new == proc'[p].shown
             todo == proc[p].todo
  <2>1. old \in Seq(Entry) /\ todo \subseteq Stem /\ todo \subseteq DOMAIN dir
    BY DEF TypeOK, Process, SnapshotsExist
  <2>2. /\ \A id \in proc[p].due : id \in todo \/ \E i \in DOMAIN old : old[i].id = id
        /\ proc[p].dueClaims \subseteq claims
        /\ \A i \in DOMAIN old :
             /\ old[i].id \in proc[p].dueClaims => old[i].status = "claimed"
             /\ \A t \in todo : old[i].id # t /\ old[i].id[1] >= t[1]
        /\ \A i, j \in DOMAIN old :
             i < j => old[i].id # old[j].id /\ old[i].id[1] >= old[j].id[1]
    BY DEF ListingSoFar
  <2>3. \A t \in todo \ {s} : t[1] <= s[1]
    <3> SUFFICES ASSUME NEW t \in todo \ {s} PROVE t[1] <= s[1]
      OBVIOUS
    <3>1. t[1] \in Nat /\ s[1] \in Nat
      BY <2>1 DEF Stem
    <3> QED BY <3>1 DEF IsNewest, FileLess
  <2>4. claims' = claims
    BY <1>2 DEF ListNext
  <2>5. CASE ~Parses(dir[s])
    <3>1. new = old
      BY <2>5
    <3>2. s \notin proc[p].due
      BY <2>5 DEF Findable, FindsFiles, Present
    <3>3. \A id \in proc'[p].due :
            id \in proc'[p].todo \/ \E i \in DOMAIN new : new[i].id = id
      <4> HIDE DEF old, new
      <4> QED BY <2>2, <3>1, <3>2
    <3>4. /\ \A i \in DOMAIN new :
               /\ new[i].id \in proc[p].dueClaims => new[i].status = "claimed"
               /\ \A t \in todo \ {s} : new[i].id # t /\ new[i].id[1] >= t[1]
          /\ \A i, j \in DOMAIN new :
               i < j => new[i].id # new[j].id /\ new[i].id[1] >= new[j].id[1]
      <4> HIDE DEF old, new
      <4> QED BY <2>2, <3>1
    <3> HIDE DEF old
    <3> QED BY <2>2, <2>4, <3>3, <3>4 DEF ListingSoFar
  <2>6. CASE Parses(dir[s])
    <3>1. new = Append(old, dir[s])
      BY <2>6
    <3>2. dir[s] \in Entry /\ dir[s].id = s
      BY <2>1, <2>6 DEF TypeOK, Parses, Findable, FileNamedById
    <3>3. s \in claims => dir[s].status = "claimed"
      BY DEF ClaimSticks
    <3> DEFINE k == Len(old) + 1
    <3>4. /\ DOMAIN old = 1 .. Len(old) /\ DOMAIN new = 1 .. k /\ Len(old) \in Nat
          /\ new[k] = dir[s] /\ \A i \in DOMAIN old : new[i] = old[i]
      BY <2>1, <3>1, <3>2
    <3> HIDE DEF old, new, todo
    <3>5. \A i \in DOMAIN new : i = k \/ (i \in DOMAIN old /\ i < k)
      BY <3>4
    <3>6. \A i \in DOMAIN old : i \in DOMAIN new
      BY <3>4
    <3>a. k \in DOMAIN new
      BY <3>4
    <3> HIDE DEF k
    <3>7. \A id \in proc[p].due :
            id \in todo \ {s} \/ \E i \in DOMAIN new : new[i].id = id
      BY <2>2, <3>2, <3>4, <3>6, <3>a
    <3>8. \A i \in DOMAIN new :
            /\ new[i].id \in proc[p].dueClaims => new[i].status = "claimed"
            /\ \A t \in todo \ {s} : new[i].id # t /\ new[i].id[1] >= t[1]
      <4> SUFFICES ASSUME NEW i \in DOMAIN new
                   PROVE  /\ new[i].id \in proc[p].dueClaims => new[i].status = "claimed"
                          /\ \A t \in todo \ {s} : new[i].id # t /\ new[i].id[1] >= t[1]
        OBVIOUS
      <4>1. CASE i = k
        <5>1. new[i] = dir[s] /\ new[i].id = s
          BY <4>1, <3>2, <3>4
        <5>2. \A t \in todo \ {s} : t[1] \in Nat /\ s[1] \in Nat
          BY <2>1 DEF Stem, todo
        <5> QED BY <2>2, <2>3, <3>3, <5>1, <5>2 DEF todo
      <4>2. CASE i # k
        BY <2>2, <3>4, <3>5, <4>2
      <4> QED BY <4>1, <4>2
    <3>9. ASSUME NEW i \in DOMAIN new, NEW j \in DOMAIN new, i < j
          PROVE  new[i].id # new[j].id /\ new[i].id[1] >= new[j].id[1]
      <4>1. i \in DOMAIN old /\ new[i] = old[i]
        BY <3>4, <3>5, <3>9 DEF k
      <4>2. CASE j = k
        BY <2>2, <3>2, <3>4, <4>1, <4>2 DEF todo
      <4>3. CASE j # k
        BY <2>2, <3>4, <3>5, <3>9, <4>1, <4>3
      <4> QED BY <4>2, <4>3
    <3> QED BY <2>2, <2>4, <3>7, <3>8, <3>9 DEF ListingSoFar, new, todo
  <2> QED BY <2>5, <2>6
<1>3. CASE proc'[p].pc # "list"
  BY <1>3 DEF ListingSoFar
<1>4. CASE ~StartList(p) /\ ~ListNext(p)
  <2>1. proc'[p].pc # "list"
    BY <1>4, EnqueueSteps, WriteSteps, StartReads, ScanReads DEF Act, Step
  <2> QED BY <1>3, <2>1
<1> QED BY <1>1, <1>2, <1>4

\* Every step keeps the listings under way right.
LEMMA NextListings ==
  ASSUME TypeOK, SnapshotsExist, Findable, ClaimSticks, ListingsSoFar, [Next]_vars
  PROVE  ListingsSoFar'
<1>1. CASE UNCHANGED <<dir, tmp, proc, acked, claims>>
  BY <1>1 DEF ListingsSoFar, ListingSoFar, At
<1>2. ASSUME NEW p \in Procs, Act(p)
      PROVE  ListingsSoFar'
  <2>1. ListingSoFar(p)'
    BY <1>2, ActorKeepsListing DEF ListingsSoFar
  <2>2. ASSUME NEW q \in Procs, q # p
        PROVE  ListingSoFar(q)'
    <3>1. proc'[q] = proc[q] /\ claims \subseteq claims' /\ ListingSoFar(q)
      BY <1>2, <2>2, OthersUntouched, Confirmations DEF ListingsSoFar
    <3> QED BY <3>1 DEF ListingSoFar, At
  <2> QED BY <2>1, <2>2 DEF ListingsSoFar
<1> QED BY <1>1, <1>2, OneActor

LEMMA AlwaysListings == ASSUME DisjointNames PROVE Spec => []ListingsSoFar
<1>1. Init => ListingsSoFar
  BY DEF Init, Idle, ListingsSoFar, ListingSoFar, At
<1>2. TypeOK /\ SnapshotsExist /\ Findable /\ ClaimSticks /\ ListingsSoFar /\ [Next]_vars
        => ListingsSoFar'
  BY NextListings
<1> QED BY <1>1, <1>2, Owned, AlwaysFindable, ConfirmedClaimsStick, PTL DEF Spec

\* A finished listing holds every request confirmed before it began, once, the
\* later seconds first, and claimed if its claim was confirmed (`list' of
\* src/gui_queue.rs), for any number of actors whose names are disjoint.
THEOREM ListingsAreCurrent ==
  ASSUME DisjointNames PROVE Spec => []ListingIsCurrent
<1>1. ListingsSoFar => ListingIsCurrent
  BY DEF ListingsSoFar, ListingSoFar, ListingIsCurrent, ListEnds
<1> QED BY <1>1, AlwaysListings, PTL

-----------------------------------------------------------------------------
(* The lane *)

\* The readable files of request r in a directory d, and what they say of it.
FilesIn(d, r) == {s \in DOMAIN d : Parses(d[s]) /\ d[s].req = r}

\* What the directory says of request r.
StatusIn(d, r) ==
  IF FilesIn(d, r) = {} THEN "absent" ELSE d[CHOOSE s \in FilesIn(d, r) : TRUE].status

\* The process has a request that is in no file yet.
Issuing(p) == proc[p].pc \in {"probe", "build", "write", "rename"} /\ Enqueuing(p)

\* Every request number belongs to one file, or to one process, or to nobody.
OneFileEach ==
  \A s \in DOMAIN dir : Parses(dir[s]) =>
    /\ dir[s].req \in 1 .. reqs
    /\ \A t \in DOMAIN dir : Parses(dir[t]) /\ t # s => dir[t].req # dir[s].req

\* No file has request r; and no two files or processes share a request.
InNoFile(r) == \A s \in DOMAIN dir : Parses(dir[s]) => dir[s].req # r
RequestsApart ==
  /\ reqs <= MaxReqs /\ OneFileEach
  /\ \A p \in Procs : Issuing(p) =>
       /\ proc[p].entry.req \in 1 .. reqs /\ InNoFile(proc[p].entry.req)
       /\ \A q \in Procs : Issuing(q) /\ q # p => proc[q].entry.req # proc[p].entry.req

\* What a step does to the request numbers: an enqueue that starts takes the
\* next one, and every other step leaves a process with the one it had.
LEMMA NumberSteps ==
  ASSUME TypeOK, SnapshotsExist, NEW p \in Procs, Act(p)
  PROVE  \/ /\ reqs < MaxReqs /\ reqs' = reqs + 1 /\ dir' = dir
            /\ proc'[p].entry.req = reqs + 1
         \/ /\ reqs' = reqs
            /\ Issuing(p)' => Issuing(p) /\ proc'[p].entry.req = proc[p].entry.req
<1> USE DEF Issuing, Enqueuing
<1>0. proc[p] \in Process /\ proc[p].entry \in Entry
  BY DEF TypeOK, Process
<1>1. ASSUME NEW b \in BriefsOf[p], StartEnqueue(p, b)
      PROVE  proc'[p].entry.req = reqs + 1
  <2> DEFINE doc == [NoEntry EXCEPT !.req = reqs + 1]
  <2>1. proc'[p] = [Idle EXCEPT !.pc = "probe", !.base = BaseStem(b), !.entry = doc]
    BY <1>1, BecomeType DEF StartEnqueue
  <2>2. doc.req = reqs + 1
    BY DEF NoEntry
  <2> HIDE DEF doc
  <2>3. proc'[p].entry = doc
    BY <2>1 DEF Idle
  <2> QED BY <2>2, <2>3
<1>2. CASE Probe(p)
  BY <1>2, EnqueueSteps DEF Probe, At
<1>3. CASE Build(p)
  <2> DEFINE stem == Candidate(proc[p].base, proc[p].n)
             doc == [proc[p].entry EXCEPT !.id = stem, !.created = clock]
  <2>1. proc'[p] = [proc[p] EXCEPT !.pc = "write", !.target = stem, !.entry = doc]
    BY <1>3, BecomeType DEF Build
  <2>2. doc.req = proc[p].entry.req /\ doc.status = proc[p].entry.status
    BY <1>0 DEF Entry
  <2> HIDE DEF doc, stem
  <2>3. proc'[p].entry = doc
    BY <1>0, <2>1 DEF Process
  <2> QED BY <1>3, <2>2, <2>3 DEF Build, At
<1>4. CASE WriteTemp(p)
  BY <1>4, WriteSteps DEF WriteTemp, Writer, At
<1>5. CASE Scan(p)
  <2>1. \/ proc'[p].pc = "scan"
        \/ \E s \in DOMAIN dir : /\ dir[s] \in Entry
                               /\ proc'[p].entry = [dir[s] EXCEPT !.status = "claimed"]
    BY <1>5, ReadSteps
  <2>2. \A e \in Entry : [e EXCEPT !.status = "claimed"].status = "claimed"
    BY DEF Entry
  <2> QED BY <1>5, <2>1, <2>2 DEF Scan
<1>6. CASE \/ Rename(p) \/ PrintId(p) \/ NotFound(p) \/ ListNext(p) \/ ListDone(p)
           \/ WriteFails(p) \/ Crash(p) \/ StartList(p)
           \/ \E id \in ClaimableIds : StartClaim(p, id)
  <2>1. proc'[p].pc \in {"print", "idle", "list", "scan"}
    BY <1>6, WriteSteps, StartReads, ListReads
  <2>2. reqs' = reqs
    BY <1>6 DEF Rename, PrintId, NotFound, ListNext, ListDone, WriteFails, Crash,
       StartList, StartClaim
  <2> QED BY <2>1, <2>2
<1> QED BY <1>1, <1>2, <1>3, <1>4, <1>5, <1>6 DEF Act, Step, StartEnqueue

\* What a rename puts into the directory: a new request under a free name, or
\* the claimed form of the request that is in the file already.
LEMMA RenameStep ==
  ASSUME TypeOK, TempsOwned, NEW p \in Procs, Disciplined(p), Rename(p)
  PROVE  \E t \in Stem, e \in Entry :
           /\ dir' = Put(dir, t, e) /\ Parses(e) /\ e.req = proc[p].entry.req
           /\ ~Issuing(p)'
           /\ \/ Issuing(p) /\ t \notin DOMAIN dir /\ e.status = "queued"
              \/ Holds(t, e.req) /\ e.status = "claimed"
<1> DEFINE e == proc[p].entry
           t == proc[p].target
<1>1. At(p, "rename") /\ Writing(p)
  BY DEF Rename, At, Writing
<1>2. dir' = Put(dir, t, e)
  BY <1>1 DEF Rename, TempsOwned, RenamesOwnTemp
<1>3. e \in Entry /\ t \in Stem /\ Parses(e)
  BY QueueAssumption DEF TypeOK, Process, Parses
<1>4. ~Issuing(p)'
  BY WriteSteps DEF Issuing
<1>5. CASE Enqueuing(p)
  <2>1. t \notin DOMAIN dir /\ Issuing(p) /\ e.status = "queued"
    BY <1>1, <1>5 DEF Disciplined, NameStaysFree, RewritesOwnFile, Issuing, Enqueuing, At
  <2> HIDE DEF e, t
  <2> QED BY <1>2, <1>3, <1>4, <2>1 DEF e
<1>6. CASE ~Enqueuing(p)
  <2>1. Holds(t, e.req) /\ e.status = "claimed"
    BY <1>1, <1>3, <1>6 DEF Disciplined, RewritesOwnFile, Enqueuing, Entry, Status
  <2> HIDE DEF e, t
  <2> QED BY <1>2, <1>3, <1>4, <2>1 DEF e
<1> QED BY <1>5, <1>6

\* A step is one actor's, or leaves the queue alone.
LEMMA ActorSteps ==
  ASSUME [Next]_vars
  PROVE  (\E p \in Procs : Act(p)) \/ UNCHANGED <<dir, proc, reqs>>
BY QueueAssumption DEF Next, vars, Act, Tick, StepBack

LEMMA InitApart == Init => RequestsApart
BY QueueAssumption DEF Init, Idle, RequestsApart, OneFileEach, Issuing, Parses

\* Every step keeps requests apart.
LEMMA NextApart ==
  ASSUME TypeOK, TempsOwned, SnapshotsExist, Discipline, RequestsApart, [Next]_vars
  PROVE  RequestsApart'
<1>1. CASE UNCHANGED <<dir, proc, reqs>>
  BY <1>1 DEF RequestsApart, OneFileEach, InNoFile, Issuing, Enqueuing
<1>2. ASSUME NEW p \in Procs, Act(p)
      PROVE  RequestsApart'
  <2> DEFINE req(q) == proc[q].entry.req
  <2>0. /\ MaxReqs \in Nat /\ reqs \in Nat /\ reqs <= MaxReqs /\ OneFileEach
        /\ \A q \in Procs : Issuing(q) =>
             /\ req(q) \in 1 .. reqs /\ InNoFile(req(q))
             /\ \A o \in Procs : Issuing(o) /\ o # q => req(o) # req(q)
    BY QueueAssumption DEF TypeOK, RequestsApart
  <2>1. \A q \in Procs : q # p => (Issuing(q)' <=> Issuing(q)) /\ req(q)' = req(q)
    BY <1>2, OthersUntouched DEF Issuing, Enqueuing
  <2> HIDE DEF req
  <2>2. CASE reqs < MaxReqs /\ reqs' = reqs + 1 /\ dir' = dir /\ req(p)' = reqs + 1
    <3>1. \A r \in 1 .. reqs : r \in 1 .. reqs' /\ r # reqs + 1
      BY <2>0, <2>2
    <3>2. OneFileEach' /\ \A r : r = reqs + 1 \/ InNoFile(r) => InNoFile(r)'
      BY <2>0, <2>2, <3>1 DEF OneFileEach, InNoFile
    <3>3. reqs' <= MaxReqs /\ reqs + 1 \in 1 .. reqs'
      BY <2>0, <2>2
    <3>4. ASSUME NEW q \in Procs, Issuing(q)'
          PROVE  /\ req(q)' \in 1 .. reqs' /\ InNoFile(req(q))'
                 /\ \A o \in Procs : Issuing(o)' /\ o # q => req(o)' # req(q)'
      <4>1. CASE q = p
        BY <2>0, <2>1, <2>2, <3>1, <3>2, <3>3, <4>1
      <4>2. CASE q # p
        BY <2>0, <2>1, <2>2, <3>1, <3>2, <3>4, <4>2
      <4> QED BY <4>1, <4>2
    <3> QED BY <3>2, <3>3, <3>4 DEF RequestsApart, req
  <2>3. CASE reqs' = reqs /\ (Issuing(p)' => Issuing(p) /\ req(p)' = req(p)) /\ ~Rename(p)
    <3>1. dir' = dir
      BY <1>2, <2>3, FilesStay
    <3>2. OneFileEach' /\ \A r : InNoFile(r) => InNoFile(r)'
      BY <2>0, <2>3, <3>1 DEF OneFileEach, InNoFile
    <3>3. ASSUME NEW q \in Procs, Issuing(q)'
          PROVE  /\ req(q)' \in 1 .. reqs' /\ InNoFile(req(q))'
                 /\ \A o \in Procs : Issuing(o)' /\ o # q => req(o)' # req(q)'
      BY <2>0, <2>1, <2>3, <3>2, <3>3
    <3> QED BY <2>0, <2>3, <3>2, <3>3 DEF RequestsApart, req
  <2>4. CASE reqs' = reqs /\ Rename(p)
    <3>1. PICK t \in Stem, e \in Entry :
            /\ dir' = Put(dir, t, e) /\ Parses(e) /\ e.req = req(p) /\ ~Issuing(p)'
            /\ \/ Issuing(p) /\ t \notin DOMAIN dir
               \/ Holds(t, e.req)
      BY <2>4, RenameStep DEF Discipline, req
    <3>2. /\ DOMAIN dir' = DOMAIN dir \cup {t} /\ dir'[t] = e
          /\ \A s \in DOMAIN dir : s # t => dir'[s] = dir[s]
      BY <3>1 DEF Put
    <3>3. /\ e.req \in 1 .. reqs
          /\ \A s \in DOMAIN dir : Parses(dir[s]) /\ s # t => dir[s].req # e.req
      BY <2>0, <3>1 DEF OneFileEach, InNoFile, Holds
    <3>4. OneFileEach'
      BY <2>0, <2>4, <3>1, <3>2, <3>3 DEF OneFileEach
    <3>5. ASSUME NEW q \in Procs, Issuing(q), q # p
          PROVE  InNoFile(req(q))'
      <4>1. InNoFile(req(q)) /\ req(q)' = req(q)
        BY <2>0, <2>1, <3>5
      <4>2. e.req # req(q)
        BY <2>0, <3>1, <3>5, <4>1 DEF Holds, InNoFile
      <4> QED BY <3>2, <4>1, <4>2 DEF InNoFile
    <3>6. ASSUME NEW q \in Procs, Issuing(q)'
          PROVE  /\ req(q)' \in 1 .. reqs' /\ InNoFile(req(q))'
                 /\ \A o \in Procs : Issuing(o)' /\ o # q => req(o)' # req(q)'
      BY <2>0, <2>1, <2>4, <3>1, <3>5, <3>6
    <3> QED BY <2>0, <2>4, <3>4, <3>6 DEF RequestsApart, req
  <2>5. reqs' = reqs \/ ~Rename(p)
    BY DEF Rename
  <2> QED BY <1>2, <2>2, <2>3, <2>4, <2>5, NumberSteps DEF Rename, req
<1> QED BY <1>1, <1>2, ActorSteps

LEMMA AlwaysApart == ASSUME DisjointNames PROVE Spec => []RequestsApart
<1>1. TypeOK /\ TempsOwned /\ SnapshotsExist /\ Discipline /\ RequestsApart /\ [Next]_vars
        => RequestsApart'
  BY NextApart
<1> QED BY <1>1, InitApart, Owned, AlwaysDiscipline, PTL DEF Spec

\* A request in one readable file has that file's status.
LEMMA StatusOfFile ==
  ASSUME NEW d, NEW s \in DOMAIN d, Parses(d[s]),
         \A t \in DOMAIN d : Parses(d[t]) /\ t # s => d[t].req # d[s].req
  PROVE  StatusIn(d, d[s].req) = d[s].status
<1>1. FilesIn(d, d[s].req) = {s}
  BY DEF FilesIn
<1> QED BY <1>1 DEF StatusIn

\* What the users see, and what a rename does to it.
Told == [r \in 1 .. MaxReqs |-> StatusIn(dir, r)]

\* A rename queues one request, claims one, or changes nothing told.
LEMMA RenameTold ==
  ASSUME TypeOK, TempsOwned, Discipline, RequestsApart, NEW p \in Procs, Rename(p)
  PROVE  \/ Told' = Told
         \/ \E r \in 1 .. MaxReqs :
              \/ Told[r] = "absent" /\ Told' = [Told EXCEPT ![r] = "queued"]
              \/ Told[r] = "queued" /\ Told' = [Told EXCEPT ![r] = "claimed"]
<1>1. PICK t \in Stem, e \in Entry :
        /\ dir' = Put(dir, t, e) /\ Parses(e) /\ e.req = proc[p].entry.req
        /\ \/ Issuing(p) /\ t \notin DOMAIN dir /\ e.status = "queued"
           \/ Holds(t, e.req) /\ e.status = "claimed"
  BY RenameStep DEF Discipline
<1>2. /\ DOMAIN dir' = DOMAIN dir \cup {t} /\ dir'[t] = e
      /\ \A s \in DOMAIN dir : s # t => dir'[s] = dir[s]
  BY <1>1 DEF Put
<1>3. /\ e.req \in 1 .. reqs
      /\ \A s \in DOMAIN dir : Parses(dir[s]) /\ s # t => dir[s].req # e.req
  BY <1>1 DEF RequestsApart, OneFileEach, InNoFile, Holds
<1>4. e.req \in 1 .. MaxReqs
  BY <1>3, QueueAssumption DEF TypeOK, RequestsApart
<1>5. StatusIn(dir', e.req) = e.status
  BY <1>1, <1>2, <1>3, StatusOfFile
<1>6. ASSUME NEW r, r # e.req
      PROVE  StatusIn(dir', r) = StatusIn(dir, r)
  <2>1. FilesIn(dir', r) = FilesIn(dir, r)
    BY <1>1, <1>2, <1>6 DEF FilesIn, Holds
  <2>2. \A s \in FilesIn(dir, r) : dir'[s] = dir[s]
    BY <1>1, <1>2, <1>6 DEF FilesIn, Holds
  <2>3. CASE FilesIn(dir, r) = {}
    BY <2>1, <2>3 DEF StatusIn
  <2>4. CASE FilesIn(dir, r) # {}
    <3>1. (CHOOSE s \in FilesIn(dir, r) : TRUE) \in FilesIn(dir, r)
      BY <2>4
    <3> QED BY <2>1, <2>2, <2>4, <3>1 DEF StatusIn
  <2> QED BY <2>3, <2>4
<1>7. Told' = [Told EXCEPT ![e.req] = e.status]
  BY <1>4, <1>5, <1>6 DEF Told
<1>8. CASE Issuing(p) /\ t \notin DOMAIN dir /\ e.status = "queued"
  <2>1. FilesIn(dir, e.req) = {}
    BY <1>1, <1>3, <1>8 DEF FilesIn
  <2>2. Told[e.req] = "absent"
    BY <1>4, <2>1 DEF Told, StatusIn
  <2> QED BY <1>4, <1>7, <1>8, <2>2
<1>9. CASE Holds(t, e.req) /\ e.status = "claimed"
  <2>1. t \in DOMAIN dir /\ Parses(dir[t]) /\ dir[t].req = e.req
    BY <1>9 DEF Holds
  <2>2. StatusIn(dir, e.req) = dir[t].status
    BY <1>3, <2>1, StatusOfFile
  <2>3. Told[e.req] = dir[t].status /\ dir[t].status \in {"queued", "claimed"}
    BY <1>4, <2>1, <2>2 DEF Told, TypeOK, Parses, Entry, Status
  <2>4. CASE dir[t].status = "claimed"
    <3>1. Told' = Told
      BY <1>4, <1>7, <1>9, <2>3, <2>4 DEF Told
    <3> QED BY <3>1
  <2>5. CASE dir[t].status = "queued"
    BY <1>4, <1>7, <1>9, <2>3, <2>5
  <2> QED BY <2>3, <2>4, <2>5
<1> QED BY <1>1, <1>8, <1>9

\* The directory protocol of src/gui_queue.rs implements the dispatch lane, for
\* any number of actors whose names are disjoint: in whatever order the file
\* operations fall, a request appears once, in one step, as queued, and only
\* moves on to claimed.
THEOREM LaneImplemented ==
  ASSUME DisjointNames PROVE Spec => ImplementsLane
<1>1. Init => Lane!Init
  <2> SUFFICES ASSUME Init PROVE Lane!Init
    OBVIOUS
  <2>1. \A r : FilesIn(dir, r) = {}
    BY DEF Init, FilesIn, Parses
  <2> QED BY <2>1 DEF Lane!Init, FilesIn
<1>2. TypeOK /\ TempsOwned /\ Discipline /\ RequestsApart /\ [Next]_vars
        => [Lane!Next]_Told
  <2> SUFFICES ASSUME TypeOK, TempsOwned, Discipline, RequestsApart, [Next]_vars
               PROVE  Lane!Next \/ Told' = Told
    OBVIOUS
  <2>1. CASE UNCHANGED <<dir, proc, reqs>>
    BY <2>1 DEF Told, StatusIn, FilesIn
  <2>2. ASSUME NEW p \in Procs, Act(p), ~Rename(p)
        PROVE  Told' = Told
    <3>1. dir' = dir
      BY <2>2, FilesStay
    <3> QED BY <3>1 DEF Told, StatusIn, FilesIn
  <2>3. ASSUME NEW p \in Procs, Rename(p)
        PROVE  Lane!Next \/ Told' = Told
    <3>1. ASSUME NEW r \in 1 .. MaxReqs, Told[r] = "absent",
                 Told' = [Told EXCEPT ![r] = "queued"]
          PROVE  Lane!Enqueue(r)
      BY <3>1 DEF Lane!Enqueue, Told, StatusIn, FilesIn
    <3>2. ASSUME NEW r \in 1 .. MaxReqs, Told[r] = "queued",
                 Told' = [Told EXCEPT ![r] = "claimed"]
          PROVE  Lane!Claim(r)
      BY <3>2 DEF Lane!Claim, Told, StatusIn, FilesIn
    <3> QED BY <2>3, <3>1, <3>2, RenameTold DEF Lane!Next
  <2> QED BY <2>1, <2>2, <2>3, ActorSteps
<1> QED BY <1>1, <1>2, Owned, AlwaysDiscipline, AlwaysApart, PTL
        DEF Spec, ImplementsLane, Lane!Spec, Told, StatusIn, FilesIn
=============================================================================
