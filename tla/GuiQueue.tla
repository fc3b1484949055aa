------------------------------ MODULE GuiQueue ------------------------------
(***************************************************************************)
(* The GUI dispatch lane of zcode-axi (src/gui_queue.rs): a directory of   *)
(* one-request-per-file JSON documents that short-lived CLI processes      *)
(* share without a lock.  `run --gui' enqueues, `gui-queue claim' flips a  *)
(* status, `gui-queue list' reads.  Every file-system call is a step of    *)
(* its own, so the processes interleave between any two of them.           *)
(*                                                                         *)
(* An actor of Procs is a caller that runs one CLI process at a time.  A   *)
(* file name is abstracted to the pair <<second, name>>, where a name is   *)
(* the sequence of its dash-separated parts: `unique_stem' appends a       *)
(* number, so the slug "alpha" with suffix 2 and the slug "alpha-2" are    *)
(* the SAME name, as they are on disk.                                     *)
(***************************************************************************)
EXTENDS Integers, Sequences, FiniteSets

CONSTANTS
  Procs,       \* actors that run CLI processes
  Claimers,    \* the actors that also run `gui-queue claim' and `list'
  Briefs,      \* brief files
  Words,       \* the non-numeric parts of slugs
  SlugOf,      \* SlugOf[b]: the name `slugify' gives brief b
  BriefsOf,    \* BriefsOf[p]: the briefs actor p enqueues
  TextRank,    \* byte order of the parts of a name
  Stray,       \* file names present at the start with unparseable content
  Garbage,     \* content that does not parse
  Phantom,     \* an id no file has
  Second,      \* clock ticks (milliseconds) per second
  MaxClock,    \* bound: the clock stops here
  MaxReqs,     \* bound: requests issued in one behaviour
  MaxFaults,   \* bound: crashes and failed file-system calls
  ClockSteps   \* amounts the wall clock may be set back by

Token == Words \cup Nat
Slug == Seq(Token)
Stem == Nat \X Slug
Status == {"queued", "claimed"}
Entry == [id : Stem, req : Nat, created : Nat, status : Status]

ASSUME QueueAssumption ==
  /\ Claimers \subseteq Procs
  /\ SlugOf \in [Briefs -> Slug]
  /\ BriefsOf \in [Procs -> SUBSET Briefs]
  /\ Stray \subseteq Stem
  /\ Garbage \notin Entry
  /\ Phantom \notin Stem
  /\ Second \in Nat \ {0}
  /\ MaxClock \in Nat /\ MaxReqs \in Nat /\ MaxFaults \in Nat
  /\ ClockSteps \subseteq Nat

VARIABLES
  clock,   \* wall clock, milliseconds
  dir,     \* the *.json files: file stem -> content
  tmp,     \* the temp files: <<stem, actor>> -> content
  proc,    \* the running process of each actor: its locals and what it does next
  reqs,    \* requests issued so far
  faults,  \* faults so far
  acked,   \* history: <<request, id>> confirmed on stdout
  claims   \* history: ids whose claim was confirmed on stdout

vars == <<clock, dir, tmp, proc, reqs, faults, acked, claims>>

-----------------------------------------------------------------------------
(* File names *)

\* Mutant: the stamp is one second behind.
BaseStemBehind(b) == <<clock \div Second - 1, SlugOf[b]>>

\* Stamp and slug of a new request: the clock is cut to the second.
BaseStem(b) == <<clock \div Second, SlugOf[b]>>

\* The i-th stem `unique_stem' tries: the base, then base-2, base-3, ...
Candidate(bs, i) == IF i = 1 THEN bs ELSE <<bs[1], Append(bs[2], i)>>

\* Byte order of "<name>.json".  A name that continues another one sorts
\* below it, because '-' sorts below the '.' of the extension.
NameLess(a, b) ==
  \E i \in 1 .. Len(a) :
    /\ \A j \in 1 .. i - 1 : j <= Len(b) /\ a[j] = b[j]
    /\ IF i <= Len(b) THEN TextRank[a[i]] < TextRank[b[i]] ELSE i = Len(b) + 1

FileLess(s, t) == s[1] < t[1] \/ (s[1] = t[1] /\ NameLess(s[2], t[2]))

\* Mutant: the listing is sorted but not reversed.
IsOldest(s, S) == \A t \in S \ {s} : FileLess(s, t)

\* Head of the sorted and reversed directory listing.
IsNewest(s, S) == \A t \in S \ {s} : FileLess(t, s)

\* Mutant: a claimed entry is taken for a broken one.
ParsesQueued(content) == content # Garbage /\ content.status = "queued"

\* `read_entry' yields an entry only from content that parses.
Parses(content) == content # Garbage

Put(f, k, v) == [x \in DOMAIN f \cup {k} |-> IF x = k THEN v ELSE f[x]]
Remove(f, k) == [x \in DOMAIN f \ {k} |-> f[x]]

-----------------------------------------------------------------------------
NoStem == <<0, <<>>>>
NoEntry == [id |-> NoStem, req |-> 0, created |-> 0, status |-> "queued"]

\* No process running: nothing of a process survives its exit.
Idle == [pc |-> "idle",
         base |-> NoStem,   \* stamp and slug of the request being enqueued
         n |-> 1,           \* suffix the exists-probe tries
         entry |-> NoEntry, \* the document about to be written
         target |-> NoStem, \* the stem it is written to
         todo |-> {},       \* directory snapshot still to be read
         want |-> Phantom,  \* the id being claimed
         shown |-> <<>>,    \* what `list' has collected
         due |-> {},        \* history: ids confirmed before the snapshot
         dueClaims |-> {}]  \* history: claims confirmed before the snapshot

Init ==
  /\ clock = 0
  /\ dir = [s \in Stray |-> Garbage]
  /\ tmp = [x \in {} |-> Garbage]
  /\ proc = [p \in Procs |-> Idle]
  /\ reqs = 0 /\ faults = 0
  /\ acked = {} /\ claims = {}

At(p, label) == proc[p].pc = label
Become(p, r) == proc' = [proc EXCEPT ![p] = r]
Exit(p) == Become(p, Idle)

\* `run --gui': read the clock and form the base stem (a missing brief or an
\* uncreatable directory ends the process before any of this).
StartEnqueue(p, b) ==
  /\ At(p, "idle") /\ reqs < MaxReqs
  /\ reqs' = reqs + 1
  /\ Become(p, [Idle EXCEPT !.pc = "probe",
                            !.base = BaseStem(b),
                            !.entry = [NoEntry EXCEPT !.req = reqs + 1]])
  /\ UNCHANGED <<clock, dir, tmp, faults, acked, claims>>

\* Mutants of Probe: the suffix 2 is taken without a look; the suffix never
\* passes 2.
ProbeOnce(p) ==
  /\ At(p, "probe")
  /\ Become(p, [proc[p] EXCEPT !.pc = "build",
                               !.n = IF proc[p].base \in DOMAIN dir THEN 2 ELSE 1])
  /\ UNCHANGED <<clock, dir, tmp, reqs, faults, acked, claims>>
ProbeStuck(p) ==
  /\ At(p, "probe")
  /\ Become(p, IF Candidate(proc[p].base, proc[p].n) \in DOMAIN dir
               THEN [proc[p] EXCEPT !.n = 2] ELSE [proc[p] EXCEPT !.pc = "build"])
  /\ UNCHANGED <<clock, dir, tmp, reqs, faults, acked, claims>>

\* One exists() call of `unique_stem'.
Probe(p) ==
  /\ At(p, "probe")
  /\ IF Candidate(proc[p].base, proc[p].n) \in DOMAIN dir
     THEN Become(p, [proc[p] EXCEPT !.n = @ + 1])
     ELSE Become(p, [proc[p] EXCEPT !.pc = "build"])
  /\ UNCHANGED <<clock, dir, tmp, reqs, faults, acked, claims>>

\* Mutant: the id is the base stem, without the suffix the file name has.
BuildBaseId(p) ==
  /\ At(p, "build")
  /\ Become(p, [proc[p] EXCEPT
                  !.pc = "write",
                  !.target = Candidate(proc[p].base, proc[p].n),
                  !.entry = [@ EXCEPT !.id = proc[p].base, !.created = clock]])
  /\ UNCHANGED <<clock, dir, tmp, reqs, faults, acked, claims>>

\* Fill in the document; created_at is a second reading of the clock.
Build(p) ==
  /\ At(p, "build")
  /\ LET stem == Candidate(proc[p].base, proc[p].n)
     IN Become(p, [proc[p] EXCEPT
                     !.pc = "write",
                     !.target = stem,
                     !.entry = [@ EXCEPT !.id = stem, !.created = clock]])
  /\ UNCHANGED <<clock, dir, tmp, reqs, faults, acked, claims>>

\* Mutant: the file itself is truncated and filled in place.
WriteInPlace(p) ==
  /\ At(p, "write")
  /\ dir' = Put(dir, proc[p].target, Garbage)
  /\ tmp' = Put(tmp, <<proc[p].target, p>>, proc[p].entry)
  /\ Become(p, [proc[p] EXCEPT !.pc = "rename"])
  /\ UNCHANGED <<clock, reqs, faults, acked, claims>>

\* `write_atomic', first half: create and fill the per-process temp file.
WriteTemp(p) ==
  /\ At(p, "write")
  /\ tmp' = Put(tmp, <<proc[p].target, p>>, proc[p].entry)
  /\ Become(p, [proc[p] EXCEPT !.pc = "rename"])
  /\ UNCHANGED <<clock, dir, reqs, faults, acked, claims>>

\* `write_atomic', second half: rename replaces whatever has the name.
Rename(p) ==
  /\ At(p, "rename")
  /\ dir' = Put(dir, proc[p].target, tmp[<<proc[p].target, p>>])
  /\ tmp' = Remove(tmp, <<proc[p].target, p>>)
  /\ Become(p, [proc[p] EXCEPT !.pc = "print"])
  /\ UNCHANGED <<clock, reqs, faults, acked, claims>>

\* The confirmation the caller sees: queued_file=... id=... status=...
PrintId(p) ==
  /\ At(p, "print")
  /\ LET e == proc[p].entry
     IN IF e.status = "queued"
        THEN acked' = acked \cup {<<e.req, e.id>>} /\ UNCHANGED claims
        ELSE claims' = claims \cup {e.id} /\ UNCHANGED acked
  /\ Exit(p)
  /\ UNCHANGED <<clock, dir, tmp, reqs, faults>>

\* `json_files': the directory snapshot `claim' and `list' work from.
Snapshot == [Idle EXCEPT !.todo = DOMAIN dir,
                         !.due = {a[2] : a \in acked},
                         !.dueClaims = claims]

StartClaim(p, id) ==
  /\ At(p, "idle")
  /\ Become(p, [Snapshot EXCEPT !.pc = "scan", !.want = id])
  /\ UNCHANGED <<clock, dir, tmp, reqs, faults, acked, claims>>

\* `claim' reads one file: the first whose id matches is rewritten, whatever
\* its status was; the others are passed over.
Scan(p) ==
  /\ At(p, "scan")
  /\ \E s \in proc[p].todo :
       /\ IsNewest(s, proc[p].todo)
       /\ IF Parses(dir[s]) /\ dir[s].id = proc[p].want
          THEN Become(p, [proc[p] EXCEPT
                            !.pc = "write",
                            !.target = s,
                            !.entry = [dir[s] EXCEPT !.status = "claimed"]])
          ELSE Become(p, [proc[p] EXCEPT !.todo = @ \ {s}])
  /\ UNCHANGED <<clock, dir, tmp, reqs, faults, acked, claims>>

\* "gui-queue entry {id} not found": exit 1.
NotFound(p) ==
  /\ At(p, "scan") /\ proc[p].todo = {}
  /\ Exit(p)
  /\ UNCHANGED <<clock, dir, tmp, reqs, faults, acked, claims>>

StartList(p) ==
  /\ At(p, "idle")
  /\ Become(p, [Snapshot EXCEPT !.pc = "list"])
  /\ UNCHANGED <<clock, dir, tmp, reqs, faults, acked, claims>>

\* `list' reads one file; one that does not parse is skipped with a note.
ListNext(p) ==
  /\ At(p, "list")
  /\ \E s \in proc[p].todo :
       /\ IsNewest(s, proc[p].todo)
       /\ Become(p, [proc[p] EXCEPT
                       !.todo = @ \ {s},
                       !.shown = IF Parses(dir[s]) THEN Append(@, dir[s]) ELSE @])
  /\ UNCHANGED <<clock, dir, tmp, reqs, faults, acked, claims>>

ListDone(p) ==
  /\ At(p, "list") /\ proc[p].todo = {}
  /\ Exit(p)
  /\ UNCHANGED <<clock, dir, tmp, reqs, faults, acked, claims>>

\* A write that fails (disk full, permission) ends the process; the temp file
\* may be missing, or left behind incomplete.  A failed rename leaves it whole.
WriteFails(p) ==
  /\ faults < MaxFaults /\ faults' = faults + 1
  /\ \/ At(p, "write") /\ tmp' \in {tmp, Put(tmp, <<proc[p].target, p>>, Garbage)}
     \/ At(p, "rename") /\ tmp' = tmp
  /\ Exit(p)
  /\ UNCHANGED <<clock, dir, reqs, acked, claims>>

\* The process is killed between two system calls; its temp file stays.
Crash(p) ==
  /\ ~At(p, "idle") /\ faults < MaxFaults
  /\ faults' = faults + 1
  /\ Exit(p)
  /\ UNCHANGED <<clock, dir, tmp, reqs, acked, claims>>

Tick ==
  /\ clock < MaxClock
  /\ clock' = clock + 1
  /\ UNCHANGED <<dir, tmp, proc, reqs, faults, acked, claims>>

\* The wall clock is set back; SystemTime does not hide it.
StepBack(d) ==
  /\ d \in 1 .. clock
  /\ clock' = clock - d
  /\ UNCHANGED <<dir, tmp, proc, reqs, faults, acked, claims>>

\* The steps of a process that has started.
Step(p) ==
  \/ Probe(p) \/ Build(p) \/ WriteTemp(p) \/ Rename(p) \/ PrintId(p)
  \/ Scan(p) \/ NotFound(p) \/ ListNext(p) \/ ListDone(p)

\* The driver claims an id it read from a listing, or one that never existed.
ClaimableIds ==
  {dir[s].id : s \in {t \in DOMAIN dir : Parses(dir[t])}} \cup {Phantom}

Next ==
  \/ \E p \in Procs : Step(p) \/ WriteFails(p) \/ Crash(p)
  \/ \E p \in Procs : \E b \in BriefsOf[p] : StartEnqueue(p, b)
  \/ \E p \in Claimers : StartList(p) \/ \E id \in ClaimableIds : StartClaim(p, id)
  \/ Tick
  \/ \E d \in ClockSteps : StepBack(d)

Spec == Init /\ [][Next]_vars

\* A started process keeps running: it is an ordinary scheduled process.
FairSpec == Spec /\ \A p \in Procs : WF_vars(Step(p))

-----------------------------------------------------------------------------
(* Properties *)

PCs == {"idle", "probe", "build", "write", "rename", "print", "scan", "list"}
Process == [pc : PCs, base : Stem, n : Nat \ {0}, entry : Entry, target : Stem,
            todo : SUBSET Stem, want : Stem \cup {Phantom}, shown : Seq(Entry),
            due : SUBSET Stem, dueClaims : SUBSET Stem]

\* Type invariant of the queue directory and of every process's locals
\* (QueueEntry and the locals of enqueue, claim and list).
TypeOK ==
  /\ clock \in Nat /\ reqs \in Nat /\ faults \in Nat
  /\ dir \in [DOMAIN dir -> Entry \cup {Garbage}] /\ DOMAIN dir \subseteq Stem
  /\ tmp \in [DOMAIN tmp -> Entry \cup {Garbage}]
  /\ DOMAIN tmp \subseteq Stem \X Procs
  /\ proc \in [Procs -> Process]
  /\ acked \subseteq Nat \X Stem /\ claims \subseteq Stem

\* The names `unique_stem' may give slug s.
NamesOf(s) == {s} \cup {Append(s, i) : i \in Nat \ {0, 1}}

\* No two actors enqueue briefs whose names can coincide.
DisjointNames ==
  \A p, q \in Procs : p # q =>
    \A b \in BriefsOf[p], c \in BriefsOf[q] :
      NamesOf(SlugOf[b]) \cap NamesOf(SlugOf[c]) = {}

\* The file id holds request r.
Holds(id, r) == id \in DOMAIN dir /\ Parses(dir[id]) /\ dir[id].req = r

\* A request whose enqueue was confirmed stays in the queue under the id the
\* caller was told, through every crash, failed write, clock step and
\* concurrent enqueue or claim (enqueue's temp file + rename, the probe).
ConfirmedStaysQueued ==
  \A a \in acked : Holds(a[2], a[1])

\* A confirmed claim is never undone: no later rewrite brings the entry back
\* to "queued", which would have the driver dispatch it twice.
ClaimSticks ==
  \A id \in claims : id \in DOMAIN dir /\ Parses(dir[id]) /\ dir[id].status = "claimed"

\* Every parseable file is named after the id inside it, so the path that
\* `claim' rewrites and the id it was asked for never part ways.
FileNamedById == \A s \in DOMAIN dir : Parses(dir[s]) => dir[s].id = s

Enqueuing(p) == proc[p].entry.status = "queued"
Writing(p) == proc[p].pc \in {"write", "rename"}

\* What holds at each program point and keeps the queue whole when names are
\* disjoint: a name found free by `unique_stem' is still free at the rename; a
\* claim rewrites the file it read, and with the request it read; the temp file
\* renamed is the one this process wrote; what is printed is on disk.
NameStaysFree(p) ==
  At(p, "build") \/ (Writing(p) /\ Enqueuing(p)) =>
    /\ \E b \in BriefsOf[p] : proc[p].base[2] = SlugOf[b]
    /\ Candidate(proc[p].base, proc[p].n) \notin DOMAIN dir
RewritesOwnFile(p) ==
  Writing(p) =>
    /\ proc[p].entry.id = proc[p].target
    /\ IF Enqueuing(p) THEN proc[p].target = Candidate(proc[p].base, proc[p].n)
                       ELSE Holds(proc[p].target, proc[p].entry.req)
RenamesOwnTemp(p) ==
  At(p, "rename") => /\ <<proc[p].target, p>> \in DOMAIN tmp
                     /\ tmp[<<proc[p].target, p>>] = proc[p].entry
PrintsWhatIsOnDisk(p) ==
  At(p, "print") =>
    /\ Holds(proc[p].entry.id, proc[p].entry.req)
    /\ ~Enqueuing(p) => dir[proc[p].entry.id].status = "claimed"

WriteDiscipline ==
  /\ FileNamedById /\ ConfirmedStaysQueued /\ ClaimSticks
  /\ \A p \in Procs :
       /\ At(p, "probe") => \E b \in BriefsOf[p] : proc[p].base[2] = SlugOf[b]
       /\ proc[p].pc \in {"probe", "build"} => Enqueuing(p)
       /\ proc[p].todo \subseteq DOMAIN dir
       /\ NameStaysFree(p) /\ RewritesOwnFile(p)
       /\ RenamesOwnTemp(p) /\ PrintsWhatIsOnDisk(p)

ListEnds(p) == At(p, "list") /\ proc[p].todo = {}

\* A finished listing holds each request confirmed before it began exactly
\* once, those of later seconds first, and shows it claimed if its claim had
\* been confirmed: the listing is read file by file while other processes rename
\* over the same files.  (For requests of one second see NewestFirst.)
ListingIsCurrent ==
  \A p \in Procs : ListEnds(p) =>
    LET shown == proc[p].shown
    IN /\ \A id \in proc[p].due : \E i \in DOMAIN shown : shown[i].id = id
       /\ \A i \in DOMAIN shown :
            shown[i].id \in proc[p].dueClaims => shown[i].status = "claimed"
       /\ \A i, j \in DOMAIN shown :
            i < j => shown[i].id # shown[j].id /\ shown[i].id[1] >= shown[j].id[1]

\* README: "`gui-queue list` shows every entry, newest first", and json_files:
\* "Filenames are UTC-timestamp-prefixed, so name order is age order".  Fails
\* within a second, where the name with the suffix -2 sorts below the first.
NewestFirst ==
  \A p \in Procs : ListEnds(p) =>
    LET shown == proc[p].shown
    IN \A i, j \in DOMAIN shown : i < j => shown[i].created >= shown[j].created

\* Claiming a request that was confirmed before the claim began never ends in
\* "not found", although files are added while the directory is scanned.
ConfirmedIsClaimable ==
  \A p \in Procs :
    At(p, "scan") /\ proc[p].todo = {} => proc[p].want \notin proc[p].due

\* Every process that starts ends: the suffix loop of `unique_stem' finds a
\* free name and the directory scans run out of files.
ProcessEnds == \A p \in Procs : ~At(p, "idle") ~> At(p, "idle")

\* The lane as its users see it: requests, each absent, queued or claimed.
Lane == INSTANCE DispatchLane WITH
  Requests <- 1 .. MaxReqs,
  state <- [r \in 1 .. MaxReqs |->
    LET files == {s \in DOMAIN dir : Parses(dir[s]) /\ dir[s].req = r}
    IN IF files = {} THEN "absent" ELSE dir[CHOOSE s \in files : TRUE].status]

\* The directory protocol implements the lane: whatever the interleaving, a
\* request appears once, in one step, as queued, and only moves to claimed.
ImplementsLane == Lane!Spec

\* README, the GUI dispatch lane: same-second slug collisions get a numeric
\* suffix, so two confirmed requests never share a queue file.
NeverCollide == \A a, b \in acked : a[2] = b[2] => a = b

=============================================================================
