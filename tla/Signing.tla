------------------------------ MODULE Signing ------------------------------
(***************************************************************************)
(* packaging-watcher/sign-with-identity.sh, run after run: it builds and   *)
(* signs ZCodeWatcher.app in a staging directory and puts it in place of   *)
(* the installed bundle, while macOS keeps the Screen Recording grant for  *)
(* the signature it was given to.  A run can be interrupted between any    *)
(* two commands and inside the copy, and any command can fail; set -e ends *)
(* the script there.                                                       *)
(***************************************************************************)
EXTENDS Integers, FiniteSets

CONSTANTS
  Names,    \* certificate names one may ask for
  Within,   \* <<m, n>>: the name m occurs in the name n
  MaxRuns,  \* bound: runs of the script
  MaxKeys   \* bound: certificates the user creates

ASSUME SigningAssumption ==
  /\ Within \subseteq Names \X Names /\ \A n \in Names : <<n, n>> \in Within
  /\ Names \cap {"adhoc", "none", "unreadable", "unsigned-or-unknown"} = {}
  /\ {MaxRuns, MaxKeys} \subseteq Nat

VARIABLES
  keychain,   \* the certificates: [name, serial]
  keys,       \* certificates created so far
  staged,     \* packaging-watcher/build/ZCodeWatcher.app
  installed,  \* ~/Applications/ZCodeWatcher.app
  grant,      \* the requirement macOS granted Screen Recording to
  pc, args,   \* the script: its next command, [identity, install]
  said,       \* did it say that the identity is "unchanged" or "CHANGED"?
  release, runs,  \* the release binary, by the run that built it; runs begun
  old         \* history: the installed bundle when the run began, and whether
              \* it had the grant

vars == <<keychain, keys, staged, installed, grant, pc, args, said, release, runs, old>>

AdHoc == [name |-> "adhoc", serial |-> 0]
Unsigned == [name |-> "none", serial |-> 0]
Requests == Names \cup {"adhoc"}

\* A bundle is there as a whole, or a part of it, or "none".
NoBundle == [parts |-> "none", build |-> 0, sig |-> Unsigned]

\* The designated requirement: an ad-hoc signature has only the cdhash.
Requirement(b) == IF b.sig = AdHoc THEN [sig |-> AdHoc, build |-> b.build]
                                   ELSE [sig |-> b.sig, build |-> 0]
NoGrant == [sig |-> Unsigned, build |-> 0]
Granted(b) == b.parts = "all" /\ b.sig # Unsigned /\ grant = Requirement(b)

Init ==
  /\ keychain = {} /\ keys = 0
  /\ staged = NoBundle /\ installed = NoBundle /\ grant = NoGrant
  /\ pc = "idle" /\ args = [identity |-> "adhoc", install |-> FALSE] /\ said = "nothing"
  /\ release = 0 /\ runs = 0
  /\ old = [bundle |-> NoBundle, granted |-> FALSE]

mac == <<keychain, keys, grant>>
run == <<args, said, runs, old>>
Goto(label) == pc' = label

-----------------------------------------------------------------------------
Begin ==
  /\ pc = "idle" /\ runs < MaxRuns
  /\ args' \in [identity : Requests, install : BOOLEAN]
  /\ runs' = runs + 1 /\ said' = "nothing"
  /\ old' = [bundle |-> installed, granted |-> Granted(installed)]
  /\ Goto("compare")
  /\ UNCHANGED <<mac, staged, installed, release>>

\* Mutant: the name asked for may also be the longer one.
MatchesEither(id, n) == id = n \/ <<id, n>> \in Within \/ <<n, id>> \in Within

\* The installed name contains the one asked for; "adhoc" contains no other.
Matches(id, n) == id = n \/ <<id, n>> \in Within

\* codesign -dv fails for what is not signed, and names a certificate only in
\* an Authority= line, which it may leave out.
Designator(sig) ==
  CASE sig = Unsigned -> {"unreadable"}
    [] sig = AdHoc -> {"adhoc"}
    [] OTHER -> {sig.name, "unsigned-or-unknown"}

\* `installed_designator': half a copy is read if the executable is there.
Designators(b) ==
  CASE b.parts = "none" -> {"unreadable"}
    [] b.parts = "some" -> {"unreadable"} \cup Designator(b.sig)
    [] b.parts = "all" -> Designator(b.sig)

Compare ==
  /\ pc = "compare"
  /\ \E d \in Designators(installed) :
       said' = IF Matches(args.identity, d) THEN "unchanged" ELSE "CHANGED"
  /\ Goto("build")
  /\ UNCHANGED <<mac, staged, installed, args, release, runs, old>>

\* cargo build: another binary, or the same as there was nothing to do.
Build ==
  /\ pc = "build"
  /\ release' \in {runs, release} \ {0}
  /\ Goto("assemble")
  /\ UNCHANGED <<mac, run, staged, installed>>

\* mkdir, cp and chmod over what the last run left in the staging directory.
Assemble ==
  /\ pc = "assemble"
  /\ staged' = [parts |-> "all", build |-> release, sig |-> Unsigned]
  /\ Goto("sign")
  /\ UNCHANGED <<mac, run, installed, release>>

\* codesign fails for a name that no certificate or more than one contains.
Sign ==
  /\ pc = "sign"
  /\ \E c \in keychain \cup {AdHoc} :
       /\ IF args.identity = "adhoc" THEN c = AdHoc
          ELSE {k \in keychain : <<args.identity, k.name>> \in Within} = {c}
       /\ staged' = [staged EXCEPT !.sig = c]
  /\ Goto("verify")
  /\ UNCHANGED <<mac, run, installed, release>>

Verify ==
  /\ pc = "verify"
  /\ staged.sig # Unsigned
  /\ Goto(IF args.install THEN "remove" ELSE "done")
  /\ UNCHANGED <<mac, run, staged, installed, release>>

Remove ==
  /\ pc = "remove"
  /\ installed' = NoBundle
  /\ Goto("ditto")
  /\ UNCHANGED <<mac, run, staged, release>>

\* ditto writes file by file.
Ditto ==
  /\ pc = "ditto"
  /\ installed' = [staged EXCEPT !.parts = IF installed.parts = "none" THEN "some" ELSE "all"]
  /\ Goto(IF installed.parts = "none" THEN "ditto" ELSE "done")
  /\ UNCHANGED <<mac, run, staged, release>>

\* The last line, with the re-consent procedure if the identity has changed.
Ends ==
  /\ pc = "done"
  /\ Goto("idle")
  /\ UNCHANGED <<mac, run, staged, installed, release>>

\* Mutant: without set -e the script goes on with the next command.
GoesOn(label) ==
  CASE label = "build" -> "assemble" [] label = "sign" -> "verify"
    [] label = "verify" -> "remove" [] OTHER -> "idle"

\* set -euo pipefail.
AfterFailure(label) == "idle"

\* A command fails, or the run is interrupted.
Fails ==
  /\ pc \notin {"idle", "done"}
  /\ Goto(AfterFailure(pc))
  /\ UNCHANGED <<mac, run, staged, installed, release>>

Script ==
  Begin \/ Compare \/ Build \/ Assemble \/ Sign \/ Verify \/ Remove \/ Ditto \/ Ends

-----------------------------------------------------------------------------
(* The user and macOS: certificates are created, one more of a name perhaps, *)
(* and deleted; the app is launched and given the grant.                     *)

files == <<staged, installed, release>>

Creates ==
  /\ keys < MaxKeys
  /\ keys' = keys + 1
  /\ \E n \in Names : keychain' = keychain \cup {[name |-> n, serial |-> keys + 1]}
  /\ UNCHANGED <<grant, pc, run, files>>

Deletes ==
  /\ \E c \in keychain : keychain' = keychain \ {c}
  /\ UNCHANGED <<keys, grant, pc, run, files>>

Consents ==
  /\ installed.parts = "all"
  /\ grant' = Requirement(installed)
  /\ UNCHANGED <<keychain, keys, pc, run, files>>

Next == Script \/ Fails \/ Creates \/ Deletes \/ Consents

Spec == Init /\ [][Next]_vars

-----------------------------------------------------------------------------
(* Properties *)

\* What is installed, or left of it by a run that broke off, comes from a
\* bundle that was signed; and the bundle that was there when the run began is
\* there until a signed one is ready and its installation was asked for.
InstalledIsSigned ==
  /\ installed.parts # "none" => installed.sig # Unsigned
  /\ pc # "idle" /\ installed # old.bundle => args.install /\ staged.sig # Unsigned

\* "unchanged", said before the build, means the very same signature after it,
\* although certificates come and go and their names contain each other, as long
\* as the installed bundle's own is not deleted; and README: a bundle signed with
\* the certificate of the one it replaces keeps its grant, whatever was said.
\* ("CHANGED" may be said of the same certificate too.)
GrantOutlivesRebuild ==
  pc = "done" /\ old.bundle.parts = "all" =>
    /\ said = "unchanged" /\ old.bundle.sig \in keychain \cup {AdHoc}
         => staged.sig = old.bundle.sig
    /\ args.install /\ old.granted /\ staged.sig = old.bundle.sig /\ staged.sig # AdHoc
         => Granted(installed)

\* What the script prints: "unchanged - Screen Recording grant should survive
\* this build".  Fails for an ad-hoc build over an ad-hoc bundle, which is known
\* to macOS by its cdhash.
UnchangedKeepsGrant ==
  /\ pc = "done" /\ said = "unchanged" /\ args.install /\ old.granted
  /\ old.bundle.sig \in keychain \cup {AdHoc}
  => Granted(installed)
=============================================================================
