--------------------------- MODULE Signing_proofs ---------------------------
(***************************************************************************)
(* For any certificates and names and any number of runs, interrupted      *)
(* anywhere: only signed bundles are installed, and a rebuild that is      *)
(* signed with the same identity keeps the grant.                          *)
(***************************************************************************)
EXTENDS Signing, TLAPS

\* Certificates, bundles, the places in the script, and those after the signing.
Cert == [name : Names, serial : Nat \ {0}]
Bundle == [parts : {"none", "some", "all"}, build : Nat, sig : Cert \cup {AdHoc, Unsigned}]
Labels == {"idle", "compare", "build", "assemble", "sign", "verify", "remove", "ditto", "done"}
Signed == {"verify", "remove", "ditto", "done"}

TypeOK ==
  /\ keychain \subseteq Cert /\ keys \in Nat
  /\ staged \in Bundle /\ installed \in Bundle
  /\ pc \in Labels
  /\ args \in [identity : Requests, install : BOOLEAN]
  /\ said \in {"nothing", "unchanged", "CHANGED"}
  /\ release \in Nat /\ runs \in Nat
  /\ old \in [bundle : Bundle, granted : BOOLEAN]

\* A certificate that comes later is another one.
Aged ==
  /\ \A c \in keychain : c.serial <= keys
  /\ staged.sig.serial <= keys /\ installed.sig.serial <= keys
  /\ old.bundle.sig.serial <= keys

\* What is in place, command by command.
InPlace ==
  /\ pc \in {"compare", "build", "assemble", "sign", "verify", "remove"} => installed = old.bundle
  /\ pc \in {"remove", "ditto"} => args.install /\ staged.sig # Unsigned
  /\ pc \in {"sign"} \cup Signed => staged.parts = "all"
  /\ pc = "ditto" => installed.parts # "all"
  /\ pc = "done" => IF args.install THEN staged.sig # Unsigned /\ installed = staged
                                    ELSE installed = old.bundle
  /\ installed.parts # "none" => installed.sig # Unsigned

\* What the script said, and what it did.
Compared ==
  pc \in {"build", "assemble", "sign"} \cup Signed /\ old.bundle.parts = "all" =>
    (said = "unchanged" => Matches(args.identity, old.bundle.sig.name))

SignedAlike ==
  pc \in Signed =>
    /\ staged.sig = AdHoc <=> args.identity = "adhoc"
    /\ old.bundle.sig \in keychain \cup {AdHoc} =>
         (staged.sig = old.bundle.sig <=> Matches(args.identity, old.bundle.sig.name))

\* The grant changes only for what is installed.
Kept ==
  pc # "idle" /\ old.granted =>
    /\ old.bundle.parts = "all" /\ old.bundle.sig # Unsigned
    /\ grant = Requirement(old.bundle) \/ (pc = "done" /\ grant = Requirement(installed))

IInv == TypeOK /\ Aged /\ InPlace /\ Compared /\ SignedAlike /\ Kept

-----------------------------------------------------------------------------
USE DEF mac, run, files, Goto

\* No signature is taken for another kind of it.
LEMMA Signatures ==
  /\ NoBundle \in Bundle
  /\ Unsigned # AdHoc /\ \A c \in Cert : c # AdHoc /\ c # Unsigned /\ c.serial # 0
  /\ AdHoc.serial = 0 /\ Unsigned.serial = 0
BY DEF NoBundle, Bundle, Cert, AdHoc, Unsigned

\* Ad-hoc is asked for by its own name; a certificate by a part of its name.
LEMMA MatchesType ==
  ASSUME NEW id \in Requests, NEW c \in Cert \cup {AdHoc}
  PROVE  /\ Matches(id, AdHoc.name) <=> id = "adhoc"
         /\ c # AdHoc => (Matches(id, c.name) <=> id # "adhoc" /\ <<id, c.name>> \in Within)
BY SigningAssumption DEF Matches, Cert, AdHoc

\* Every step keeps the types.
LEMMA NextType ==
  ASSUME TypeOK, [Next]_vars PROVE TypeOK'
<1>1. CASE Begin
  <2>1. Granted(installed) \in BOOLEAN
    BY DEF Granted
  <2>2. old' \in [bundle : Bundle, granted : BOOLEAN]
    BY <1>1, <2>1 DEF TypeOK, Begin
  <2> QED BY <1>1, <2>2 DEF TypeOK, Labels, Begin
<1>2. CASE Compare
  BY <1>2 DEF TypeOK, Labels, Compare
<1>3. CASE Build
  BY <1>3 DEF TypeOK, Labels, Build
<1>4. CASE Assemble
  BY <1>4 DEF TypeOK, Labels, Bundle, Assemble
<1>5. CASE Sign
  BY <1>5 DEF TypeOK, Labels, Bundle, Sign
<1>6. CASE Verify
  BY <1>6 DEF TypeOK, Labels, Verify
<1>7. CASE Remove
  BY <1>7, Signatures DEF TypeOK, Labels, Remove
<1>8. CASE Ditto
  BY <1>8 DEF TypeOK, Labels, Bundle, Ditto
<1>9. CASE Ends
  BY <1>9 DEF TypeOK, Labels, Ends
<1>10. CASE Fails
  BY <1>10 DEF TypeOK, Labels, Fails, AfterFailure
<1>11. CASE Creates
  BY <1>11 DEF TypeOK, Cert, Creates
<1>12. CASE Deletes
  BY <1>12 DEF TypeOK, Deletes
<1>13. CASE Consents
  BY <1>13 DEF TypeOK, Consents
<1>14. CASE UNCHANGED vars
  BY <1>14 DEF TypeOK, vars
<1> QED BY <1>1, <1>2, <1>3, <1>4, <1>5, <1>6, <1>7, <1>8, <1>9, <1>10, <1>11, <1>12, <1>13,
           <1>14 DEF Next, Script

\* Serial numbers are given once, in order.
LEMMA NextAged ==
  ASSUME TypeOK, Aged, [Next]_vars PROVE Aged'
<1>1. CASE Begin
  BY <1>1 DEF Aged, Begin
<1>2. CASE Compare
  BY <1>2 DEF Aged, Compare
<1>3. CASE Build
  BY <1>3 DEF Aged, Build
<1>4. CASE Assemble
  BY <1>4, Signatures DEF TypeOK, Aged, Assemble
<1>5. CASE Sign
  BY <1>5, Signatures DEF TypeOK, Aged, Sign
<1>6. CASE Verify
  BY <1>6 DEF Aged, Verify
<1>7. CASE Remove
  BY <1>7, Signatures DEF TypeOK, Aged, NoBundle, Remove
<1>8. CASE Ditto
  BY <1>8 DEF Aged, Ditto
<1>9. CASE Ends
  BY <1>9 DEF Aged, Ends
<1>10. CASE Fails
  BY <1>10 DEF Aged, Fails
<1>11. CASE Creates
  BY <1>11, Signatures DEF TypeOK, Aged, Bundle, Creates, Cert
<1>12. CASE Deletes
  BY <1>12 DEF Aged, Deletes
<1>13. CASE Consents
  BY <1>13 DEF Aged, Consents
<1>14. CASE UNCHANGED vars
  BY <1>14 DEF Aged, vars
<1> QED BY <1>1, <1>2, <1>3, <1>4, <1>5, <1>6, <1>7, <1>8, <1>9, <1>10, <1>11, <1>12, <1>13,
           <1>14 DEF Next, Script

\* The installed bundle is replaced by a signed one only, when that was asked for.
LEMMA NextInPlace ==
  ASSUME TypeOK, InPlace, [Next]_vars PROVE InPlace'
<1>1. CASE Begin
  BY <1>1 DEF InPlace, Signed, Begin
<1>2. CASE Compare
  BY <1>2 DEF InPlace, Signed, Compare
<1>3. CASE Build
  BY <1>3 DEF InPlace, Signed, Build
<1>4. CASE Assemble
  BY <1>4 DEF InPlace, Assemble
<1>5. CASE Sign
  BY <1>5 DEF InPlace, Sign
<1>6. CASE Verify
  BY <1>6 DEF InPlace, Signed, Verify
<1>7. CASE Remove
  BY <1>7 DEF InPlace, NoBundle, Signed, Remove
<1>8. CASE Ditto
  BY <1>8 DEF TypeOK, InPlace, Bundle, Signed, Ditto
<1>9. CASE Ends
  BY <1>9 DEF InPlace, Signed, Ends
<1>10. CASE Fails
  BY <1>10 DEF InPlace, Signed, Fails, AfterFailure
<1>11. CASE Creates
  BY <1>11 DEF InPlace, Creates
<1>12. CASE Deletes
  BY <1>12 DEF InPlace, Deletes
<1>13. CASE Consents
  BY <1>13 DEF InPlace, Consents
<1>14. CASE UNCHANGED vars
  BY <1>14 DEF InPlace, vars
<1> QED BY <1>1, <1>2, <1>3, <1>4, <1>5, <1>6, <1>7, <1>8, <1>9, <1>10, <1>11, <1>12, <1>13,
           <1>14 DEF Next, Script

\* What was said stays true of the bundle it was said of.
LEMMA NextCompared ==
  ASSUME TypeOK, InPlace, Compared, [Next]_vars PROVE Compared'
<1>1. CASE Begin
  BY <1>1 DEF Compared, Signed, Begin
<1>2. CASE Compare
  <2> SUFFICES ASSUME old.bundle.parts = "all", said' = "unchanged"
               PROVE  Matches(args.identity, old.bundle.sig.name)
    BY <1>2 DEF Compared, Compare
  <2>1. PICK d \in Designator(old.bundle.sig) : Matches(args.identity, d)
    BY <1>2 DEF InPlace, Compare, Designators
  <2>2. args.identity \in Requests
    BY DEF TypeOK
  <2>3. d \notin {"unreadable", "unsigned-or-unknown"}
    BY <2>1, <2>2, SigningAssumption DEF Matches, Requests
  <2> QED BY <2>1, <2>3 DEF Designator, AdHoc
<1>3. CASE Build
  BY <1>3 DEF Compared, Build
<1>4. CASE Assemble
  BY <1>4 DEF Compared, Assemble
<1>5. CASE Sign
  BY <1>5 DEF Compared, Sign
<1>6. CASE Verify
  BY <1>6 DEF Compared, Signed, Verify
<1>7. CASE Remove
  BY <1>7 DEF Compared, Signed, Remove
<1>8. CASE Ditto
  BY <1>8 DEF Compared, Signed, Ditto
<1>9. CASE Ends
  BY <1>9 DEF Compared, Signed, Ends
<1>10. CASE Fails
  BY <1>10 DEF Compared, Signed, Fails, AfterFailure
<1>11. CASE Creates
  BY <1>11 DEF Compared, Creates
<1>12. CASE Deletes
  BY <1>12 DEF Compared, Deletes
<1>13. CASE Consents
  BY <1>13 DEF Compared, Consents
<1>14. CASE UNCHANGED vars
  BY <1>14 DEF Compared, vars
<1> QED BY <1>1, <1>2, <1>3, <1>4, <1>5, <1>6, <1>7, <1>8, <1>9, <1>10, <1>11, <1>12, <1>13,
           <1>14 DEF Next, Script

\* The one certificate that matches is the old one if the old one matches.
LEMMA NextSigned ==
  ASSUME TypeOK, Aged, InPlace, SignedAlike, [Next]_vars PROVE SignedAlike'
<1>1. CASE Begin
  BY <1>1 DEF SignedAlike, Signed, Begin
<1>2. CASE Compare
  BY <1>2 DEF SignedAlike, Signed, Compare
<1>3. CASE Build
  BY <1>3 DEF SignedAlike, Signed, Build
<1>4. CASE Assemble
  BY <1>4 DEF SignedAlike, Signed, Assemble
<1>5. CASE Sign
  <2> DEFINE id == args.identity  b == old.bundle.sig
  <2>1. id \in Requests /\ keychain \subseteq Cert
    BY DEF TypeOK
  <2>2. PICK c \in keychain \cup {AdHoc} :
          /\ IF id = "adhoc" THEN c = AdHoc
             ELSE {k \in keychain : <<id, k.name>> \in Within} = {c}
          /\ staged' = [staged EXCEPT !.sig = c]
    BY <1>5 DEF Sign
  <2>3. staged'.sig = c
    BY <2>2
  <2>4. c = AdHoc <=> id = "adhoc"
    BY <2>1, <2>2, Signatures
  <2>5. ASSUME b \in keychain \cup {AdHoc} PROVE c = b <=> Matches(id, b.name)
    <3>1. CASE b = AdHoc
      BY <2>1, <2>4, <3>1, MatchesType
    <3>2. CASE b # AdHoc
      <4>1. b \in keychain /\ b \in Cert
        BY <2>1, <2>5, <3>2
      <4>2. Matches(id, b.name) <=> id # "adhoc" /\ <<id, b.name>> \in Within
        BY <2>1, <3>2, <4>1, MatchesType
      <4>3. CASE id = "adhoc"
        BY <2>4, <3>2, <4>2, <4>3
      <4>4. CASE id # "adhoc"
        BY <2>2, <4>1, <4>2, <4>4
      <4> QED BY <4>3, <4>4
    <3> QED BY <3>1, <3>2
  <2>6. UNCHANGED <<args, old, keychain>>
    BY <1>5 DEF Sign
  <2> HIDE DEF id, b
  <2> QED BY <2>3, <2>4, <2>5, <2>6 DEF SignedAlike, id, b
<1>6. CASE Verify
  BY <1>6 DEF SignedAlike, Signed, Verify
<1>7. CASE Remove
  BY <1>7 DEF SignedAlike, Signed, Remove
<1>8. CASE Ditto
  BY <1>8 DEF SignedAlike, Signed, Ditto
<1>9. CASE Ends
  BY <1>9 DEF SignedAlike, Signed, Ends
<1>10. CASE Fails
  BY <1>10 DEF SignedAlike, Signed, Fails, AfterFailure
<1>11. CASE Creates
  BY <1>11 DEF TypeOK, SignedAlike, Creates, Aged
<1>12. CASE Deletes
  BY <1>12 DEF SignedAlike, Deletes
<1>13. CASE Consents
  BY <1>13 DEF SignedAlike, Consents
<1>14. CASE UNCHANGED vars
  BY <1>14 DEF SignedAlike, vars
<1> QED BY <1>1, <1>2, <1>3, <1>4, <1>5, <1>6, <1>7, <1>8, <1>9, <1>10, <1>11, <1>12, <1>13,
           <1>14 DEF Next, Script

\* Only the user gives a grant, and only for what is installed.
LEMMA NextKept ==
  ASSUME TypeOK, InPlace, Kept, [Next]_vars PROVE Kept'
<1>1. CASE Begin
  BY <1>1 DEF Kept, Granted, Begin
<1>2. CASE Compare
  BY <1>2 DEF Kept, Compare
<1>3. CASE Build
  BY <1>3 DEF Kept, Build
<1>4. CASE Assemble
  BY <1>4 DEF Kept, Assemble
<1>5. CASE Sign
  BY <1>5 DEF Kept, Sign
<1>6. CASE Verify
  BY <1>6 DEF Kept, Verify
<1>7. CASE Remove
  BY <1>7 DEF Kept, Remove
<1>8. CASE Ditto
  BY <1>8 DEF Kept, Ditto
<1>9. CASE Ends
  BY <1>9 DEF Kept, Ends
<1>10. CASE Fails
  BY <1>10 DEF Kept, Fails
<1>11. CASE Creates
  BY <1>11 DEF Kept, Creates
<1>12. CASE Deletes
  BY <1>12 DEF Kept, Deletes
<1>13. CASE Consents
  BY <1>13 DEF TypeOK, InPlace, Kept, Labels, Consents
<1>14. CASE UNCHANGED vars
  BY <1>14 DEF Kept, vars
<1> QED BY <1>1, <1>2, <1>3, <1>4, <1>5, <1>6, <1>7, <1>8, <1>9, <1>10, <1>11, <1>12, <1>13,
           <1>14 DEF Next, Script

\* Every part of the invariant holds of the start.
LEMMA InitHolds == Init => IInv
<1> SUFFICES ASSUME Init PROVE IInv
  OBVIOUS
<1>1. TypeOK
  BY Signatures DEF Init, TypeOK, Labels, Requests
<1>2. Aged /\ InPlace /\ Compared /\ SignedAlike /\ Kept
  BY Signatures DEF Init, Aged, InPlace, Compared, SignedAlike, Kept, NoBundle, Signed
<1> QED BY <1>1, <1>2 DEF IInv

\* The inductive invariant.
THEOREM InvariantHolds == Spec => []IInv
<1>1. IInv /\ [Next]_vars => IInv'
  BY NextType, NextAged, NextInPlace, NextCompared, NextSigned, NextKept DEF IInv
<1> QED BY InitHolds, <1>1, PTL DEF Spec

-----------------------------------------------------------------------------
\* What is installed was signed, whatever fails and wherever a run ends; and it
\* is the bundle that was there before until the new one is ready and wanted.
THEOREM InstalledIsAlwaysSigned == Spec => []InstalledIsSigned
<1>1. IInv => InstalledIsSigned
  BY DEF IInv, TypeOK, Labels, InPlace, InstalledIsSigned
<1> QED BY InvariantHolds, <1>1, PTL

\* "unchanged" is said of the same signature only, and a certificate's signature
\* keeps the grant over a rebuild.
THEOREM GrantsOutliveRebuilds == Spec => []GrantOutlivesRebuild
<1>1. IInv => GrantOutlivesRebuild
  <2> SUFFICES ASSUME IInv, pc = "done", old.bundle.parts = "all"
               PROVE  /\ said = "unchanged" /\ old.bundle.sig \in keychain \cup {AdHoc}
                           => staged.sig = old.bundle.sig
                      /\ /\ args.install /\ old.granted
                         /\ staged.sig = old.bundle.sig /\ staged.sig # AdHoc
                         => Granted(installed)
    BY DEF GrantOutlivesRebuild
  <2>1. said = "unchanged" /\ old.bundle.sig \in keychain \cup {AdHoc}
          => staged.sig = old.bundle.sig
    BY DEF IInv, Compared, SignedAlike, Signed
  <2>2. ASSUME args.install, old.granted, staged.sig = old.bundle.sig, staged.sig # AdHoc
        PROVE  Granted(installed)
    <3>1. installed = staged /\ staged.parts = "all" /\ staged.sig # Unsigned
      BY <2>2 DEF IInv, InPlace, Signed
    <3>2. Requirement(installed) = Requirement(old.bundle)
      BY <2>2, <3>1 DEF Requirement
    <3>3. grant = Requirement(installed)
      BY <2>2, <3>2 DEF IInv, Kept
    <3> QED BY <3>1, <3>3 DEF Granted
  <2> QED BY <2>1, <2>2
<1> QED BY InvariantHolds, <1>1, PTL
=============================================================================
