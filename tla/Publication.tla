---------------------------- MODULE Publication -----------------------------
(***************************************************************************)
(* Publishing received files: a verified staging partial gets its final    *)
(* name in the output directory, or in a directory tree below it, by a     *)
(* rename or by a verified copy through a hidden temporary                 *)
(* (finalizePartFile and what it calls in internal/hub/hub.go, the rename  *)
(* primitives of internal/drop/staging.go, EnsureRelDirs in relpath.go).   *)
(* Every delivery runs in a session of its own; no lock is held.           *)
(***************************************************************************)
EXTENDS Naturals, FiniteSets

CONSTANTS Deliveries,      \* completed transfers, all sent under one file name
          MaxSuffix,       \* bound on the " (n)" candidates, 9999 in the code
          MaxPubCrashes    \* bound on crashes of the Hub

ASSUME PublicationAssumption == MaxSuffix \in Nat /\ MaxPubCrashes \in Nat

VARIABLES wish,        \* delivery -> the directory it goes to
          damaged,     \* deliveries whose staged bytes no longer match their digest
          treeDir,     \* what stands where the nested directory is to be
          visible,     \* directory and suffix -> the file under that name, if any
          temps,       \* hidden publication temporaries
          parts,       \* deliveries whose staging partial exists
          pub,         \* delivery -> where its publication is, and its candidate
          pubCrashes   \* crashes so far

pubVars == <<wish, damaged, treeDir, visible, temps, parts, pub, pubCrashes>>

Dirs == {"root", "tree"}
NameSuffixes == 0..MaxSuffix
FileOf(d, w) == {[of |-> d, whole |-> w]}      \* a file, as an option
FileSet == [of : Deliveries, whole : BOOLEAN]
PubStates == {"staged", "verified", "looking", "clear", "copying", "copied",
              "named", "published", "failed", "lost"}

PublicationTypeOK ==
    /\ wish \in [Deliveries -> Dirs]
    /\ damaged \subseteq Deliveries /\ parts \subseteq Deliveries
    /\ treeDir \in {"absent", "dir", "link"}
    /\ visible \in [Dirs \X NameSuffixes -> SUBSET FileSet]
    /\ \A p \in Dirs \X NameSuffixes : \A f, g \in visible[p] : f = g
    /\ temps \subseteq [dir : Dirs, of : Deliveries, whole : BOOLEAN]
    /\ pub \in [Deliveries -> [at : PubStates, i : NameSuffixes]]
    /\ pubCrashes \in 0..MaxPubCrashes

PublicationInit ==
    /\ wish \in [Deliveries -> Dirs]
    /\ damaged \in {D \in SUBSET Deliveries : Cardinality(D) <= 1}
    /\ treeDir \in {"absent", "dir", "link"}
    /\ visible = [p \in Dirs \X NameSuffixes |-> {}]
    /\ temps = {} /\ parts = Deliveries /\ pubCrashes = 0
    /\ pub = [d \in Deliveries |-> [at |-> "staged", i |-> 0]]

Place(d) == <<wish[d], pub[d].i>>
Temp(d, w) == [dir |-> wish[d], of |-> d, whole |-> w]
PubTo(d, s) == [pub EXCEPT ![d].at = s]

-----------------------------------------------------------------------------
\* Trusts the checksum of the transfer and does not read the staged bytes again.
VerifyStaged_Trusting(d) ==
    /\ pub[d].at = "staged"
    /\ pub' = PubTo(d, IF wish[d] = "tree" THEN "verified" ELSE "looking")
    /\ UNCHANGED <<wish, damaged, treeDir, visible, temps, parts, pubCrashes>>

\* Sync, identity check, size and digest of the open staging file.
VerifyStaged(d) ==
    /\ pub[d].at = "staged" /\ d \notin damaged
    /\ pub' = PubTo(d, IF wish[d] = "tree" THEN "verified" ELSE "looking")
    /\ UNCHANGED <<wish, damaged, treeDir, visible, temps, parts, pubCrashes>>

\* An I/O error, a replaced staging path, a short file or another digest.
VerifyFails(d) ==
    /\ pub[d].at = "staged"
    /\ pub' = PubTo(d, "failed")
    /\ UNCHANGED <<wish, damaged, treeDir, visible, temps, parts, pubCrashes>>

\* Parents of a nested destination: created, accepted if real, refused if a link.
EnsureRelDirs(d) ==
    /\ pub[d].at = "verified"
    /\ pub' = PubTo(d, IF treeDir = "link" THEN "failed" ELSE "looking")
    /\ treeDir' = IF treeDir = "absent" THEN "dir" ELSE treeDir
    /\ UNCHANGED <<wish, damaged, visible, temps, parts, pubCrashes>>

\* Lstat of the candidate: a name already taken is skipped.  The flat path looks
\* twice, in publishFlat and in PublishFromStaging; the second look decides.
LookUpName(d) ==
    /\ pub[d].at = "looking"
    /\ pub' = IF visible[Place(d)] = {} THEN PubTo(d, "clear")
              ELSE IF pub[d].i < MaxSuffix THEN [pub EXCEPT ![d].i = @ + 1]
              ELSE PubTo(d, "failed")
    /\ UNCHANGED <<wish, damaged, treeDir, visible, temps, parts, pubCrashes>>

\* The rename replaces whatever has appeared under the name since the look.
RenameIntoPlace(d) ==
    /\ pub[d].at = "clear"
    /\ visible' = [visible EXCEPT ![Place(d)] = FileOf(d, TRUE)]
    /\ parts' = parts \ {d}
    /\ pub' = PubTo(d, "named")
    /\ UNCHANGED <<wish, damaged, treeDir, temps, pubCrashes>>

\* Another filesystem, or an open file on Windows: the rename is refused and a
\* hidden temporary is started beside the destination.
StartCopy(d) ==
    /\ pub[d].at = "clear"
    /\ temps' = temps \cup {Temp(d, FALSE)}
    /\ pub' = PubTo(d, "copying")
    /\ UNCHANGED <<wish, damaged, treeDir, visible, parts, pubCrashes>>

\* Short writes, a digest that does not match, and a last rename that is
\* refused remove the temporary.
CopyFails(d) ==
    /\ pub[d].at \in {"copying", "copied"}
    /\ temps' = temps \ {Temp(d, FALSE), Temp(d, TRUE)}
    /\ pub' = PubTo(d, "failed")
    /\ UNCHANGED <<wish, damaged, treeDir, visible, parts, pubCrashes>>

CopyVerified(d) ==
    /\ pub[d].at = "copying"
    /\ temps' = (temps \ {Temp(d, FALSE)}) \cup {Temp(d, TRUE)}
    /\ pub' = PubTo(d, "copied")
    /\ UNCHANGED <<wish, damaged, treeDir, visible, parts, pubCrashes>>

\* PublishStagedFile: a rename, which replaces as well.
PublishTemp(d) ==
    /\ pub[d].at = "copied"
    /\ visible' = [visible EXCEPT ![Place(d)] = FileOf(d, TRUE)]
    /\ temps' = temps \ {Temp(d, TRUE)}
    /\ pub' = PubTo(d, "named")
    /\ UNCHANGED <<wish, damaged, treeDir, parts, pubCrashes>>

\* Removing a copied partial may fail; the file is published all the same.  The
\* activity marker and the manifest go with it.
FinishPublication(d) ==
    /\ pub[d].at = "named"
    /\ pub' = PubTo(d, "published")
    /\ parts' \in {parts, parts \ {d}}
    /\ UNCHANGED <<wish, damaged, treeDir, visible, temps, pubCrashes>>

\* The process dies; what is on disk stays.
PubCrash ==
    /\ pubCrashes < MaxPubCrashes
    /\ pubCrashes' = pubCrashes + 1
    /\ pub' = [d \in Deliveries |->
                IF pub[d].at \in {"published", "failed"} THEN pub[d]
                ELSE [pub[d] EXCEPT !.at = "lost"]]
    /\ UNCHANGED <<wish, damaged, treeDir, visible, temps, parts>>

\* SweepPublicationTempsIn at the next start: old temporaries of the output
\* directory itself; the sweep does not descend.
SweepTemps ==
    /\ \E t \in temps : t.dir = "root" /\ pub[t.of].at = "lost"
    /\ temps' = {t \in temps : ~(t.dir = "root" /\ pub[t.of].at = "lost")}
    /\ UNCHANGED <<wish, damaged, treeDir, visible, parts, pub, pubCrashes>>

PublicationNext ==
    \/ \E d \in Deliveries :
         \/ VerifyStaged(d) \/ VerifyFails(d) \/ EnsureRelDirs(d) \/ LookUpName(d)
         \/ RenameIntoPlace(d) \/ StartCopy(d) \/ CopyFails(d) \/ CopyVerified(d) \/ PublishTemp(d)
         \/ FinishPublication(d)
    \/ PubCrash \/ SweepTemps

PublicationSpec == PublicationInit /\ [][PublicationNext]_pubVars

-----------------------------------------------------------------------------
(* Properties.                                                             *)

\* Whatever is visible under a delivered name is complete and is what the
\* receiver verified, also after a crash in the middle of a publication
\* (publishPartFile: "never a truncated file under the name the user would
\* open"; VerifyStagedDigest, publishViaTemp).
VisibleIsWhole ==
    /\ PublicationTypeOK
    /\ \A p \in Dirs \X NameSuffixes : \A f \in visible[p] : f.whole /\ f.of \notin damaged

\* A published file stays published: publication "does not overwrite", so a
\* second delivery of the same name gets another one (publishFlat,
\* publishNested, PublishFromStaging).
PublishedKept ==
    \A d \in Deliveries : pub[d].at = "published" =>
        \E p \in Dirs \X NameSuffixes : \E f \in visible[p] : f.of = d
=============================================================================
