----------------------------- MODULE FilesProofs -----------------------------
(***************************************************************************)
(* What is proved of four parts that share nothing but their being about   *)
(* bytes at rest and bytes in flight: publication (Publication), the wire  *)
(* codec (Framing), the peer store (PeerStore) and the staging area        *)
(* (StagingArea).  Each has an invariant that is inductive, lemmas that    *)
(* every operation keeps it, and its theorems.                             *)
(***************************************************************************)
EXTENDS Publication, Framing, PeerStore, StagingArea, FiniteSetTheorems, TLAPS

-----------------------------------------------------------------------------
(* Publication.                                                            *)

\* The states of a delivery that has not been verified, or never will be.
Unverified == {"staged", "failed", "lost"}

\* Only what was verified gets beyond the staging directory, as a temporary or
\* under a name.
VerifiedOnly ==
    /\ \A d \in Deliveries : pub[d].at \notin Unverified => d \notin damaged
    /\ \A p \in Dirs \X NameSuffixes : \A f \in visible[p] : f.whole /\ f.of \notin damaged

\* The inductive invariant of publication.
PublicationInv == PublicationTypeOK /\ VerifiedOnly

\* A step of one publication that names nothing.
LEMMA QuietPublication ==
    ASSUME PublicationInv, NEW d \in Deliveries, UNCHANGED <<wish, damaged, visible, pubCrashes>>,
           NEW at \in PubStates, NEW i \in NameSuffixes,
           pub' = [pub EXCEPT ![d] = [at |-> at, i |-> i]],
           at \in Unverified \/ d \notin damaged,
           treeDir' \in {"absent", "dir", "link"}, parts' \subseteq parts,
           temps' \subseteq temps \cup {Temp(d, FALSE), Temp(d, TRUE)}
    PROVE  PublicationInv'
<1>1. pub \in [Deliveries -> [at : PubStates, i : NameSuffixes]] /\ wish[d] \in Dirs
  BY DEF PublicationInv, PublicationTypeOK
<1>2. /\ pub' \in [Deliveries -> [at : PubStates, i : NameSuffixes]]
      /\ pub'[d].at = at /\ \A e \in Deliveries : e # d => pub'[e] = pub[e]
  BY <1>1
<1>3. temps' \subseteq [dir : Dirs, of : Deliveries, whole : BOOLEAN]
  <2>1. \A w \in BOOLEAN : Temp(d, w) \in [dir : Dirs, of : Deliveries, whole : BOOLEAN]
    BY <1>1 DEF Temp
  <2>2. temps \subseteq [dir : Dirs, of : Deliveries, whole : BOOLEAN]
    BY DEF PublicationInv, PublicationTypeOK
  <2> QED BY <2>1, <2>2
<1>4. PublicationTypeOK'
  BY <1>2, <1>3 DEF PublicationInv, PublicationTypeOK
<1>5. VerifiedOnly'
  BY <1>2 DEF PublicationInv, VerifiedOnly
<1> QED BY <1>4, <1>5 DEF PublicationInv

\* A rename puts a verified file in place, whatever was there.
LEMMA NamingPublication ==
    ASSUME PublicationInv, NEW d \in Deliveries, UNCHANGED <<wish, damaged, treeDir, pubCrashes>>,
           pub[d].at \in {"clear", "copied"}, pub' = PubTo(d, "named"),
           visible' = [visible EXCEPT ![Place(d)] = FileOf(d, TRUE)],
           parts' \subseteq parts, temps' \subseteq temps
    PROVE  PublicationInv'
<1>1. /\ pub \in [Deliveries -> [at : PubStates, i : NameSuffixes]] /\ wish[d] \in Dirs
      /\ visible \in [Dirs \X NameSuffixes -> SUBSET FileSet]
  BY DEF PublicationInv, PublicationTypeOK
<1>2. /\ pub' \in [Deliveries -> [at : PubStates, i : NameSuffixes]]
      /\ pub'[d].at = "named" /\ \A e \in Deliveries : e # d => pub'[e] = pub[e]
  BY <1>1 DEF PubTo, PubStates
<1>3. Place(d) \in Dirs \X NameSuffixes /\ FileOf(d, TRUE) \subseteq FileSet
  <2>1. pub[d].i \in NameSuffixes
    BY <1>1
  <2>2. FileOf(d, TRUE) \subseteq FileSet
    BY DEF FileOf, FileSet
  <2> QED BY <1>1, <2>1, <2>2 DEF Place
<1>4. /\ visible' \in [Dirs \X NameSuffixes -> SUBSET FileSet]
      /\ visible'[Place(d)] = FileOf(d, TRUE)
      /\ \A p \in Dirs \X NameSuffixes : p # Place(d) => visible'[p] = visible[p]
  BY <1>1, <1>3
<1>5. d \notin damaged
  BY DEF PublicationInv, VerifiedOnly, Unverified
<1>6. PublicationTypeOK'
  <2>1. \A p \in Dirs \X NameSuffixes : \A f, g \in visible'[p] : f = g
    <3>1. \A f, g \in FileOf(d, TRUE) : f = g
      BY DEF FileOf
    <3>2. \A p \in Dirs \X NameSuffixes : \A f, g \in visible[p] : f = g
      BY DEF PublicationInv, PublicationTypeOK
    <3>3. ASSUME NEW p \in Dirs \X NameSuffixes
          PROVE  \A f, g \in visible'[p] : f = g
      <4>1. CASE p = Place(d)
        BY <1>4, <3>1, <4>1
      <4>2. CASE p # Place(d)
        BY <1>4, <3>2, <4>2
      <4> QED BY <4>1, <4>2
    <3> QED BY <3>3
  <2> QED BY <1>2, <1>4, <2>1 DEF PublicationInv, PublicationTypeOK
<1>7. VerifiedOnly'
  <2>1. \A e \in Deliveries : pub'[e].at \notin Unverified => e \notin damaged
    BY <1>2, <1>5 DEF PublicationInv, VerifiedOnly
  <2>2. \A f \in FileOf(d, TRUE) : f.whole /\ f.of = d
    BY DEF FileOf
  <2> QED BY <1>4, <1>5, <2>1, <2>2 DEF PublicationInv, VerifiedOnly
<1> QED BY <1>6, <1>7 DEF PublicationInv

\* Every step keeps the invariant.
LEMMA PublicationStepKeeps == PublicationInv /\ [PublicationNext]_pubVars => PublicationInv'
<1> SUFFICES ASSUME PublicationInv, [PublicationNext]_pubVars PROVE PublicationInv'
  OBVIOUS
<1>1. /\ pub \in [Deliveries -> [at : PubStates, i : NameSuffixes]]
      /\ treeDir \in {"absent", "dir", "link"}
      /\ \A d \in Deliveries : pub[d].at \notin Unverified => d \notin damaged
  BY DEF PublicationInv, PublicationTypeOK, VerifiedOnly
<1>2. ASSUME NEW d \in Deliveries, NEW s
      PROVE  PubTo(d, s) = [pub EXCEPT ![d] = [at |-> s, i |-> pub[d].i]] /\ pub[d].i \in NameSuffixes
  <2>1. [pub[d] EXCEPT !.at = s] = [at |-> s, i |-> pub[d].i]
    BY <1>1
  <2> QED BY <1>1, <2>1 DEF PubTo
<1>3. CASE UNCHANGED pubVars
  BY <1>3 DEF pubVars, PublicationInv, PublicationTypeOK, VerifiedOnly
<1>4. ASSUME NEW d \in Deliveries, VerifyStaged(d) \/ VerifyFails(d) \/ EnsureRelDirs(d)
      PROVE  PublicationInv'
  <2>1. PICK at \in PubStates : pub' = PubTo(d, at) /\ (at \in Unverified \/ d \notin damaged)
    BY <1>1, <1>4 DEF VerifyStaged, VerifyFails, EnsureRelDirs, PubStates, Unverified
  <2>2. /\ UNCHANGED <<wish, damaged, visible, temps, parts, pubCrashes>>
        /\ treeDir' \in {"absent", "dir", "link"}
    BY <1>1, <1>4 DEF VerifyStaged, VerifyFails, EnsureRelDirs
  <2> QED BY <1>2, <2>1, <2>2, QuietPublication
<1>5. ASSUME NEW d \in Deliveries, LookUpName(d)
      PROVE  PublicationInv'
  <2>0. UNCHANGED <<wish, damaged, treeDir, visible, temps, parts, pubCrashes>> /\ d \notin damaged
    BY <1>1, <1>5 DEF LookUpName, Unverified
  <2>1. CASE pub' = PubTo(d, "clear") \/ pub' = PubTo(d, "failed")
    <3>1. PICK at \in PubStates : pub' = PubTo(d, at)
      BY <2>1 DEF PubStates
    <3>2. pub' = [pub EXCEPT ![d] = [at |-> at, i |-> pub[d].i]] /\ pub[d].i \in NameSuffixes
      BY <1>2, <3>1
    <3>3. treeDir' \in {"absent", "dir", "link"} /\ parts' \subseteq parts /\ temps' \subseteq temps
      BY <1>1, <2>0
    <3> QED BY <2>0, <3>2, <3>3, QuietPublication
  <2>2. CASE pub[d].i < MaxSuffix /\ pub' = [pub EXCEPT ![d].i = @ + 1]
    <3>1. pub[d].i + 1 \in NameSuffixes
      BY <1>1, <2>2, PublicationAssumption DEF NameSuffixes
    <3>2. pub' = [pub EXCEPT ![d] = [at |-> "looking", i |-> pub[d].i + 1]] /\ "looking" \in PubStates
      <4>0. pub[d] \in [at : PubStates, i : NameSuffixes] /\ pub[d].at = "looking"
        BY <1>1, <1>5 DEF LookUpName
      <4>1. [pub[d] EXCEPT !.i = pub[d].i + 1] = [at |-> "looking", i |-> pub[d].i + 1]
        BY <4>0
      <4>2. pub' = [pub EXCEPT ![d] = [pub[d] EXCEPT !.i = pub[d].i + 1]]
        BY <2>2
      <4> QED BY <4>1, <4>2 DEF PubStates
    <3> QED BY <1>1, <2>0, <3>1, <3>2, QuietPublication
  <2> QED BY <1>5, <2>1, <2>2 DEF LookUpName
<1>6. ASSUME NEW d \in Deliveries, RenameIntoPlace(d) \/ PublishTemp(d)
      PROVE  PublicationInv'
  BY <1>6, NamingPublication DEF RenameIntoPlace, PublishTemp
<1>7. ASSUME NEW d \in Deliveries, StartCopy(d) \/ CopyFails(d) \/ CopyVerified(d) \/ FinishPublication(d)
      PROVE  PublicationInv'
  <2>1. PICK at \in PubStates : pub' = PubTo(d, at) /\ (at \in Unverified \/ d \notin damaged)
    BY <1>1, <1>7 DEF StartCopy, CopyFails, CopyVerified, FinishPublication, PubStates, Unverified
  <2>2. /\ UNCHANGED <<wish, damaged, treeDir, visible, pubCrashes>> /\ parts' \subseteq parts
        /\ temps' \subseteq temps \cup {Temp(d, FALSE), Temp(d, TRUE)}
    BY <1>7 DEF StartCopy, CopyFails, CopyVerified, FinishPublication
  <2> QED BY <1>1, <1>2, <2>1, <2>2, QuietPublication
<1>8. CASE PubCrash
  <2>1. /\ UNCHANGED <<wish, damaged, treeDir, visible, temps, parts>> /\ pubCrashes' \in 0..MaxPubCrashes
    BY <1>8, PublicationAssumption DEF PubCrash, PublicationInv, PublicationTypeOK
  <2>2. /\ pub' \in [Deliveries -> [at : PubStates, i : NameSuffixes]]
        /\ \A d \in Deliveries : pub'[d].at \in {"lost", pub[d].at}
    BY <1>1, <1>8 DEF PubCrash, PubStates
  <2>3. PublicationTypeOK'
    BY <2>1, <2>2 DEF PublicationInv, PublicationTypeOK
  <2>4. VerifiedOnly'
    BY <2>1, <2>2 DEF PublicationInv, VerifiedOnly, Unverified
  <2> QED BY <2>3, <2>4 DEF PublicationInv
<1>9. CASE SweepTemps
  BY <1>9 DEF SweepTemps, PublicationInv, PublicationTypeOK, VerifiedOnly
<1> QED BY <1>3, <1>4, <1>5, <1>6, <1>7, <1>8, <1>9 DEF PublicationNext

\* For every number of deliveries, names and crashes, whatever is visible under
\* a delivered name is complete and verified (finalizePartFile, publishPartFile).
THEOREM PublicationSafe == PublicationSpec => []VisibleIsWhole
<1>1. PublicationInit => PublicationInv
  <2> SUFFICES ASSUME PublicationInit PROVE PublicationInv
    OBVIOUS
  <2>1. /\ pub \in [Deliveries -> [at : PubStates, i : NameSuffixes]]
        /\ visible \in [Dirs \X NameSuffixes -> SUBSET FileSet]
    BY PublicationAssumption DEF PublicationInit, PubStates, NameSuffixes
  <2>2. pubCrashes \in 0..MaxPubCrashes
    BY PublicationAssumption DEF PublicationInit
  <2>3. PublicationTypeOK
    BY <2>1, <2>2 DEF PublicationInit, PublicationTypeOK
  <2>4. VerifiedOnly
    BY DEF PublicationInit, VerifiedOnly, Unverified
  <2> QED BY <2>3, <2>4 DEF PublicationInv
<1>2. PublicationInv /\ [PublicationNext]_pubVars => PublicationInv'
  BY PublicationStepKeeps
<1>3. PublicationInv => VisibleIsWhole
  BY DEF PublicationInv, VerifiedOnly, VisibleIsWhole
<1> QED BY <1>1, <1>2, <1>3, PTL DEF PublicationSpec

-----------------------------------------------------------------------------
(* The wire codec.                                                         *)

\* A cell: whose frame it belongs to and its place in that frame.
Cell == [of : Frames, place : Nat \ {0}]

\* The cells a frame has when it is written whole.
FrameLength(f) == Prefix + shape[f].size

\* The codec's variables have the values a proof relies on.
FramingTypes ==
    /\ shape \in [Frames -> Shapes]
    /\ coder \in [Frames -> {"new", "writing", "sent", "broken", "refused"}]
    /\ written \in [Frames -> Nat]
    /\ writer \subseteq Frames
    /\ stream \in Seq(Cell) /\ taken \in Seq(Cell) /\ delivered \in Seq(Frames)
    /\ reader \in {"idle", "prefix", "body"} /\ terminal \in BOOLEAN
    /\ cuts \in 0..MaxCuts

\* One call at a time holds the mutex; how much of a frame is on the stream
\* says how its call ended.
EncoderSound ==
    /\ writer \subseteq {f \in Frames : coder[f] = "writing"}
    /\ \A f \in Frames :
        /\ shape[f].ours => ~ shape[f].newer
        /\ coder[f] \in {"new", "refused"} => written[f] = 0
        /\ coder[f] = "writing" => writer = {f} /\ written[f] < FrameLength(f)
        /\ coder[f] = "sent" => written[f] = FrameLength(f)
        /\ coder[f] = "broken" => written[f] < FrameLength(f) /\ cuts > 0
        /\ coder[f] \in {"writing", "sent", "broken"} => Encodable(f)

\* A cell is followed by the next of its frame, or, where the frame is whole
\* or was given up, by the first of another.
Follows(c, d) ==
    \/ d.of = c.of /\ d.place = c.place + 1
    \/ d.place = 1 /\ (c.place = FrameLength(c.of) \/ coder[c.of] = "broken")

\* What the Decoder has not finished with.
Backlog == taken \o stream

\* The backlog starts at a frame, its frames stand one behind the other, and a
\* call that still writes wrote the end of it.
Chained ==
    /\ Backlog # <<>> => /\ Backlog[1].place = 1
                         /\ Backlog[Len(Backlog)].place = written[Backlog[Len(Backlog)].of]
    /\ \A i \in 1..Len(Backlog) :
        /\ Backlog[i].place <= written[Backlog[i].of]
        /\ \A k \in 1..Len(delivered) : delivered[k] # Backlog[i].of
    /\ \A i, j \in 1..Len(Backlog) :
        i < j /\ Backlog[i].of = Backlog[j].of => Backlog[i].place < Backlog[j].place
    /\ \A i \in 1..(Len(Backlog) - 1) : Follows(Backlog[i], Backlog[i + 1])
    /\ \A f \in Frames : coder[f] = "writing" /\ written[f] > 0 =>
        Backlog # <<>> /\ Backlog[Len(Backlog)].of = f

\* The Decoder is latched or stands somewhere in a chain of frames; as long as
\* nothing was cut, the cells it took are of one frame.
DecoderSound ==
    /\ reader = "idle" => taken = <<>>
    /\ reader = "body" => Len(taken) >= Prefix
    /\ terminal => reader = "idle"
    /\ ~ terminal => Chained
    /\ cuts = 0 => OneFrame
    /\ \A i \in 1..Len(delivered) :
        LET f == delivered[i] IN coder[f] = "sent" /\ (shape[f].bulk \/ shape[f].size <= MaxControl)
    /\ \A i, j \in 1..Len(delivered) : delivered[i] = delivered[j] => i = j
    /\ cuts = 0 /\ (\A f \in Frames : shape[f].ours) => ~ terminal

\* The inductive invariant of the codec.
FramingInv == FramingTypes /\ EncoderSound /\ DecoderSound

-----------------------------------------------------------------------------
\* The backlog is a sequence of cells: the ones taken, then the stream.
LEMMA BacklogCells ==
    ASSUME FramingTypes
    PROVE  /\ Backlog \in Seq(Cell) /\ Len(Backlog) \in Nat /\ Len(taken) \in Nat /\ Len(stream) \in Nat
           /\ Len(Backlog) = Len(taken) + Len(stream)
           /\ \A i \in 1..Len(taken) : Backlog[i] = taken[i]
           /\ \A i \in 1..Len(stream) : Backlog[Len(taken) + i] = stream[i]
           /\ \A i \in 1..Len(Backlog) : Backlog[i] \in Cell
           /\ (Backlog = <<>>) = (Len(Backlog) = 0)
  BY DEF FramingTypes, Backlog

\* Of two cells that stand next to each other the later one follows.
LEMMA ChainedPair ==
    ASSUME FramingTypes, Chained, NEW i \in 1..(Len(Backlog) - 1)
    PROVE  \E c, d \in Cell : c = Backlog[i] /\ d = Backlog[i + 1] /\ Follows(c, d)
<1>1. i \in 1..Len(Backlog) /\ i + 1 \in 1..Len(Backlog)
  BY BacklogCells
<1>2. Backlog[i] \in Cell /\ Backlog[i + 1] \in Cell
  BY <1>1, BacklogCells
<1> QED BY <1>2 DEF Chained

\* The invariant says what the run checks.
LEMMA FramingInvSound == FramingInv => FramesSound
<1> SUFFICES ASSUME FramingInv PROVE FramesSound
  OBVIOUS
<1>1. FramingTypeOK
  <2>1. \A f \in Frames : written[f] \in 0..(Prefix + MaxMessage + 1)
    <3> SUFFICES ASSUME NEW f \in Frames PROVE written[f] \in 0..(Prefix + MaxMessage + 1)
      OBVIOUS
    <3>1. shape[f].size \in 0..(MaxMessage + 1) /\ written[f] \in Nat
      BY DEF FramingInv, FramingTypes, Shapes
    <3>2. written[f] = 0 \/ written[f] <= Prefix + shape[f].size
      <4>1. coder[f] \in {"new", "writing", "sent", "broken", "refused"}
        BY DEF FramingInv, FramingTypes
      <4> QED BY <3>1, <4>1 DEF FramingInv, EncoderSound, FrameLength, Prefix
    <3> QED BY <3>1, <3>2, FramingAssumption DEF Prefix
  <2> QED BY <2>1 DEF FramingInv, FramingTypes, FramingTypeOK
<1>2. NeverResumesInsideAFrame
  <2> SUFFICES ASSUME reader = "idle", ~ terminal, stream # <<>> PROVE Head(stream).place = 1
    BY DEF NeverResumesInsideAFrame
  <2>1. taken = <<>> /\ Chained
    BY DEF FramingInv, DecoderSound
  <2>2. Backlog = stream
    BY <2>1 DEF Backlog, FramingInv, FramingTypes
  <2> QED BY <2>1, <2>2 DEF Chained, FramingInv, FramingTypes
<1>3. DeliversWhatWasSent
  <2>1. DOMAIN delivered = 1..Len(delivered)
    BY DEF FramingInv, FramingTypes
  <2> QED BY <2>1 DEF FramingInv, DecoderSound, DeliversWhatWasSent, IsInjective
<1> QED BY <1>1, <1>2, <1>3 DEF FramesSound

\* Before the first call nothing is on the stream.
LEMMA FramingInitially == FramingInit => FramingInv
<1> SUFFICES ASSUME FramingInit PROVE FramingInv
  OBVIOUS
<1>1. FramingTypes
  <2>1. shape \in [Frames -> Shapes] /\ cuts \in 0..MaxCuts
    BY FramingAssumption DEF FramingInit
  <2>2. stream \in Seq(Cell) /\ taken \in Seq(Cell) /\ delivered \in Seq(Frames)
    BY DEF FramingInit
  <2> QED BY <2>1, <2>2 DEF FramingInit, FramingTypes
<1>2. EncoderSound
  BY DEF FramingInit, EncoderSound
<1>3. Backlog = <<>> /\ Len(Backlog) = 0
  BY DEF FramingInit, Backlog
<1>4. DecoderSound
  BY <1>3 DEF FramingInit, DecoderSound, Chained, OneFrame
<1> QED BY <1>1, <1>2, <1>4 DEF FramingInv

-----------------------------------------------------------------------------
\* A refusal leaves no byte behind, and a call that begins finds the mutex free.
LEMMA EncodeStartsKeeps ==
    ASSUME FramingInv, NEW f \in Frames, EncodeRefuses(f) \/ EncodeBegins(f)
    PROVE  FramingInv'
<1>1. /\ coder[f] = "new" /\ coder' \in {[coder EXCEPT ![f] = "refused"], [coder EXCEPT ![f] = "writing"]}
      /\ UNCHANGED <<shape, written, stream, reader, taken, terminal, delivered, cuts>>
  BY DEF EncodeRefuses, EncodeBegins
<1>2. FramingTypes'
  BY <1>1 DEF FramingInv, FramingTypes, EncodeRefuses, EncodeBegins, Cell
<1>3. EncoderSound'
  <2>1. coder'[f] \in {"refused", "writing"} /\ \A g \in Frames : g # f => coder'[g] = coder[g]
    BY <1>1 DEF FramingInv, FramingTypes
  <2>2. \A g \in Frames : shape[g].size \in Nat
    BY DEF FramingInv, FramingTypes, Shapes
  <2>3. CASE EncodeRefuses(f)
    <3>1. coder'[f] = "refused" /\ writer' = writer
      BY <2>3 DEF FramingInv, FramingTypes, EncodeRefuses
    <3> QED BY <1>1, <2>1, <3>1 DEF FramingInv, EncoderSound, FrameLength, Encodable
  <2>4. CASE EncodeBegins(f)
    <3>1. coder'[f] = "writing" /\ writer = {} /\ writer' = {f} /\ Encodable(f)
      BY <2>4 DEF FramingInv, FramingTypes, EncodeBegins
    <3>2. written[f] = 0 /\ written[f] < FrameLength(f)
      BY <1>1, <2>2 DEF FramingInv, EncoderSound, FrameLength, Prefix
    <3> QED BY <1>1, <2>1, <3>1, <3>2 DEF FramingInv, EncoderSound, FrameLength, Encodable
  <2> QED BY <2>3, <2>4
<1>4. DecoderSound'
  <2>1. Backlog' = Backlog
    BY <1>1 DEF Backlog
  <2>2. \A g \in Frames : g # f => coder'[g] = coder[g]
    BY <1>1 DEF FramingInv, FramingTypes
  <2>3. \A g \in Frames : /\ coder[g] = "broken" => coder'[g] = "broken"
                          /\ coder[g] = "sent" => coder'[g] = "sent"
                          /\ coder'[g] = "writing" /\ written[g] > 0 => coder[g] = "writing"
    <3>1. written[f] = 0
      BY <1>1 DEF FramingInv, EncoderSound
    <3> QED BY <1>1, <2>2, <3>1
  <2>4. Chained => Chained'
    <3> SUFFICES ASSUME Chained PROVE Chained'
      OBVIOUS
    <3>1. \A i \in 1..(Len(Backlog) - 1) : Follows(Backlog[i], Backlog[i + 1])'
      <4>1. \A i \in 1..(Len(Backlog) - 1) : Follows(Backlog[i], Backlog[i + 1]) /\ Backlog[i].of \in Frames
        <5>1. \A i \in 1..(Len(Backlog) - 1) : i \in 1..Len(Backlog)
          BY BacklogCells DEF FramingInv
        <5>2. \A i \in 1..Len(Backlog) : Backlog[i].of \in Frames
          BY BacklogCells DEF FramingInv, Cell
        <5> QED BY <5>1, <5>2 DEF Chained
      <4> QED BY <1>1, <2>1, <2>3, <4>1 DEF Follows, FrameLength
    <3> QED BY <1>1, <2>1, <2>3, <3>1 DEF Chained
  <2>5. \A i \in 1..Len(delivered) : delivered[i] \in Frames
    BY DEF FramingInv, FramingTypes
  <2> QED BY <1>1, <2>3, <2>4, <2>5 DEF FramingInv, DecoderSound, OneFrame
<1> QED BY <1>2, <1>3, <1>4 DEF FramingInv

\* The frame's next cell goes behind its own last one, or, as its first, behind
\* a frame that is whole or given up.
LEMMA EncodeWritesKeeps ==
    ASSUME FramingInv, NEW f \in Frames, EncodeWrites(f)
    PROVE  FramingInv'
<1> DEFINE cell == [of |-> f, place |-> written[f] + 1]
<1>1. /\ coder[f] = "writing" /\ writer = {f} /\ written[f] \in Nat /\ written[f] < FrameLength(f)
      /\ shape[f].size \in Nat /\ FrameLength(f) \in Nat /\ Encodable(f)
      /\ stream' = Append(stream, cell) /\ cell \in Cell
      /\ UNCHANGED <<shape, reader, taken, terminal, delivered, cuts>>
  BY DEF EncodeWrites, FramingInv, FramingTypes, EncoderSound, FrameLength, Prefix, Shapes, Cell
<1>2. /\ \A g \in Frames : g # f => coder'[g] = coder[g] /\ written'[g] = written[g]
      /\ written'[f] = written[f] + 1
      /\ \/ written'[f] = FrameLength(f) /\ coder'[f] = "sent" /\ writer' = {}
         \/ written'[f] # FrameLength(f) /\ coder'[f] = "writing" /\ writer' = {f}
  BY <1>1 DEF EncodeWrites, FramingInv, FramingTypes, FrameLength
<1>3. FramingTypes'
  <2>1. stream' \in Seq(Cell)
    BY <1>1 DEF FramingInv, FramingTypes
  <2>2. written' \in [Frames -> Nat] /\ coder' \in [Frames -> {"new", "writing", "sent", "broken", "refused"}]
    BY <1>1, <1>2 DEF EncodeWrites, FramingInv, FramingTypes
  <2> QED BY <1>1, <1>2, <2>1, <2>2 DEF FramingInv, FramingTypes, Cell
<1>4. EncoderSound'
  <2>1. \A g \in Frames : g # f => coder[g] # "writing"
    BY <1>1 DEF FramingInv, EncoderSound
  <2>2. \A g \in Frames : FrameLength(g)' = FrameLength(g) /\ Encodable(g)' = Encodable(g)
    BY <1>1 DEF FrameLength, Encodable
  <2> HIDE DEF cell
  <2> QED BY <1>1, <1>2, <2>1, <2>2 DEF FramingInv, EncoderSound
<1>5. Chained => Chained'
  <2> SUFFICES ASSUME Chained PROVE Chained'
    OBVIOUS
  <2>1. /\ Backlog \in Seq(Cell) /\ Len(Backlog) \in Nat /\ (Backlog = <<>>) = (Len(Backlog) = 0)
        /\ \A i \in 1..Len(Backlog) : Backlog[i] \in Cell
    BY BacklogCells DEF FramingInv
  <2>2. Backlog' = Append(Backlog, cell)
    BY <1>1 DEF Backlog, FramingInv, FramingTypes
  <2>3. /\ Len(Backlog') = Len(Backlog) + 1 /\ Backlog'[Len(Backlog) + 1] = cell
        /\ \A i \in 1..Len(Backlog) : Backlog'[i] = Backlog[i]
        /\ Backlog' # <<>>
    BY <2>1, <2>2
  <2>4. cell.of = f /\ cell.place = written[f] + 1 /\ cell.place = written'[f]
    BY <1>2
  <2> HIDE DEF cell
  <2>5. \A i \in 1..Len(Backlog) : Backlog[i].of \in Frames /\ Backlog[i].place \in Nat
    BY <2>1 DEF Cell
  <2>6. ASSUME NEW c \in Cell, NEW d \in Cell, Backlog # <<>>, c = Backlog[Len(Backlog)], d = cell
        PROVE  Follows(c, d)'
    <3>1. Len(Backlog) \in 1..Len(Backlog)
      BY <2>1, <2>6
    <3>2. c.of \in Frames /\ c.place \in Nat \ {0} /\ c.place = written[c.of]
      BY <2>6 DEF Chained, Cell
    <3>3. CASE c.of = f
      BY <2>4, <2>6, <3>2, <3>3 DEF Follows
    <3>4. CASE c.of # f
      <4>1. d.place = 1
        BY <1>1, <2>4, <2>6, <3>4 DEF Chained
      <4>2. coder[c.of] = "broken" \/ written[c.of] = FrameLength(c.of)
        <5>1. coder[c.of] \in {"new", "writing", "sent", "broken", "refused"}
          BY <3>2 DEF FramingInv, FramingTypes
        <5>2. coder[c.of] # "writing"
          BY <1>1, <3>2, <3>4 DEF FramingInv, EncoderSound
        <5> QED BY <3>2, <5>1, <5>2 DEF FramingInv, EncoderSound
      <4>3. coder'[c.of] = coder[c.of]
        BY <1>2, <3>2, <3>4
      <4> QED BY <1>1, <3>2, <4>1, <4>2, <4>3 DEF Follows, FrameLength
    <3> QED BY <3>3, <3>4
  <2>7. \A c, d \in Cell : Follows(c, d) => Follows(c, d)'
    <3>1. \A c \in Cell : c.of \in Frames
      BY DEF Cell
    <3> QED BY <1>1, <1>2, <3>1 DEF Follows, FrameLength
  <2>8. ASSUME NEW i \in 1..Len(Backlog) PROVE Follows(Backlog[i], Backlog[i + 1])'
    <3>1. CASE i = Len(Backlog)
      <4>1. Backlog # <<>> /\ Backlog[i] \in Cell
        BY <2>1, <3>1
      <4>2. PICK c \in Cell, d \in Cell : c = Backlog[i] /\ d = cell
        BY <1>1, <4>1 DEF cell
      <4>3. Follows(c, d)' /\ Backlog'[i] = c /\ Backlog'[i + 1] = d
        BY <2>3, <2>6, <3>1, <4>1, <4>2
      <4> QED BY <4>3
    <3>2. CASE i # Len(Backlog)
      <4>1. i + 1 \in 1..Len(Backlog) /\ i \in 1..(Len(Backlog) - 1)
        BY <2>1, <3>2
      <4>2. PICK c \in Cell, d \in Cell : c = Backlog[i] /\ d = Backlog[i + 1]
        BY <2>1, <4>1
      <4>3. Follows(c, d)
        BY <4>1, <4>2 DEF Chained
      <4>4. Follows(c, d)' /\ Backlog'[i] = c /\ Backlog'[i + 1] = d
        BY <2>3, <2>7, <4>1, <4>2, <4>3
      <4> QED BY <4>4
    <3> QED BY <3>1, <3>2
  <2>9. Backlog'[1].place = 1
    <3>1. CASE Backlog = <<>>
      BY <1>1, <2>1, <2>3, <2>4, <3>1 DEF Chained
    <3>2. CASE Backlog # <<>>
      BY <2>1, <2>3, <3>2 DEF Chained
    <3> QED BY <3>1, <3>2
  <2>10. ASSUME NEW i \in 1..Len(Backlog')
         PROVE  /\ Backlog'[i].place <= written'[Backlog'[i].of]
                /\ \A k \in 1..Len(delivered') : delivered'[k] # Backlog'[i].of
    <3>1. CASE i \in 1..Len(Backlog)
      BY <1>1, <1>2, <2>3, <2>5, <3>1 DEF Chained
    <3>2. CASE i = Len(Backlog) + 1
      <4>1. \A k \in 1..Len(delivered) : delivered[k] # f
        BY <1>1 DEF FramingInv, DecoderSound
      <4> QED BY <1>1, <1>2, <2>3, <2>4, <3>2, <4>1
    <3> QED BY <2>1, <2>3, <3>1, <3>2
  <2>11. ASSUME NEW i \in 1..Len(Backlog'), NEW j \in 1..Len(Backlog'), i < j, Backlog'[i].of = Backlog'[j].of
         PROVE  Backlog'[i].place < Backlog'[j].place
    <3>1. i \in 1..Len(Backlog) /\ (j \in 1..Len(Backlog) \/ j = Len(Backlog) + 1)
      BY <2>1, <2>3, <2>11
    <3>2. CASE j \in 1..Len(Backlog)
      BY <2>3, <2>11, <3>1, <3>2 DEF Chained
    <3>3. CASE j = Len(Backlog) + 1
      <4>1. Backlog[i].of = f /\ Backlog[i].place <= written[Backlog[i].of]
        BY <2>3, <2>4, <2>11, <3>1, <3>3 DEF Chained
      <4>2. Backlog'[i] = Backlog[i] /\ Backlog[i].place \in Nat /\ Backlog'[j].place = written[f] + 1
        BY <2>3, <2>4, <2>5, <3>1, <3>3
      <4> QED BY <1>1, <4>1, <4>2
    <3> QED BY <3>1, <3>2, <3>3
  <2>12. \A g \in Frames : coder'[g] = "writing" => g = f
    BY <1>1, <1>2 DEF FramingInv, EncoderSound
  <2>13. \A i \in 1..(Len(Backlog') - 1) : i \in 1..Len(Backlog)
    BY <2>1, <2>3
  <2> QED BY <2>3, <2>4, <2>8, <2>9, <2>10, <2>11, <2>12, <2>13 DEF Chained
<1>6. DecoderSound'
  <2>1. \A i \in 1..Len(delivered) : delivered[i] \in Frames /\ delivered[i] # f
    BY <1>1 DEF FramingInv, FramingTypes, DecoderSound
  <2> HIDE DEF cell
  <2> QED BY <1>1, <1>2, <1>5, <2>1 DEF FramingInv, DecoderSound, OneFrame
<1> QED BY <1>3, <1>4, <1>6 DEF FramingInv

\* A call that gives up leaves its part of a frame behind and the mutex free.
LEMMA EncodeBreaksKeeps ==
    ASSUME FramingInv, NEW f \in Frames, EncodeBreaks(f)
    PROVE  FramingInv'
<1>1. /\ coder[f] = "writing" /\ writer = {f} /\ writer' = {} /\ cuts < MaxCuts /\ cuts' = cuts + 1
      /\ coder'[f] = "broken" /\ \A g \in Frames : g # f => coder'[g] = coder[g]
      /\ coder' \in [Frames -> {"new", "writing", "sent", "broken", "refused"}]
      /\ UNCHANGED <<shape, written, stream, reader, taken, terminal, delivered>>
  BY DEF EncodeBreaks, FramingInv, FramingTypes, EncoderSound
<1>2. cuts \in Nat /\ cuts' \in 0..MaxCuts /\ cuts' > 0
  BY <1>1, FramingAssumption DEF FramingInv, FramingTypes
<1>3. FramingTypes'
  BY <1>1, <1>2 DEF FramingInv, FramingTypes, Cell
<1>4. EncoderSound'
  <2>1. \A g \in Frames : FrameLength(g)' = FrameLength(g) /\ Encodable(g)' = Encodable(g)
    BY <1>1 DEF FrameLength, Encodable
  <2> QED BY <1>1, <1>2, <2>1 DEF FramingInv, EncoderSound
<1>5. Chained => Chained'
  <2> SUFFICES ASSUME Chained PROVE Chained'
    OBVIOUS
  <2>1. Backlog' = Backlog
    BY <1>1 DEF Backlog
  <2>2. \A c, d \in Cell : Follows(c, d) => Follows(c, d)'
    <3>1. \A c \in Cell : c.of \in Frames
      BY DEF Cell
    <3> QED BY <1>1, <3>1 DEF Follows, FrameLength
  <2>3. ASSUME NEW i \in 1..(Len(Backlog) - 1) PROVE Follows(Backlog[i], Backlog[i + 1])'
    BY <2>1, <2>2, ChainedPair DEF FramingInv
  <2> QED BY <1>1, <2>1, <2>3 DEF Chained
<1>6. DecoderSound'
  <2>1. \A i \in 1..Len(delivered) : delivered[i] \in Frames /\ delivered[i] # f
    BY <1>1 DEF FramingInv, FramingTypes, DecoderSound
  <2> QED BY <1>1, <1>2, <1>5, <2>1 DEF FramingInv, DecoderSound, OneFrame
<1> QED BY <1>3, <1>4, <1>6 DEF FramingInv

-----------------------------------------------------------------------------
\* What the Decoder holds of a frame was written by a call that was let to, and
\* that frame has not been returned yet.
LEMMA TakenWasWritten ==
    ASSUME FramingInv, reader # "idle", NEW i \in 1..Len(taken)
    PROVE  /\ taken[i] \in Cell /\ taken[i].of \in Frames /\ shape[taken[i].of].size \in Nat
           /\ coder[taken[i].of] \in {"writing", "sent", "broken"} /\ Encodable(taken[i].of)
           /\ taken[i].place <= written[taken[i].of]
           /\ \A k \in 1..Len(delivered) : delivered[k] # taken[i].of
<1>1. Chained
  BY DEF FramingInv, DecoderSound
<1>2. i \in 1..Len(Backlog) /\ Backlog[i] = taken[i] /\ taken[i] \in Cell
  BY BacklogCells DEF FramingInv
<1>3. /\ taken[i].place <= written[taken[i].of]
      /\ \A k \in 1..Len(delivered) : delivered[k] # taken[i].of
  BY <1>1, <1>2 DEF Chained
<1>4. taken[i].of \in Frames /\ taken[i].place \in Nat \ {0}
  BY <1>2 DEF Cell
<1>5. shape[taken[i].of].size \in Nat
  BY <1>4 DEF FramingInv, FramingTypes, Shapes
<1>6. coder[taken[i].of] \in {"writing", "sent", "broken"} /\ Encodable(taken[i].of)
  <2>1. coder[taken[i].of] \in {"new", "writing", "sent", "broken", "refused"}
    BY <1>4 DEF FramingInv, FramingTypes
  <2> QED BY <1>3, <1>4, <2>1 DEF FramingInv, EncoderSound
<1> QED BY <1>2, <1>3, <1>4, <1>5, <1>6

\* The Decoder's steps leave the Encoder's side alone.
LEMMA EncoderUntouched ==
    ASSUME FramingInv, UNCHANGED <<shape, coder, written, writer>>, cuts' \in {cuts, cuts + 1}, cuts' \in 0..MaxCuts
    PROVE  /\ EncoderSound' /\ cuts \in Nat
           /\ \A f \in Frames : FrameLength(f)' = FrameLength(f)
<1>1. \A f \in Frames : FrameLength(f)' = FrameLength(f) /\ Encodable(f)' = Encodable(f)
  BY DEF FrameLength, Encodable
<1>2. cuts \in Nat
  BY FramingAssumption DEF FramingInv, FramingTypes
<1> QED BY <1>1, <1>2 DEF FramingInv, EncoderSound

\* A step that leaves the backlog as it was leaves it chained.
LEMMA ChainedStays ==
    ASSUME FramingInv, UNCHANGED <<shape, coder, written, delivered, Backlog>>
    PROVE  Chained => Chained'
  BY DEF Chained, Follows, FrameLength

\* A call that ends in error latches the Decoder, unless it ends before its
\* first byte.
LEMMA FailedCallKeeps ==
    ASSUME FramingInv, UNCHANGED <<shape, coder, written, writer, stream, delivered>>, reader # "idle",
           cuts' \in {cuts, cuts + 1}, cuts' \in 0..MaxCuts,
           Result(TRUE) \/ (taken = <<>> /\ Result(FALSE)),
           cuts' = 0 => ~ \A f \in Frames : shape[f].ours
    PROVE  FramingInv'
<1>1. /\ reader' = "idle" /\ taken' = <<>> /\ terminal' \in BOOLEAN
      /\ ~ terminal' => taken = <<>> /\ ~ terminal
  BY DEF Result, FramingInv, FramingTypes
<1>2. FramingTypes'
  BY <1>1 DEF FramingInv, FramingTypes, Cell
<1>3. EncoderSound'
  BY EncoderUntouched
<1>4. ~ terminal' => Chained'
  <2> SUFFICES ASSUME ~ terminal' PROVE Chained'
    OBVIOUS
  <2>1. Backlog' = Backlog /\ Chained
    BY <1>1 DEF Backlog, FramingInv, DecoderSound
  <2> QED BY <2>1, ChainedStays
<1>5. OneFrame'
  BY <1>1 DEF OneFrame
<1> QED BY <1>1, <1>2, <1>3, <1>4, <1>5 DEF FramingInv, DecoderSound

\* A call begins only where no earlier one failed.
LEMMA DecodeBeginsKeeps ==
    ASSUME FramingInv, DecodeBegins
    PROVE  FramingInv'
<1>1. /\ reader = "idle" /\ ~ terminal /\ reader' = "prefix"
      /\ UNCHANGED <<shape, coder, written, writer, stream, taken, terminal, delivered, cuts>>
  BY DEF DecodeBegins
<1>2. FramingTypes'
  BY <1>1 DEF FramingInv, FramingTypes, Cell
<1>3. EncoderSound'
  BY <1>1, EncoderUntouched DEF FramingInv, FramingTypes
<1>4. Chained => Chained'
  BY <1>1, ChainedStays DEF Backlog
<1> QED BY <1>1, <1>2, <1>3, <1>4 DEF FramingInv, DecoderSound, OneFrame

\* A cell moves from the stream into the call; without cuts it is the next one
\* of the frame the call began with.
LEMMA DecodeReadsKeeps ==
    ASSUME FramingInv, DecodeReads
    PROVE  FramingInv'
<1> DEFINE n == Len(taken)
<1>1. /\ stream # <<>> /\ taken' = Append(taken, Head(stream)) /\ stream' = Tail(stream)
      /\ UNCHANGED <<shape, coder, written, writer, reader, terminal, delivered, cuts>>
      /\ reader # "idle" /\ ~ terminal /\ Chained
  BY DEF DecodeReads, FramingInv, DecoderSound
<1>2. /\ n \in Nat /\ Head(stream) = stream[1] /\ stream[1] \in Cell /\ Len(stream) \in Nat /\ Len(stream) > 0
      /\ taken' \in Seq(Cell) /\ stream' \in Seq(Cell) /\ Len(taken') = n + 1
      /\ taken'[n + 1] = stream[1] /\ \A i \in 1..n : taken'[i] = taken[i]
  BY <1>1 DEF FramingInv, FramingTypes
<1>3. FramingTypes'
  BY <1>1, <1>2 DEF FramingInv, FramingTypes, Cell
<1>4. EncoderSound'
  BY <1>1, EncoderUntouched DEF FramingInv, FramingTypes
<1>5. Backlog' = Backlog /\ Chained'
  <2>1. Backlog' = Backlog
    BY <1>1 DEF Backlog, FramingInv, FramingTypes
  <2> QED BY <1>1, <2>1, ChainedStays
<1>6. ASSUME cuts = 0 PROVE OneFrame'
  <2>1. n + 1 \in 1..Len(Backlog) /\ Backlog[n + 1] = stream[1]
    BY <1>2, BacklogCells DEF FramingInv
  <2>2. CASE n = 0
    <3>1. stream[1].place = 1 /\ stream[1] = [of |-> stream[1].of, place |-> stream[1].place]
      BY <1>1, <1>2, <2>1, <2>2, BacklogCells DEF FramingInv, Chained, Cell
    <3> QED BY <1>2, <2>2, <3>1 DEF OneFrame
  <2>3. CASE n > 0
    <3>1. 1 \in 1..n /\ n \in 1..n /\ n \in 1..(Len(Backlog) - 1)
      BY <1>2, <2>1, <2>3, BacklogCells DEF FramingInv
    <3>2. /\ \A i \in 1..n : taken[i] = [of |-> taken[1].of, place |-> i]
          /\ Backlog[n] = taken[n] /\ taken[1].of \in Frames
      BY <1>1, <1>6, <3>1, TakenWasWritten, BacklogCells DEF FramingInv, DecoderSound, OneFrame
    <3>3. n < FrameLength(taken[1].of) /\ coder[taken[1].of] # "broken"
      <4>1. coder[taken[1].of] # "broken"
        BY <1>6, <3>2 DEF FramingInv, EncoderSound
      <4>2. shape[taken[1].of].size \in Nat
        BY <1>1, <3>1, TakenWasWritten
      <4> QED BY <1>2, <4>1, <4>2 DEF DecodeReads, FrameLength, Prefix
    <3>4. PICK c, d \in Cell : c = taken[n] /\ d = stream[1] /\ Follows(c, d)
      BY <1>1, <2>1, <3>1, <3>2, ChainedPair DEF FramingInv
    <3>5. d.of = taken[1].of /\ d.place = n + 1
      <4>1. c.of = taken[1].of /\ c.place = n
        <5>1. taken[n] = [of |-> taken[1].of, place |-> n]
          BY <3>1, <3>2, Zenon
        <5> QED BY <3>4, <5>1
      <4>2. FrameLength(taken[1].of) \in Nat
        BY <1>1, <3>1, TakenWasWritten DEF FrameLength, Prefix
      <4> QED BY <1>2, <3>3, <3>4, <4>1, <4>2 DEF Follows
    <3>6. stream[1] = [of |-> taken[1].of, place |-> n + 1]
      BY <3>4, <3>5 DEF Cell
    <3>7. \A i \in 1..(n + 1) : taken'[i] = [of |-> taken'[1].of, place |-> i]
      <4> SUFFICES ASSUME NEW i \in 1..(n + 1) PROVE taken'[i] = [of |-> taken'[1].of, place |-> i]
        OBVIOUS
      <4>1. taken'[1].of = taken[1].of
        BY <1>2, <3>1
      <4>2. CASE i \in 1..n
        BY <1>2, <3>2, <4>1, <4>2
      <4>3. CASE i = n + 1
        BY <1>2, <3>6, <4>1, <4>3
      <4> QED BY <1>2, <4>2, <4>3
    <3> QED BY <1>2, <3>7 DEF OneFrame
  <2> QED BY <1>2, <2>2, <2>3
<1>7. reader' = "body" => Len(taken') >= Prefix
  BY <1>1, <1>2 DEF FramingInv, DecoderSound, Prefix
<1> QED BY <1>1, <1>3, <1>4, <1>5, <1>6, <1>7 DEF FramingInv, DecoderSound

\* A deadline ends the call; it is fatal if the call had consumed a byte.
LEMMA DecodeCutKeeps ==
    ASSUME FramingInv, DecodeCut
    PROVE  FramingInv'
<1>1. /\ cuts < MaxCuts /\ cuts' = cuts + 1 /\ reader # "idle" /\ Result(taken # <<>>)
      /\ UNCHANGED <<shape, coder, written, writer, stream, delivered>>
  BY DEF DecodeCut
<1>2. cuts' \in 0..MaxCuts /\ cuts' # 0
  BY <1>1, FramingAssumption DEF FramingInv, FramingTypes
<1>3. Result(TRUE) \/ (taken = <<>> /\ Result(FALSE))
  BY <1>1 DEF Result
<1> QED BY <1>1, <1>2, <1>3, FailedCallKeeps

\* A whole prefix with a length in range asks for its body; without cuts a
\* frame this release wrote has one.
LEMMA PrefixReadKeeps ==
    ASSUME FramingInv, PrefixRead
    PROVE  FramingInv'
<1>1. /\ reader = "prefix" /\ Len(taken) = 2 /\ ~ terminal /\ Chained
      /\ UNCHANGED <<shape, coder, written, writer, stream, delivered, cuts>>
  BY DEF PrefixRead, FramingInv, DecoderSound, Prefix
<1>2. CASE reader' = "body" /\ UNCHANGED <<taken, terminal>>
  <2>1. FramingTypes'
    BY <1>1, <1>2 DEF FramingInv, FramingTypes, Cell
  <2>2. EncoderSound'
    BY <1>1, EncoderUntouched DEF FramingInv, FramingTypes
  <2>3. Chained'
    BY <1>1, <1>2, ChainedStays DEF Backlog
  <2>4. OneFrame' = OneFrame
    BY <1>2 DEF OneFrame
  <2>5. Len(taken) >= Prefix
    BY <1>1 DEF Prefix
  <2> QED BY <1>1, <1>2, <2>1, <2>2, <2>3, <2>4, <2>5 DEF FramingInv, DecoderSound
<1>3. CASE Result(TRUE) /\ ~ (taken[1].of = taken[2].of /\ shape[taken[1].of].size \in 1..MaxMessage)
  <2>1. cuts = 0 => ~ \A f \in Frames : shape[f].ours
    <3> SUFFICES ASSUME cuts = 0, \A f \in Frames : shape[f].ours PROVE FALSE
      OBVIOUS
    <3>1. 1 \in 1..Len(taken) /\ 2 \in 1..Len(taken) /\ DOMAIN taken = 1..Len(taken)
      BY <1>1 DEF FramingInv, FramingTypes
    <3>2. taken[2] = [of |-> taken[1].of, place |-> 2]
      BY <3>1 DEF FramingInv, DecoderSound, OneFrame
    <3>3. taken[1].of \in Frames /\ Encodable(taken[1].of)
      BY <1>1, <3>1, TakenWasWritten
    <3> QED BY <1>3, <3>2, <3>3 DEF Encodable
  <2>2. cuts' \in 0..MaxCuts
    BY <1>1 DEF FramingInv, FramingTypes
  <2> QED BY <1>1, <1>3, <2>1, <2>2, FailedCallKeeps
<1> QED BY <1>2, <1>3 DEF PrefixRead

\* A whole body of one frame was written whole, so what stands behind it is the
\* beginning of another.
LEMMA BodyReadKeeps ==
    ASSUME FramingInv, BodyRead
    PROVE  FramingInv'
<1> DEFINE f == taken[1].of
           n == Len(taken)
<1>1. /\ reader = "body" /\ n = FrameLength(f) /\ ~ terminal /\ Chained
      /\ UNCHANGED <<shape, coder, written, writer, stream, cuts>>
  BY DEF BodyRead, FramingInv, DecoderSound, FrameLength
<1>2. n \in Nat /\ n >= 2 /\ 1 \in 1..n /\ n \in 1..n /\ DOMAIN taken = 1..n
  BY <1>1 DEF FramingInv, FramingTypes, DecoderSound, Prefix
<1>3. f \in Frames /\ Encodable(f) /\ shape[f].size \in Nat /\ \A k \in 1..Len(delivered) : delivered[k] # f
  BY <1>1, <1>2, TakenWasWritten
<1>4. CASE /\ Result(TRUE) /\ delivered' = delivered
           /\ ~ (OneFrame /\ ~ shape[f].newer /\ (shape[f].bulk \/ shape[f].size <= MaxControl))
  <2>1. cuts = 0 => ~ \A g \in Frames : shape[g].ours
    BY <1>3, <1>4 DEF FramingInv, EncoderSound, DecoderSound, Encodable
  <2>2. cuts' \in 0..MaxCuts
    BY <1>1 DEF FramingInv, FramingTypes
  <2> QED BY <1>1, <1>4, <2>1, <2>2, FailedCallKeeps
<1>5. CASE /\ OneFrame /\ delivered' = Append(delivered, f) /\ Result(FALSE)
           /\ shape[f].bulk \/ shape[f].size <= MaxControl
  <2>1. reader' = "idle" /\ taken' = <<>> /\ terminal' = FALSE
    BY <1>1, <1>5 DEF Result
  <2>2. /\ delivered' \in Seq(Frames) /\ Len(delivered) \in Nat /\ Len(delivered') = Len(delivered) + 1
        /\ delivered'[Len(delivered) + 1] = f /\ \A k \in 1..Len(delivered) : delivered'[k] = delivered[k]
    BY <1>3, <1>5 DEF FramingInv, FramingTypes
  <2>3. FramingTypes'
    <3>1. taken' \in Seq(Cell) /\ stream \in Seq(Cell)
      BY <2>1 DEF FramingInv, FramingTypes
    <3> HIDE DEF f, n
    <3> QED BY <1>1, <2>1, <2>2, <3>1 DEF FramingInv, FramingTypes, Cell
  <2>4. EncoderSound' /\ \A g \in Frames : FrameLength(g)' = FrameLength(g)
    BY <1>1, EncoderUntouched DEF FramingInv, FramingTypes
  <2>5. \A i \in 1..n : taken[i] = [of |-> f, place |-> i]
    BY <1>2, <1>5 DEF OneFrame
  <2>6. coder[f] = "sent" /\ written[f] = n
    <3>1. taken[n].of = f /\ taken[n].place = n
      <4>1. taken[n] = [of |-> f, place |-> n]
        BY <1>2, <2>5, Zenon
      <4> QED BY <4>1
    <3>2. coder[f] \in {"writing", "sent", "broken"} /\ n <= written[f] /\ written[f] \in Nat
      BY <1>1, <1>2, <1>3, <3>1, TakenWasWritten DEF FramingInv, FramingTypes
    <3> QED BY <1>1, <1>2, <1>3, <3>2 DEF FramingInv, EncoderSound
  <2>7. Chained'
    <3>1. /\ Backlog' = stream /\ Len(Backlog') = Len(stream) /\ Len(stream) \in Nat
          /\ (stream = <<>>) = (Len(stream) = 0)
      BY <1>1, <2>1 DEF Backlog, FramingInv, FramingTypes
    <3>2. /\ Len(Backlog) = n + Len(stream) /\ Backlog # <<>>
          /\ \A i \in 1..Len(stream) : n + i \in 1..Len(Backlog) /\ Backlog[n + i] = stream[i]
          /\ \A i \in 1..n : i \in 1..Len(Backlog) /\ Backlog[i] = taken[i]
      BY <1>2, <3>1, BacklogCells DEF FramingInv
    <3>3. taken[n] = [of |-> f, place |-> n]
      BY <1>2, <2>5, Zenon
    <3>4. ASSUME NEW i \in 1..Len(stream) PROVE stream[i].of # f
      <4>1. n + i \in 1..Len(Backlog) /\ n \in 1..Len(Backlog) /\ Backlog[n + i] = stream[i] /\ Backlog[n] = taken[n]
        BY <1>2, <3>2
      <4>2. stream[i].place <= written[stream[i].of] /\ stream[i].place \in Nat
        <5>1. stream[i] \in Cell
          BY DEF FramingInv, FramingTypes
        <5>2. stream[i].place \in Nat
          BY <5>1 DEF Cell
        <5>3. Backlog[n + i].place <= written[Backlog[n + i].of]
          BY <1>1, <4>1 DEF Chained
        <5> QED BY <4>1, <5>2, <5>3
      <4>3. stream[i].of = f => n < stream[i].place
        BY <1>1, <1>2, <3>3, <4>1 DEF Chained
      <4> QED BY <1>2, <2>6, <4>2, <4>3
    <3>5. stream # <<>> => stream[1].place = 1
      <4> SUFFICES ASSUME stream # <<>> PROVE stream[1].place = 1
        OBVIOUS
      <4>1. n \in 1..(Len(Backlog) - 1) /\ 1 \in 1..Len(stream)
        BY <1>2, <3>1, <3>2
      <4>2. PICK c, d \in Cell : c = taken[n] /\ d = stream[1] /\ Follows(c, d)
        BY <1>1, <1>2, <3>2, <4>1, ChainedPair DEF FramingInv
      <4>3. c.of = f /\ d.of # f
        BY <3>3, <3>4, <4>1, <4>2
      <4> QED BY <4>2, <4>3 DEF Follows
    <3>6. stream # <<>> => /\ stream[Len(stream)] = Backlog[Len(Backlog)]
                           /\ stream[Len(stream)].place = written[stream[Len(stream)].of]
      BY <1>1, <3>1, <3>2 DEF Chained
    <3>7. ASSUME NEW i \in 1..Len(stream)
          PROVE  /\ stream[i].place <= written[stream[i].of]
                 /\ \A k \in 1..Len(delivered') : delivered'[k] # stream[i].of
      <4>1. /\ stream[i].place <= written[stream[i].of]
            /\ \A k \in 1..Len(delivered) : delivered[k] # stream[i].of
        BY <1>1, <3>2 DEF Chained
      <4>2. \A k \in 1..Len(delivered') : k \in 1..Len(delivered) \/ k = Len(delivered) + 1
        BY <2>2
      <4> HIDE DEF f, n
      <4> QED BY <2>2, <3>4, <4>1, <4>2
    <3>8. ASSUME NEW i \in 1..Len(stream), NEW j \in 1..Len(stream), i < j, stream[i].of = stream[j].of
          PROVE  stream[i].place < stream[j].place
      <4>1. /\ n + i \in 1..Len(Backlog) /\ n + j \in 1..Len(Backlog) /\ n + i < n + j
            /\ Backlog[n + i] = stream[i] /\ Backlog[n + j] = stream[j]
        BY <1>2, <3>2, <3>8
      <4> HIDE DEF n
      <4> QED BY <1>1, <3>8, <4>1 DEF Chained
    <3>9. ASSUME NEW i \in 1..(Len(stream) - 1) PROVE Follows(stream[i], stream[i + 1])
      <4>1. /\ n + i \in 1..(Len(Backlog) - 1) /\ Backlog[n + i] = stream[i]
            /\ (n + i) + 1 = n + (i + 1) /\ Backlog[n + (i + 1)] = stream[i + 1]
        BY <1>2, <3>1, <3>2
      <4>2. Follows(Backlog[n + i], Backlog[(n + i) + 1])
        BY <1>1, <4>1 DEF Chained
      <4> QED BY <4>1, <4>2
    <3>10. ASSUME NEW g \in Frames, coder[g] = "writing", written[g] > 0
           PROVE  stream # <<>> /\ stream[Len(stream)].of = g
      <4>1. Backlog[Len(Backlog)].of = g /\ g # f
        BY <1>1, <2>6, <3>10 DEF Chained
      <4>2. stream # <<>>
        BY <1>2, <3>1, <3>2, <3>3, <4>1
      <4> QED BY <3>6, <4>1, <4>2
    <3>11. \A i \in 1..(Len(stream) - 1) : Follows(stream[i], stream[i + 1])'
      BY <1>1, <3>9 DEF Follows, FrameLength
    <3> HIDE DEF f, n
    <3> QED BY <1>1, <3>1, <3>5, <3>6, <3>7, <3>8, <3>10, <3>11 DEF Chained
  <2>8. ASSUME NEW i \in 1..Len(delivered')
        PROVE  /\ coder[delivered'[i]] = "sent"
               /\ shape[delivered'[i]].bulk \/ shape[delivered'[i]].size <= MaxControl
    <3>1. CASE i \in 1..Len(delivered)
      BY <2>2, <3>1 DEF FramingInv, DecoderSound
    <3>2. CASE i = Len(delivered) + 1
      BY <1>5, <2>2, <2>6, <3>2
    <3> QED BY <2>2, <3>1, <3>2
  <2>9. \A i, j \in 1..Len(delivered') : delivered'[i] = delivered'[j] => i = j
    <3>1. \A i \in 1..Len(delivered') : i \in 1..Len(delivered) \/ i = Len(delivered) + 1
      BY <2>2
    <3> HIDE DEF f, n
    <3> QED BY <1>3, <2>2, <3>1 DEF FramingInv, DecoderSound
  <2>10. OneFrame'
    BY <2>1 DEF OneFrame
  <2> HIDE DEF f, n
  <2> QED BY <1>1, <2>1, <2>3, <2>4, <2>7, <2>8, <2>9, <2>10 DEF FramingInv, DecoderSound
<1> QED BY <1>4, <1>5 DEF BodyRead

-----------------------------------------------------------------------------
\* Whatever the sizes, limits and number of writers, and wherever reads and
\* writes are cut: a Decoder that may still be called stands at the first byte
\* of a frame; what it returned was written whole, within its budget, and is
\* returned once; and without cuts a stream that this release wrote alone is
\* never refused (Encode, Decode, the mutex of the one and the latch of the
\* other).
THEOREM CodecSafe == FramingSpec => []FramesSound
<1>1. FramingInit => FramingInv
  BY FramingInitially
<1>2. FramingInv /\ [FramingNext]_frameVars => FramingInv'
  <2> SUFFICES ASSUME FramingInv, [FramingNext]_frameVars PROVE FramingInv'
    OBVIOUS
  <2>1. CASE UNCHANGED frameVars
    <3>1. UNCHANGED <<shape, coder, written, writer, stream, reader, taken, terminal, delivered, cuts>>
      BY <2>1 DEF frameVars
    <3>2. FramingTypes'
      BY <3>1 DEF FramingInv, FramingTypes, Cell
    <3>3. EncoderSound'
      BY <3>1, EncoderUntouched DEF FramingInv, FramingTypes
    <3>4. Chained => Chained'
      BY <3>1, ChainedStays DEF Backlog
    <3> QED BY <3>1, <3>2, <3>3, <3>4 DEF FramingInv, DecoderSound, OneFrame
  <2>2. CASE FramingNext
    BY <2>2, EncodeStartsKeeps, EncodeWritesKeeps, EncodeBreaksKeeps, DecodeBeginsKeeps, DecodeReadsKeeps,
       DecodeCutKeeps, PrefixReadKeeps, BodyReadKeeps DEF FramingNext
  <2> QED BY <2>1, <2>2
<1>3. FramingInv => FramesSound
  BY FramingInvSound
<1> QED BY <1>1, <1>2, <1>3, PTL DEF FramingSpec

-----------------------------------------------------------------------------
(* The peer store.                                                         *)

\* A set whose members are all the same has one at most.
LEMMA AtMostOneMember ==
    ASSUME NEW S, \A x, y \in S : x = y
    PROVE  IsFiniteSet(S) /\ Cardinality(S) <= 1
<1>1. CASE S = {}
  BY <1>1, FS_EmptySet
<1>2. CASE S # {}
  <2>1. PICK x : S = {x}
    BY <1>2
  <2>2. IsFiniteSet({x}) /\ Cardinality({x}) = 1
    BY FS_Singleton
  <2> QED BY <2>1, <2>2
<1> QED BY <1>1, <1>2

\* The states of a call: under its lock, and before it.
Holding == {"locked", "restore", "write", "aside", "clear", "unlock", "generated"}
Reading == {"waiting", "judged", "locked", "restore"}
CallStates == {"idle", "waiting", "judged", "restore_read"} \cup Holding
Calls == [at : CallStates, op : PeerOps \cup ActiveOps \cup {"identity", "none"},
          fp : SUBSET Fingerprints, base : PeerMaps, new : PeerMaps]

\* One peer of a list at most is the default, of those no re-add made it.
GoodBut(m, R) ==
    /\ m \in PeerMaps
    /\ \A f, g \in DOMAIN m \ R : m[f].isDefault /\ m[g].isDefault => f = g
Good(m) == GoodBut(m, reflagged)

\* A set of one member at most: a file that is there or not.
One(S) == \A x, y \in S : x = y

\* The locks that are there, and those that grew old.
LockTypes == storeLock \in [{"peers", "identity"} -> SUBSET Tools] /\ lockOld \subseteq {"peers", "identity"}

\* The variables of the store hold what their declarations say; a call that
\* changes the list is one of the operations on peers, and a re-add knows the
\* peer it adds.
CallTypes ==
    /\ doing \in [Tools -> Calls] /\ up \subseteq Tools /\ storeCalls \in 0..MaxStoreCalls
    /\ replaces \in BOOLEAN /\ LockTypes
    /\ \A t \in Tools :
        /\ t \notin up => doing[t].at = "idle"
        /\ doing[t].at \in {"write", "aside", "clear", "unlock"} => doing[t].op \in PeerOps
        /\ doing[t].at = "restore" => doing[t].op # "identity"
        /\ doing[t].at = "generated" => doing[t].op = "identity"
        /\ doing[t].op = "readd" /\ doing[t].at \in Reading => doing[t].fp \subseteq DOMAIN doing[t].new
        /\ MaxToolCrashes = 0 => t \in up

\* File and backup hold lists that were saved; where a rename replaces its
\* destination there is no backup, and the file is the list saved last.
ListsGood ==
    /\ One(peersFile) /\ One(peersBackup)
    /\ peersFile \cup peersBackup \subseteq everSaved /\ \A m \in everSaved : Good(m)
    /\ everSaved = {} => saved = NoPeers
    /\ replaces => peersBackup = {} /\ peersFile \subseteq {saved} /\ (everSaved # {} => peersFile # {})
    /\ \A t \in Tools :
        /\ doing[t].at = "aside" => ~replaces
        /\ doing[t].at \in {"write", "aside"} =>
              Good(doing[t].new) /\ \A f \in DOMAIN doing[t].base \ DOMAIN doing[t].new :
                                       doing[t].op = "remove" /\ f \in doing[t].fp

\* What the store's files and calls are, whoever works under which lock.
StoreForms == CallTypes /\ ListsGood /\ activeFile \subseteq Fingerprints /\ identity \subseteq Tools

\* Two processes, of which none outlasts the age at which its lock may be taken.
TwoTools == \A t, u, v \in Tools : t = u \/ u = v \/ t = v
LockLasts == TwoTools /\ slow = {}

\* Whoever works under a lock made it and lives; only a lock whose maker died
\* grows old, and it is still there when the process that judged it removes it.
LockHeld ==
    /\ \A n \in lockOld : storeLock[n] # {} /\ storeLock[n] \cap up = {}
    /\ \A t \in Tools :
        /\ doing[t].at \in Holding => t \in up /\ storeLock[LockOf(doing[t].op)] = {t}
        /\ doing[t].at = "judged" => storeLock[LockOf(doing[t].op)] # {} /\ storeLock[LockOf(doing[t].op)] \cap up = {}

\* Once a list was saved there is one, in its place or in the backup.
ListsKept ==
    /\ everSaved # {} => peersFile \cup peersBackup # {}
    /\ \A t \in Tools :
        /\ doing[t].at \in {"clear", "unlock"} => peersFile # {}
        /\ doing[t].at = "aside" => peersFile = {} \/ peersBackup = {}

\* As long as nobody died a backup belongs to the writer that made it.
UpdatesKept ==
    /\ up = Tools /\ peersBackup # {} => \E t \in Tools : doing[t].at \in {"aside", "clear", "unlock"}
    /\ replaces \/ up = Tools => NoLostUpdate

\* A selection names a listed peer, or the one whose removal is about to clear it.
SelectionKept ==
    replaces /\ up = Tools =>
       \A f \in activeFile : f \in DOMAIN Listed \/ \E t \in Tools : Doing(t, "clear") /\ f \in doing[t].fp

\* Identities are handed out once saved, and generated only when there is none.
IdentityKept ==
    /\ got \in [Tools -> SUBSET Tools] /\ \A i, j \in identity : i = j
    /\ \A t \in Tools : got[t] \subseteq identity /\ (doing[t].at = "generated" => identity = {})

\* The inductive invariant of the peer store under its lock.
StoreInvariant ==
    LockLasts /\ StoreForms /\ LockHeld /\ ListsKept /\ UpdatesKept /\ SelectionKept /\ IdentityKept

-----------------------------------------------------------------------------
\* What an operation makes of a list is a list with one default at most, but for
\* the peer a re-add made it again, and only a removal takes a peer out.
LEMMA ResultsGood ==
    ASSUME NEW op \in PeerOps, NEW m, NEW R, GoodBut(m, R), NEW fp \in Fingerprints, NEW read \in PeerMaps,
           op = "readd" => fp \in DOMAIN read, NEW r \in Results(op, m, fp, read)
    PROVE  /\ GoodBut(r, R \cup Reflags(op, m, r, fp))
           /\ \A f \in DOMAIN m \ DOMAIN r : op = "remove" /\ f = fp
<1>0. DOMAIN m \subseteq Fingerprints /\ m \in [DOMAIN m -> Peer]
  BY DEF GoodBut, PeerMaps
<1>a. ASSUME NEW p \in Peer, r = With(m, fp, p),
             op = "readd" \/ (IF fp \in DOMAIN m THEN p.isDefault <=> m[fp].isDefault ELSE ~ p.isDefault)
      PROVE  GoodBut(r, R \cup Reflags(op, m, r, fp)) /\ DOMAIN m \subseteq DOMAIN r /\ fp \in DOMAIN r
  <2>1. DOMAIN r = DOMAIN m \cup {fp} /\ \A f \in DOMAIN r : r[f] = IF f = fp THEN p ELSE m[f]
    BY <1>a DEF With
  <2>2. r \in [DOMAIN r -> Peer]
    BY <1>0, <1>a, <2>1 DEF With
  <2>3. r \in PeerMaps
    BY <1>0, <2>1, <2>2 DEF PeerMaps
  <2>4. \A f \in DOMAIN r \ (R \cup Reflags(op, m, r, fp)) :
           r[f].isDefault => f \in DOMAIN m \ R /\ m[f].isDefault
    BY <1>a, <2>1 DEF Reflags
  <2> QED BY <2>1, <2>3, <2>4 DEF GoodBut
<1>b. \A f \in DOMAIN m : m[f] \in Peer /\ m[f].isDefault \in BOOLEAN
  BY <1>0 DEF Peer
<1>1. CASE op = "add"
  <2>1. PICK a \in Addresses : r = AddPeer(m, fp, NewPeer(a))
    BY <1>1 DEF Results
  <2> DEFINE q == NewPeer(a)
             p == IF fp \notin DOMAIN m THEN q
                  ELSE [q EXCEPT !.alias = IF @ = NoAlias THEN m[fp].alias ELSE @,
                                 !.isDefault = @ \/ m[fp].isDefault]
  <2>2. q \in Peer /\ ~ q.isDefault
    BY StoreConstants DEF NewPeer, Peer
  <2>3. r = With(m, fp, p)
    BY <2>1 DEF AddPeer
  <2> HIDE DEF q
  <2>4. p \in Peer /\ IF fp \in DOMAIN m THEN p.isDefault <=> m[fp].isDefault ELSE ~ p.isDefault
    BY <1>b, <2>2 DEF Peer
  <2> HIDE DEF p
  <2> QED BY <1>a, <1>1, <2>3, <2>4
<1>2. CASE op = "readd"
  <2>1. PICK a \in Addresses : r = NormalizePeer(m, read, fp, a)
    BY <1>2 DEF Results
  <2> DEFINE q == [read[fp] EXCEPT !.address = a]
             p == IF fp \notin DOMAIN m THEN q
                  ELSE [q EXCEPT !.alias = IF @ = NoAlias THEN m[fp].alias ELSE @,
                                 !.isDefault = @ \/ m[fp].isDefault]
  <2>2. read[fp] \in Peer
    BY <1>2 DEF PeerMaps
  <2>3. q \in Peer
    BY <2>2 DEF Peer
  <2> HIDE DEF q
  <2>4. fp \in DOMAIN m => [q EXCEPT !.alias = IF @ = NoAlias THEN m[fp].alias ELSE @,
                                    !.isDefault = @ \/ m[fp].isDefault] \in Peer
    BY <1>b, <2>3 DEF Peer
  <2>5. p \in Peer
    BY <2>3, <2>4
  <2>6. r = With(m, fp, p)
    BY <2>1 DEF NormalizePeer, AddPeer, q
  <2> HIDE DEF p
  <2> QED BY <1>2, <1>a, <2>5, <2>6
<1>3. CASE op = "remove"
  <2>1. r = [f \in DOMAIN m \ {fp} |-> m[f]]
    BY <1>3 DEF Results, RemovePeer
  <2>2. r \in [DOMAIN m \ {fp} -> Peer] /\ DOMAIN m \ {fp} \in SUBSET Fingerprints
    BY <1>0, <2>1
  <2>3. r \in PeerMaps
    BY <2>2 DEF PeerMaps
  <2> QED BY <1>3, <2>1, <2>3 DEF GoodBut
<1>4. CASE op \notin {"add", "readd", "remove"}
  <2>0. fp \in DOMAIN m /\ m[fp] \in Peer
    BY <1>0, <1>4 DEF Results
  <2>a. ASSUME NEW p \in Peer, r = With(m, fp, p), p.isDefault = m[fp].isDefault
        PROVE  GoodBut(r, R \cup Reflags(op, m, r, fp)) /\ DOMAIN m \subseteq DOMAIN r
    BY <1>a, <2>0, <2>a
  <2>1. CASE op = "alias"
    <3>1. PICK a \in Aliases : r = SetAlias(m, fp, a)
      BY <1>4, <2>0, <2>1 DEF Results
    <3>2. [m[fp] EXCEPT !.alias = a] \in Peer /\ [m[fp] EXCEPT !.alias = a].isDefault = m[fp].isDefault
      BY <2>0 DEF Peer
    <3> QED BY <1>4, <2>a, <3>1, <3>2 DEF SetAlias
  <2>2. CASE op = "default"
    <3>1. r = SetDefault(m, fp)
      BY <1>4, <2>0, <2>2 DEF Results
    <3>2. DOMAIN r = DOMAIN m /\ \A f \in DOMAIN m : r[f] = [m[f] EXCEPT !.isDefault = (f = fp)]
      BY <3>1 DEF SetDefault
    <3>3. \A f \in DOMAIN m : r[f] \in Peer /\ (r[f].isDefault => f = fp)
      BY <1>0, <3>2 DEF Peer
    <3>4. r \in [DOMAIN m -> Peer]
      BY <3>1, <3>2, <3>3 DEF SetDefault
    <3>5. r \in PeerMaps
      BY <1>0, <3>4 DEF PeerMaps
    <3> QED BY <1>4, <3>2, <3>3, <3>5 DEF GoodBut
  <2>3. ASSUME NEW a \in Addresses, r = UpdatePeerAddress(m, fp, a)
        PROVE  GoodBut(r, R \cup Reflags(op, m, r, fp)) /\ DOMAIN m \subseteq DOMAIN r
    <3>1. [m[fp] EXCEPT !.address = a] \in Peer /\ [m[fp] EXCEPT !.address = a].isDefault = m[fp].isDefault
      BY <2>0 DEF Peer
    <3> QED BY <2>a, <2>3, <3>1 DEF UpdatePeerAddress
  <2>4. CASE op = "address"
    <3>1. PICK a \in Addresses : r = UpdatePeerAddress(m, fp, a)
      BY <1>4, <2>0, <2>4 DEF Results
    <3> QED BY <1>4, <2>3, <3>1
  <2>5. CASE op = "confirm"
    <3>1. PICK a \in Addresses : r = ConfirmPeerAddress(m, fp, a)
      BY <1>4, <2>0, <2>5 DEF Results
    <3>2. GoodBut(m, R \cup Reflags(op, m, m, fp))
      BY DEF GoodBut
    <3> QED BY <1>4, <2>3, <3>1, <3>2 DEF ConfirmPeerAddress
  <2> QED BY <1>4, <2>1, <2>2, <2>4, <2>5 DEF PeerOps
<1> QED BY <1>1, <1>2, <1>3, <1>4

\* A list stays a good one when more re-adds are on record.
LEMMA GoodStays == \A m, R, Q : GoodBut(m, R) /\ R \subseteq Q => GoodBut(m, Q)
  BY DEF GoodBut

\* The list a load finds is a well-formed one.
LEMMA ListedGood == ListsGood => Good(Listed) /\ Good(LoadPeersMap) /\ Good(NoPeers)
<1> SUFFICES ASSUME ListsGood PROVE Good(Listed) /\ Good(LoadPeersMap) /\ Good(NoPeers)
  OBVIOUS
<1>1. Good(NoPeers)
  <2>1. NoPeers \in [{} -> Peer] /\ DOMAIN NoPeers = {}
    BY DEF NoPeers
  <2> QED BY <2>1 DEF Good, GoodBut, PeerMaps
<1>2. \A m \in peersFile \cup peersBackup : Good(m)
  BY DEF ListsGood
<1>3. peersFile # {} => (CHOOSE m \in peersFile : TRUE) \in peersFile
  OBVIOUS
<1>4. peersBackup # {} => (CHOOSE m \in peersBackup : TRUE) \in peersBackup
  OBVIOUS
<1> QED BY <1>1, <1>2, <1>3, <1>4 DEF Listed, LoadPeersMap

\* Two calls that work under the same lock are one.
LEMMA OneHolder ==
    LockHeld => \A t, u \in Tools : doing[t].at \in Holding /\ doing[u].at \in Holding
                    /\ LockOf(doing[t].op) = LockOf(doing[u].op) => t = u
  BY DEF LockHeld

\* A call that writes is alone among those that work on the list of peers.
LEMMA WriterAlone ==
    ASSUME CallTypes, LockHeld, NEW t \in Tools, NEW u \in Tools,
           doing[t].at \in Holding, LockOf(doing[t].op) = "peers",
           doing[u].at \in {"write", "aside", "clear", "unlock"}
    PROVE  u = t
<1>1. doing[u].op \in PeerOps
  BY DEF CallTypes
<1>2. LockOf(doing[u].op) = "peers" /\ doing[u].at \in Holding
  BY <1>1 DEF LockOf, PeerOps, Holding
<1> QED BY <1>2, OneHolder

-----------------------------------------------------------------------------
\* A call that has the states and operations of its own.
Proper(c) ==
    /\ c \in Calls
    /\ c.at \in {"write", "aside", "clear", "unlock"} => c.op \in PeerOps
    /\ c.at = "restore" => c.op # "identity"
    /\ c.at = "generated" => c.op = "identity"
    /\ c.op = "readd" /\ c.at \in Reading => c.fp \subseteq DOMAIN c.new

\* The locks stay what they are, where they last.
LocksStay == LockLasts /\ LockHeld => LockHeld'

\* A step of a call that leaves the locks alone, and works under the one it held.
LEMMA CallMoves ==
    ASSUME CallTypes, NEW t \in up, NEW c, Proper(c),
           doing' = [doing EXCEPT ![t] = c],
           c.at \in Holding => doing[t].at \in Holding /\ LockOf(c.op) = LockOf(doing[t].op),
           c.at # "judged",
           UNCHANGED <<replaces, storeLock, lockOld, up>>, storeCalls' \in 0..MaxStoreCalls
    PROVE  CallTypes' /\ LocksStay
<1>0. t \in Tools /\ doing \in [Tools -> Calls]
  BY DEF CallTypes
<1>1. doing' \in [Tools -> Calls] /\ doing'[t] = c /\ \A u \in Tools : u # t => doing'[u] = doing[u]
  BY <1>0 DEF Proper
<1>2. CallTypes'
  BY <1>0, <1>1 DEF CallTypes, Proper, LockTypes
<1>3. LockHeld => LockHeld'
  BY <1>0, <1>1 DEF LockHeld, LockOf
<1> QED BY <1>2, <1>3 DEF LocksStay

\* No call is a call.
LEMMA NothingIsCall == Proper(Nothing) /\ Nothing.at \notin Holding /\ Nothing.at = "idle"
<1>1. NoPeers \in PeerMaps
  <2>1. NoPeers \in [{} -> Peer]
    BY DEF NoPeers
  <2> QED BY <2>1 DEF PeerMaps
<1> QED BY <1>1 DEF Proper, Nothing, Calls, CallStates, Holding

\* The end of a call under its lock.
LEMMA CallEnds ==
    ASSUME CallTypes, NEW t \in Tools, doing[t].at \in Holding, EndCall(t),
           UNCHANGED <<replaces, up, storeCalls>>
    PROVE  CallTypes' /\ LocksStay
<1>0. doing \in [Tools -> Calls] /\ Nothing \in Calls
  BY NothingIsCall DEF CallTypes, Proper
<1>1. doing' \in [Tools -> Calls] /\ doing'[t] = Nothing /\ \A u \in Tools : u # t => doing'[u] = doing[u]
  BY <1>0 DEF EndCall
<1> DEFINE n == LockOf(doing[t].op)
<1>2. n \in {"peers", "identity"}
  BY DEF LockOf
<1>3. storeLock' = [storeLock EXCEPT ![n] = {}] /\ lockOld' = lockOld \ {n}
  BY DEF EndCall, FreeLock
<1>4. LockTypes'
  <2> HIDE DEF n
  <2> QED BY <1>2, <1>3 DEF CallTypes, LockTypes
<1>5. CallTypes'
  BY <1>1, <1>4 DEF CallTypes, Nothing
<1>6. ASSUME LockHeld PROVE LockHeld'
  <2>1. storeLock[n] = {t} /\ t \in up
    BY <1>6 DEF LockHeld
  <2>2. \A u \in Tools : doing'[u].at \in Holding => u # t /\ doing[u].at \in Holding /\ LockOf(doing[u].op) # n
    BY <1>1, <1>6, OneHolder, NothingIsCall
  <2>3. \A u \in Tools : doing'[u].at = "judged" => u # t /\ doing[u].at = "judged" /\ LockOf(doing[u].op) # n
    <3> SUFFICES ASSUME NEW u \in Tools, doing'[u].at = "judged" PROVE u # t /\ doing[u].at = "judged" /\ LockOf(doing[u].op) # n
      OBVIOUS
    <3>1. u # t /\ doing[u].at = "judged"
      BY <1>1, NothingIsCall
    <3>2. storeLock[LockOf(doing[u].op)] \cap up = {}
      BY <1>6, <3>1 DEF LockHeld
    <3> HIDE DEF n
    <3> QED BY <2>1, <3>1, <3>2
  <2>4. \A k \in lockOld' : storeLock'[k] # {} /\ storeLock'[k] \cap up' = {}
    <3> HIDE DEF n
    <3> QED BY <1>2, <1>3, <1>6 DEF LockHeld, CallTypes, LockTypes
  <2>5. ASSUME NEW u \in Tools, doing'[u].at \in Holding \cup {"judged"}
        PROVE  storeLock'[LockOf(doing'[u].op)] = storeLock[LockOf(doing[u].op)]
    <3>1. doing'[u] = doing[u] /\ LockOf(doing[u].op) # n /\ LockOf(doing[u].op) \in {"peers", "identity"}
      BY <1>1, <2>2, <2>3, <2>5 DEF LockOf
    <3> HIDE DEF n
    <3> QED BY <1>2, <1>3, <3>1 DEF CallTypes, LockTypes
  <2> HIDE DEF n
  <2>6. \A u \in Tools : doing'[u].at \in Holding => u \in up' /\ storeLock'[LockOf(doing'[u].op)] = {u}
    BY <1>1, <1>6, <2>2, <2>5 DEF LockHeld
  <2>7. \A u \in Tools : doing'[u].at = "judged" =>
           storeLock'[LockOf(doing'[u].op)] # {} /\ storeLock'[LockOf(doing'[u].op)] \cap up' = {}
    BY <1>1, <1>6, <2>3, <2>5 DEF LockHeld
  <2> QED BY <2>4, <2>6, <2>7 DEF LockHeld
<1> QED BY <1>5, <1>6 DEF LocksStay

\* No step of a call, of a crash or of time breaks the types, nor the locks where
\* they last.
LEMMA CallsKept ==
    ASSUME CallTypes, ListsGood, StoreNext
    PROVE  CallTypes' /\ LocksStay
<1> USE DEF Doing
<1>0. /\ doing \in [Tools -> Calls] /\ up \subseteq Tools /\ storeCalls \in 0..MaxStoreCalls
      /\ \A t \in Tools : Proper(doing[t])
      /\ LockTypes
  BY DEF CallTypes, Proper
<1>n. Proper(Nothing) /\ Nothing.at = "idle" /\ Nothing.at \notin Holding
  BY NothingIsCall
<1>t. ASSUME NEW t \in Tools, NEW at \in CallStates, Then(t, at)
      PROVE  \E c \in Calls : /\ doing' = [doing EXCEPT ![t] = c] /\ c.at = at
                              /\ c.op = doing[t].op /\ c.fp = doing[t].fp /\ c.new = doing[t].new
  <2>1. doing[t] \in Calls /\ [doing[t] EXCEPT !.at = at] \in Calls
    BY <1>0, <1>t DEF Calls
  <2> QED BY <1>0, <1>t, <2>1 DEF Then, Calls
<1>1. ASSUME NEW t \in Tools, StartCall(t) PROVE CallTypes' /\ LocksStay
  <2>1. PICK op \in PeerOps \cup ActiveOps \cup {"identity"}, fp \in Fingerprints :
           /\ op = "readd" => fp \in DOMAIN Listed
           /\ doing' = [doing EXCEPT ![t] = [Nothing EXCEPT !.at = "waiting", !.op = op, !.fp = {fp},
                                            !.new = IF op = "readd" THEN Listed ELSE NoPeers]]
    BY <1>1 DEF StartCall
  <2> DEFINE list == IF op = "readd" THEN Listed ELSE NoPeers
             c == [Nothing EXCEPT !.at = "waiting", !.op = op, !.fp = {fp}, !.new = list]
  <2>2. list \in PeerMaps /\ (op = "readd" => fp \in DOMAIN list)
    BY <2>1, ListedGood DEF Good, GoodBut
  <2>3. doing' = [doing EXCEPT ![t] = c]
    BY <2>1
  <2> HIDE DEF list
  <2>4. c \in Calls /\ c.at = "waiting" /\ c.op = op /\ c.fp = {fp} /\ c.new = list
    BY <1>n, <2>1, <2>2 DEF Proper, Nothing, Calls, CallStates
  <2> HIDE DEF c
  <2>5. Proper(c) /\ c.at \notin Holding /\ c.at # "judged"
    BY <2>2, <2>4 DEF Proper, Holding
  <2>6. storeCalls' \in 0..MaxStoreCalls /\ UNCHANGED <<replaces, storeLock, lockOld, up>> /\ t \in up
    BY <1>0, <1>1, StoreConstants DEF StartCall, platform
  <2> QED BY <2>3, <2>5, <2>6, CallMoves
<1>2. ASSUME NEW t \in Tools, TakeStoreLock(t) PROVE CallTypes' /\ LocksStay
  <2> DEFINE n == LockOf(doing[t].op)
  <2>1. n \in {"peers", "identity"} /\ storeLock[n] = {} /\ storeLock' = [storeLock EXCEPT ![n] = {t}] /\ t \in up
    BY <1>2 DEF TakeStoreLock, LockOf
  <2>2. PICK c \in Calls : doing' = [doing EXCEPT ![t] = c] /\ c.at = "locked" /\ c.op = doing[t].op
                           /\ c.fp = doing[t].fp /\ c.new = doing[t].new
    BY <1>2, <1>t DEF TakeStoreLock, CallStates, Holding
  <2>3. doing' \in [Tools -> Calls] /\ doing'[t] = c /\ \A u \in Tools : u # t => doing'[u] = doing[u]
    BY <1>0, <2>2
  <2>4. UNCHANGED <<replaces, lockOld, up, storeCalls>>
    BY <1>2 DEF TakeStoreLock, platform
  <2>5. LockTypes'
    <3> HIDE DEF n
    <3> QED BY <1>0, <2>1, <2>4 DEF LockTypes
  <2>6. CallTypes'
    BY <2>2, <2>3, <2>4, <2>5, <1>2 DEF CallTypes, TakeStoreLock, Reading
  <2>7. ASSUME LockHeld PROVE LockHeld'
    <3>1. \A u \in Tools : u # t /\ doing[u].at \in Holding \cup {"judged"} =>
             LockOf(doing[u].op) # n /\ LockOf(doing[u].op) \in {"peers", "identity"}
      <4> SUFFICES ASSUME NEW u \in Tools, doing[u].at \in Holding \cup {"judged"} PROVE storeLock[LockOf(doing[u].op)] # {}
        BY <2>1 DEF LockOf
      <4> QED BY <2>7 DEF LockHeld
    <3>2. n \notin lockOld
      BY <2>1, <2>7 DEF LockHeld
    <3>3. LockOf(doing'[t].op) = n /\ doing'[t].at = "locked"
      BY <2>2, <2>3
    <3> HIDE DEF n
    <3>4. \A k \in lockOld' : storeLock'[k] # {} /\ storeLock'[k] \cap up' = {}
      BY <1>0, <2>1, <2>4, <2>7, <3>2 DEF LockHeld, LockTypes
    <3>5. \A u \in Tools : u # t /\ doing[u].at \in Holding \cup {"judged"} =>
             storeLock'[LockOf(doing'[u].op)] = storeLock[LockOf(doing[u].op)]
      BY <1>0, <2>1, <2>3, <3>1 DEF LockTypes
    <3>6. storeLock'[n] = {t}
      BY <1>0, <2>1 DEF LockTypes
    <3> QED BY <2>1, <2>3, <2>4, <2>7, <3>3, <3>4, <3>5, <3>6 DEF LockHeld
  <2> QED BY <2>6, <2>7 DEF LocksStay
<1>3. ASSUME NEW t \in Tools, JudgeStoreLock(t) PROVE CallTypes' /\ LocksStay
  <2>1. t \in up /\ doing[t].at = "waiting" /\ LockOf(doing[t].op) \in lockOld
        /\ UNCHANGED <<replaces, storeLock, lockOld, up, storeCalls>>
    BY <1>3 DEF JudgeStoreLock, platform
  <2>2. PICK c \in Calls : doing' = [doing EXCEPT ![t] = c] /\ c.at = "judged" /\ c.op = doing[t].op
                           /\ c.fp = doing[t].fp /\ c.new = doing[t].new
    BY <1>3, <1>t DEF JudgeStoreLock, CallStates
  <2>3. doing' \in [Tools -> Calls] /\ doing'[t] = c /\ \A u \in Tools : u # t => doing'[u] = doing[u]
    BY <1>0, <2>2
  <2>4. CallTypes'
    BY <2>1, <2>2, <2>3 DEF CallTypes, LockTypes, Reading
  <2>5. LockHeld => LockHeld'
    BY <2>1, <2>2, <2>3 DEF LockHeld, Holding
  <2> QED BY <2>4, <2>5 DEF LocksStay
<1>4. ASSUME NEW t \in Tools, RemoveStoreLock(t) PROVE CallTypes' /\ LocksStay
  <2> DEFINE n == LockOf(doing[t].op)
  <2>1. /\ t \in up /\ doing[t].at = "judged" /\ n \in {"peers", "identity"}
        /\ storeLock' = [storeLock EXCEPT ![n] = {}] /\ lockOld' = lockOld \ {n}
        /\ UNCHANGED <<replaces, up, storeCalls>>
    BY <1>4 DEF RemoveStoreLock, FreeLock, platform, LockOf
  <2>2. PICK c \in Calls : doing' = [doing EXCEPT ![t] = c] /\ c.at = "waiting" /\ c.op = doing[t].op
                           /\ c.fp = doing[t].fp /\ c.new = doing[t].new
    BY <1>4, <1>t DEF RemoveStoreLock, CallStates
  <2>3. doing' \in [Tools -> Calls] /\ doing'[t] = c /\ \A u \in Tools : u # t => doing'[u] = doing[u]
    BY <1>0, <2>2
  <2>4. LockTypes'
    <3> HIDE DEF n
    <3> QED BY <1>0, <2>1 DEF LockTypes
  <2>5. CallTypes'
    BY <2>1, <2>2, <2>3, <2>4 DEF CallTypes, Reading
  <2>6. ASSUME LockLasts, LockHeld PROVE LockHeld'
    <3>1. storeLock[n] # {} /\ storeLock[n] \cap up = {}
      BY <2>1, <2>6 DEF LockHeld
    <3>2. PICK d \in Tools : d \in storeLock[n] /\ d \notin up
      <4> HIDE DEF n
      <4> QED BY <1>0, <2>1, <3>1 DEF LockTypes
    <3>3. \A u \in Tools : u = t \/ u \notin up
      BY <2>1, <2>6, <3>2 DEF LockLasts, TwoTools
    <3>4. \A u \in Tools : doing'[u].at \notin Holding \cup {"judged"}
      <4> SUFFICES ASSUME NEW u \in Tools, u # t PROVE doing'[u].at \notin Holding \cup {"judged"}
        BY <2>2, <2>3 DEF Holding
      <4>1. doing[u].at = "idle"
        BY <3>3 DEF CallTypes
      <4> QED BY <2>3, <4>1 DEF Holding
    <3> HIDE DEF n
    <3>5. \A k \in lockOld' : storeLock'[k] # {} /\ storeLock'[k] \cap up' = {}
      BY <1>0, <2>1, <2>6 DEF LockHeld, LockTypes
    <3> QED BY <3>4, <3>5 DEF LockHeld
  <2> QED BY <2>5, <2>6 DEF LocksStay
<1>5. ASSUME NEW t \in Tools, StoreLockTimeout(t) PROVE CallTypes' /\ LocksStay
  <2>1. t \in up /\ doing' = [doing EXCEPT ![t] = Nothing] /\ UNCHANGED <<replaces, storeLock, lockOld, up, storeCalls>>
    BY <1>5 DEF StoreLockTimeout, platform
  <2> QED BY <1>0, <1>n, <2>1, CallMoves
<1>6. ASSUME NEW t \in Tools, SeeBackup(t) PROVE CallTypes' /\ LocksStay
  <2> DEFINE at == IF doing[t].at = "idle" THEN "restore_read" ELSE "restore"
  <2>1. Then(t, at) /\ at \in CallStates /\ t \in up
    BY <1>6 DEF SeeBackup, CallStates, Holding
  <2>2. PICK c \in Calls : doing' = [doing EXCEPT ![t] = c] /\ c.at = at /\ c.op = doing[t].op
                           /\ c.fp = doing[t].fp /\ c.new = doing[t].new
    BY <2>1, <1>t
  <2>3. Proper(c)
    BY <1>0, <1>6, <2>2 DEF SeeBackup, Proper, PeerOps, Reading
  <2>4. (c.at \in Holding => doing[t].at \in Holding) /\ c.at # "judged"
    BY <1>6, <2>2 DEF SeeBackup, Holding
  <2>5. UNCHANGED <<replaces, storeLock, lockOld, up, storeCalls>>
    BY <1>6 DEF SeeBackup, platform
  <2> QED BY <1>0, <2>1, <2>2, <2>3, <2>4, <2>5, CallMoves
<1>7. ASSUME NEW t \in Tools, RestoreBackup(t) PROVE CallTypes' /\ LocksStay
  <2> DEFINE at == IF doing[t].at = "restore" THEN "locked" ELSE "idle"
  <2>1. Then(t, at) /\ at \in CallStates /\ t \in up
    BY <1>7 DEF RestoreBackup, CallStates, Holding
  <2>2. PICK c \in Calls : doing' = [doing EXCEPT ![t] = c] /\ c.at = at /\ c.op = doing[t].op
                           /\ c.fp = doing[t].fp /\ c.new = doing[t].new
    BY <2>1, <1>t
  <2>3. Proper(c)
    BY <1>0, <1>7, <2>2 DEF RestoreBackup, Proper, Reading
  <2>4. (c.at \in Holding => doing[t].at \in Holding) /\ c.at # "judged"
    BY <1>7, <2>2 DEF RestoreBackup, Holding
  <2>5. UNCHANGED <<replaces, storeLock, lockOld, up, storeCalls>>
    BY <1>7 DEF RestoreBackup, platform
  <2> QED BY <1>0, <2>1, <2>2, <2>3, <2>4, <2>5, CallMoves
<1>8. ASSUME NEW t \in Tools, LoadPeers(t) PROVE CallTypes' /\ LocksStay
  <2>1. doing[t].at = "locked" /\ doing[t].op \in PeerOps /\ t \in up /\ UNCHANGED <<replaces, up, storeCalls>>
    BY <1>8 DEF LoadPeers, platform
  <2>2. CASE EndCall(t)
    BY <2>1, <2>2, CallEnds DEF Holding
  <2>3. CASE ~EndCall(t)
    <3>0. PICK fp \in doing[t].fp : \E m \in Results(doing[t].op, Listed, fp, doing[t].new) :
             /\ doing' = [doing EXCEPT ![t].at = "write", ![t].base = Listed, ![t].new = m]
             /\ UNCHANGED <<storeLock, lockOld>>
      BY <1>8, <2>3 DEF LoadPeers
    <3>1. PICK m \in Results(doing[t].op, Listed, fp, doing[t].new) :
             /\ doing' = [doing EXCEPT ![t].at = "write", ![t].base = Listed, ![t].new = m]
             /\ UNCHANGED <<storeLock, lockOld>>
      BY <3>0
    <3>2. fp \in Fingerprints /\ doing[t].new \in PeerMaps
      BY <1>0, <3>0 DEF Calls
    <3>3. Listed \in PeerMaps /\ GoodBut(Listed, reflagged)
      BY ListedGood DEF Good, GoodBut
    <3>4. doing[t].op = "readd" => fp \in DOMAIN doing[t].new
      BY <1>0, <2>1, <3>0 DEF Proper, Reading
    <3>5. m \in PeerMaps
      <4>1. GoodBut(m, reflagged \cup Reflags(doing[t].op, Listed, m, fp))
        BY <2>1, <3>1, <3>2, <3>3, <3>4, ResultsGood
      <4> QED BY <4>1 DEF GoodBut
    <3> DEFINE c == [doing[t] EXCEPT !.at = "write", !.base = Listed, !.new = m]
    <3>6. c \in Calls /\ c.at = "write" /\ c.op = doing[t].op /\ c.fp = doing[t].fp /\ c.new = m
      BY <1>0, <3>3, <3>5 DEF Calls, CallStates, Holding
    <3>7. doing' = [doing EXCEPT ![t] = c]
      BY <1>0, <3>1
    <3> HIDE DEF c
    <3>10. Proper(c)
      BY <2>1, <3>6 DEF Proper, Reading
    <3> QED BY <1>0, <2>1, <3>1, <3>6, <3>7, <3>10, CallMoves DEF Holding
  <2> QED BY <2>2, <2>3
<1>9. ASSUME NEW t \in Tools, NEW from \in Holding, NEW at \in {"aside", "clear", "unlock", "generated"},
             Doing(t, from), Then(t, at), from \in {"write", "aside", "clear"} \/ (doing[t].op = "identity" /\ at = "generated"),
             at = "generated" => doing[t].op = "identity",
             UNCHANGED <<replaces, storeLock, lockOld, up, storeCalls>>
      PROVE  CallTypes' /\ LocksStay
  <2>1. PICK c \in Calls : doing' = [doing EXCEPT ![t] = c] /\ c.at = at /\ c.op = doing[t].op
                           /\ c.fp = doing[t].fp /\ c.new = doing[t].new
    BY <1>9, <1>t DEF CallStates, Holding
  <2>2. Proper(c)
    BY <1>0, <1>9, <2>1 DEF Proper, PeerOps, Reading
  <2> QED BY <1>0, <1>9, <2>1, <2>2, CallMoves
<1>10. ASSUME NEW t \in Tools, ReplacePeers(t) \/ PreserveDestination(t) \/ RetryRename(t) \/ ClearActiveIfMatches(t) \/ EndMutation(t)
                              \/ LoadActivePeer(t) \/ SaveActivePeer(t) \/ ClearActivePeer(t) \/ LoadIdentity(t) \/ SaveIdentity(t)
      PROVE CallTypes' /\ LocksStay
  <2>1. CASE EndCall(t)
    <3>1. doing[t].at \in Holding /\ UNCHANGED <<replaces, up, storeCalls>>
      BY <1>10 DEF ReplacePeers, PreserveDestination, RetryRename, ClearActiveIfMatches, EndMutation, LoadActivePeer,
         SaveActivePeer, ClearActivePeer, LoadIdentity, SaveIdentity, Holding, platform
    <3> QED BY <2>1, <3>1, CallEnds
  <2>2. CASE ~EndCall(t)
    <3>1. \/ doing[t].at = "write" /\ (Then(t, "aside") \/ Then(t, "clear") \/ Then(t, "unlock"))
          \/ doing[t].at = "aside" /\ (Then(t, "clear") \/ Then(t, "unlock"))
          \/ doing[t].at = "clear" /\ Then(t, "unlock")
          \/ doing[t].at = "locked" /\ doing[t].op = "identity" /\ Then(t, "generated")
      BY <1>10, <2>2 DEF ReplacePeers, PreserveDestination, RetryRename, ClearActiveIfMatches, EndMutation, LoadActivePeer,
         SaveActivePeer, ClearActivePeer, LoadIdentity, SaveIdentity, Publish
    <3>2. UNCHANGED <<replaces, storeLock, lockOld, up, storeCalls>> /\ t \in up
      BY <1>10, <2>2 DEF ReplacePeers, PreserveDestination, RetryRename, ClearActiveIfMatches, EndMutation, LoadActivePeer,
         SaveActivePeer, ClearActivePeer, LoadIdentity, SaveIdentity, Publish, platform
    <3> QED BY <3>1, <3>2, <1>9 DEF Holding
  <2> QED BY <2>1, <2>2
<1>11. CASE StoreLockAges
  <2>1. PICK n \in DOMAIN storeLock : storeLock[n] # {} /\ storeLock[n] \cap up \subseteq slow /\ lockOld' = lockOld \cup {n}
    BY <1>11 DEF StoreLockAges
  <2>2. UNCHANGED <<replaces, storeLock, doing, up, storeCalls>>
    BY <1>11 DEF StoreLockAges, platform
  <2> QED BY <1>0, <2>1, <2>2 DEF CallTypes, LockTypes, LockHeld, LocksStay, LockLasts
<1>12. ASSUME NEW t \in Tools, ToolCrash(t) PROVE CallTypes' /\ LocksStay
  <2>1. /\ up' = up \ {t} /\ doing' = [doing EXCEPT ![t] = Nothing] /\ UNCHANGED <<replaces, storeLock, lockOld, storeCalls>>
        /\ t \in up /\ Cardinality(Tools \ up) < MaxToolCrashes
    BY <1>12 DEF ToolCrash, platform
  <2>2. doing' \in [Tools -> Calls] /\ doing'[t] = Nothing /\ \A u \in Tools : u # t => doing'[u] = doing[u]
    BY <1>0, <1>n, <2>1 DEF Proper
  <2>3. MaxToolCrashes # 0
    <3>1. CASE up = Tools
      <4>1. Tools \ up = {} /\ Cardinality({}) = 0
        BY <3>1, FS_EmptySet
      <4>2. Cardinality(Tools \ up) = 0
        BY <4>1
      <4> QED BY <2>1, <4>2
    <3>2. CASE up # Tools
      BY <1>0, <3>2 DEF CallTypes
    <3> QED BY <3>1, <3>2
  <2>4. CallTypes'
    BY <1>n, <2>1, <2>2, <2>3 DEF CallTypes, Nothing, LockTypes
  <2>5. LockHeld => LockHeld'
    BY <1>n, <2>1, <2>2 DEF LockHeld
  <2> QED BY <2>4, <2>5 DEF LocksStay
<1> QED BY <1>1, <1>2, <1>3, <1>4, <1>5, <1>6, <1>7, <1>8, <1>10, <1>11, <1>12 DEF StoreNext

-----------------------------------------------------------------------------
\* A call that begins waits for its lock.
LEMMA CallStarts == \A t \in Tools : StartCall(t) => \E c : doing' = [doing EXCEPT ![t] = c] /\ c.at = "waiting"
<1> SUFFICES ASSUME NEW t \in Tools, StartCall(t) PROVE \E c : doing' = [doing EXCEPT ![t] = c] /\ c.at = "waiting"
  OBVIOUS
<1>1. PICK op, fp : doing' = [doing EXCEPT ![t] = [Nothing EXCEPT !.at = "waiting", !.op = op, !.fp = {fp},
                                                 !.new = IF op = "readd" THEN Listed ELSE NoPeers]]
  BY DEF StartCall
<1> DEFINE c == [Nothing EXCEPT !.at = "waiting", !.op = op, !.fp = {fp}, !.new = IF op = "readd" THEN Listed ELSE NoPeers]
<1>2. c.at = "waiting"
  BY DEF Nothing
<1> QED BY <1>1, <1>2

\* The states in which a call is about to change the files, or has.
Writing == {"write", "aside", "clear", "unlock"}

\* A step that touches none of the peers' files, and begins no write.
LEMMA FormsStay ==
    ASSUME ListsGood, UNCHANGED <<replaces, peersFile, peersBackup, saved, everSaved, reflagged>>,
           \A u \in Tools : doing'[u] = doing[u] \/ doing'[u].at \notin {"write", "aside"}
    PROVE  ListsGood'
<1>1. \A m : Good(m)' <=> Good(m)
  BY DEF Good
<1> QED BY <1>1 DEF ListsGood, One, Good

\* A new list is in place.
LEMMA FormsPublished ==
    ASSUME CallTypes, ListsGood, NEW t \in up, doing[t].at \in {"write", "aside"}, Publish(t),
           UNCHANGED <<replaces, peersBackup, reflagged>>
    PROVE  ListsGood'
<1> DEFINE new == doing[t].new
<1>0. t \in Tools /\ doing \in [Tools -> Calls] /\ Good(new)
  BY DEF CallTypes, ListsGood
<1>1. peersFile' = {new} /\ saved' = new /\ everSaved' = everSaved \cup {new}
  BY DEF Publish
<1>2. doing'[t].at \in {"clear", "unlock"} /\ \A u \in Tools : u # t => doing'[u] = doing[u]
  BY <1>0 DEF Publish, Then, Calls
<1>3. \A m : Good(m)' <=> Good(m)
  BY DEF Good
<1>4. \A m \in everSaved' : Good(m)'
  BY <1>0, <1>1, <1>3 DEF ListsGood
<1> HIDE DEF new
<1>5. \A u \in Tools : doing'[u].at \in {"write", "aside"} => doing'[u] = doing[u]
  BY <1>2
<1>6. One(peersFile') /\ One(peersBackup') /\ peersFile' \cup peersBackup' \subseteq everSaved'
  BY <1>1 DEF ListsGood, One
<1>7. ASSUME NEW u \in Tools
      PROVE  /\ doing'[u].at = "aside" => ~replaces
             /\ doing'[u].at \in {"write", "aside"} =>
                   Good(doing[u].new) /\ doing'[u] = doing[u]
                   /\ \A f \in DOMAIN doing[u].base \ DOMAIN doing[u].new : doing[u].op = "remove" /\ f \in doing[u].fp
  BY <1>5 DEF ListsGood
<1>8. replaces' => peersBackup' = {} /\ peersFile' \subseteq {saved'} /\ peersFile' # {}
  BY <1>1 DEF ListsGood
<1>9. \A u \in Tools : doing'[u].at \in {"write", "aside"} => GoodBut(doing'[u].new, reflagged')
  BY <1>7 DEF Good
<1>10. everSaved' # {}
  BY <1>1
<1> QED BY <1>4, <1>6, <1>7, <1>8, <1>9, <1>10 DEF ListsGood, Good, One

\* No step makes a list of the store one that was never saved.
LEMMA FormsStep ==
    ASSUME CallTypes, ListsGood, StoreNext
    PROVE  ListsGood'
<1> USE DEF Doing
<1>0. doing \in [Tools -> Calls] /\ up \subseteq Tools
  BY DEF CallTypes
<1>n. Nothing.at \notin Writing
  BY DEF Nothing, Writing
<1>e. \A t \in Tools : EndCall(t) => doing'[t].at \notin Writing /\ \A u \in Tools : u # t => doing'[u] = doing[u]
  BY <1>0, <1>n DEF EndCall
<1>t. \A t \in Tools : \A at : Then(t, at) => doing'[t].at = at /\ \A u \in Tools : u # t => doing'[u] = doing[u]
  BY <1>0 DEF Then, Calls
<1>1. ASSUME NEW t \in Tools, StartCall(t) \/ TakeStoreLock(t) \/ JudgeStoreLock(t) \/ RemoveStoreLock(t) \/ StoreLockTimeout(t)
                              \/ SeeBackup(t) \/ LoadIdentity(t) \/ SaveIdentity(t) \/ ToolCrash(t) \/ LoadActivePeer(t)
                              \/ SaveActivePeer(t) \/ ClearActivePeer(t) \/ ClearActiveIfMatches(t)
      PROVE  ListsGood'
  <2>1. UNCHANGED <<replaces, peersFile, peersBackup, saved, everSaved, reflagged>>
    BY <1>1 DEF StartCall, TakeStoreLock, JudgeStoreLock, RemoveStoreLock, StoreLockTimeout, SeeBackup, LoadIdentity, SaveIdentity,
       ToolCrash, LoadActivePeer, SaveActivePeer, ClearActivePeer, ClearActiveIfMatches, fileVars, platform
  <2>2. CASE StartCall(t)
    <3>1. PICK c : doing' = [doing EXCEPT ![t] = c] /\ c.at = "waiting"
      BY <2>2, CallStarts
    <3>2. doing'[t].at = "waiting" /\ \A u \in Tools : u # t => doing'[u] = doing[u]
      BY <1>0, <3>1
    <3> QED BY <2>1, <3>2, FormsStay
  <2>3. CASE StoreLockTimeout(t) \/ ToolCrash(t)
    <3>1. doing' = [doing EXCEPT ![t] = Nothing]
      BY <2>3 DEF StoreLockTimeout, ToolCrash
    <3>2. doing'[t] = Nothing /\ \A u \in Tools : u # t => doing'[u] = doing[u]
      BY <1>0, <3>1
    <3> QED BY <1>n, <2>1, <3>2, FormsStay DEF Writing
  <2>4. CASE EndCall(t)
    BY <1>e, <2>1, <2>4, FormsStay DEF Writing
  <2>5. CASE \E at \in {"waiting", "judged", "locked", "restore_read", "restore", "generated", "unlock"} : Then(t, at)
    BY <1>t, <2>1, <2>5, FormsStay
  <2> QED BY <1>1, <2>2, <2>3, <2>4, <2>5 DEF TakeStoreLock, JudgeStoreLock, RemoveStoreLock, SeeBackup, LoadIdentity, SaveIdentity,
          LoadActivePeer, SaveActivePeer, ClearActivePeer, ClearActiveIfMatches
<1>2. CASE StoreLockAges
  BY <1>2, FormsStay DEF StoreLockAges, fileVars, platform
<1>3. ASSUME NEW t \in Tools, NEW from \in {peersFile, peersBackup}, peersFile' = from, peersBackup' \in {{}, peersFile}, ~replaces,
             UNCHANGED <<replaces, saved, everSaved, reflagged>>,
             \A u \in Tools : doing'[u].at \in {"write", "aside"} =>
                                 doing[u].at \in {"write", "aside"} /\ doing'[u].new = doing[u].new /\ doing'[u].base = doing[u].base
                                 /\ doing'[u].op = doing[u].op /\ doing'[u].fp = doing[u].fp
      PROVE ListsGood'
  <2>1. \A m : Good(m)' <=> Good(m)
    BY <1>3 DEF Good
  <2>2. \A u \in Tools : doing'[u].at \in {"write", "aside"} =>
           /\ GoodBut(doing'[u].new, reflagged')
           /\ \A f \in DOMAIN doing'[u].base \ DOMAIN doing'[u].new : doing'[u].op = "remove" /\ f \in doing'[u].fp
    BY <1>3 DEF ListsGood, Good
  <2> QED BY <1>3, <2>1, <2>2 DEF ListsGood, One, Good
<1>4. ASSUME NEW t \in Tools, RestoreBackup(t) PROVE ListsGood'
  <2>1. Then(t, "locked") \/ Then(t, "idle")
    BY <1>4 DEF RestoreBackup
  <2>2. \A u \in Tools : doing'[u].at \in Writing => doing'[u] = doing[u]
    BY <1>t, <2>1 DEF Writing
  <2>3. UNCHANGED <<replaces, saved, everSaved, reflagged>> /\ peersBackup' = {}
        /\ peersFile' = IF peersBackup = {} THEN peersFile ELSE peersBackup
    BY <1>4 DEF RestoreBackup, platform
  <2>4. CASE replaces
    <3>1. UNCHANGED <<peersFile, peersBackup>>
      BY <2>3, <2>4 DEF ListsGood
    <3> QED BY <2>2, <2>3, <3>1, FormsStay DEF Writing
  <2>5. CASE ~replaces
    BY <1>3, <2>2, <2>3, <2>5 DEF Writing
  <2> QED BY <2>4, <2>5
<1>5. ASSUME NEW t \in Tools, LoadPeers(t) PROVE ListsGood'
  <2>1. doing[t].at = "locked" /\ doing[t].op \in PeerOps /\ UNCHANGED <<replaces, peersFile, peersBackup, saved, everSaved>>
    BY <1>5 DEF LoadPeers, platform
  <2>2. CASE EndCall(t) /\ UNCHANGED reflagged
    BY <1>e, <2>1, <2>2, FormsStay DEF Writing
  <2>3. CASE ~(EndCall(t) /\ UNCHANGED reflagged)
    <3>0. PICK fp \in doing[t].fp : \E m \in Results(doing[t].op, Listed, fp, doing[t].new) :
             /\ doing' = [doing EXCEPT ![t].at = "write", ![t].base = Listed, ![t].new = m]
             /\ reflagged' = reflagged \cup Reflags(doing[t].op, Listed, m, fp)
      BY <1>5, <2>3 DEF LoadPeers
    <3>1. PICK m \in Results(doing[t].op, Listed, fp, doing[t].new) :
             /\ doing' = [doing EXCEPT ![t].at = "write", ![t].base = Listed, ![t].new = m]
             /\ reflagged' = reflagged \cup Reflags(doing[t].op, Listed, m, fp)
      BY <3>0
    <3>2. fp \in Fingerprints /\ doing[t].new \in PeerMaps
      BY <1>0, <3>0 DEF Calls
    <3>3. GoodBut(Listed, reflagged)
      BY ListedGood DEF Good
    <3>4. doing[t].op = "readd" => fp \in DOMAIN doing[t].new
      BY <2>1, <3>0 DEF CallTypes, Reading
    <3>5. GoodBut(m, reflagged')
      <4>1. GoodBut(m, reflagged \cup Reflags(doing[t].op, Listed, m, fp))
        BY <2>1, <3>1, <3>2, <3>3, <3>4, ResultsGood
      <4> QED BY <3>1, <4>1
    <3>6. \A f \in DOMAIN Listed \ DOMAIN m : doing[t].op = "remove" /\ f = fp
      <4> DEFINE op == doing[t].op
                 read == doing[t].new
                 old == Listed
      <4>1. /\ op \in PeerOps /\ fp \in Fingerprints /\ read \in PeerMaps /\ GoodBut(old, reflagged)
            /\ op = "readd" => fp \in DOMAIN read
            /\ m \in Results(op, old, fp, read)
        BY <2>1, <3>1, <3>2, <3>3, <3>4
      <4> HIDE DEF op, read, old
      <4>2. \A f \in DOMAIN old \ DOMAIN m : op = "remove" /\ f = fp
        BY <4>1, ResultsGood
      <4> QED BY <4>2 DEF op, read, old
    <3>7. /\ doing'[t].at = "write" /\ doing'[t].base = Listed /\ doing'[t].new = m
          /\ doing'[t].op = doing[t].op /\ doing'[t].fp = doing[t].fp
          /\ \A u \in Tools : u # t => doing'[u] = doing[u]
      BY <1>0, <3>1 DEF Calls
    <3>8. \A l : Good(l) => Good(l)'
      BY <3>1, GoodStays DEF Good
    <3>9. \A u \in Tools : doing'[u].at \in {"write", "aside"} =>
           /\ GoodBut(doing'[u].new, reflagged')
           /\ \A f \in DOMAIN doing'[u].base \ DOMAIN doing'[u].new : doing'[u].op = "remove" /\ f \in doing'[u].fp
      <4> SUFFICES ASSUME NEW u \in Tools, doing'[u].at \in {"write", "aside"}
                   PROVE  /\ GoodBut(doing'[u].new, reflagged')
                          /\ \A f \in DOMAIN doing'[u].base \ DOMAIN doing'[u].new : doing'[u].op = "remove" /\ f \in doing'[u].fp
        OBVIOUS
      <4>1. CASE u = t
        BY <3>0, <3>5, <3>6, <3>7, <4>1
      <4>2. CASE u # t
        <5>1. doing'[u] = doing[u]
          BY <3>7, <4>2
        <5>2. Good(doing[u].new) /\ \A f \in DOMAIN doing[u].base \ DOMAIN doing[u].new : doing[u].op = "remove" /\ f \in doing[u].fp
          BY <5>1 DEF ListsGood
        <5>3. reflagged \subseteq reflagged'
          BY <3>1
        <5> QED BY <5>1, <5>2, <5>3, GoodStays DEF Good
      <4> QED BY <4>1, <4>2
    <3>10. \A u \in Tools : doing'[u].at = "aside" => ~replaces
      BY <3>7 DEF ListsGood
    <3> QED BY <2>1, <3>8, <3>9, <3>10 DEF ListsGood, One, Good
  <2> QED BY <2>2, <2>3
<1>6. ASSUME NEW t \in Tools, ReplacePeers(t) PROVE ListsGood'
  BY <1>6, FormsPublished DEF ReplacePeers, platform
<1>7. ASSUME NEW t \in Tools, PreserveDestination(t) PROVE ListsGood'
  <2>1. /\ doing[t].at = "write" /\ t \in up /\ ~replaces /\ peersFile # {} /\ peersBackup' = peersFile /\ peersFile' = {}
        /\ Then(t, "aside") /\ UNCHANGED <<replaces, saved, everSaved, reflagged>>
    BY <1>7 DEF PreserveDestination, platform
  <2>2. /\ doing'[t].at = "aside" /\ doing'[t].new = doing[t].new /\ doing'[t].base = doing[t].base
        /\ doing'[t].op = doing[t].op /\ doing'[t].fp = doing[t].fp /\ \A u \in Tools : u # t => doing'[u] = doing[u]
    BY <1>0, <2>1 DEF Then, Calls
  <2>3. \A m : Good(m)' <=> Good(m)
    BY <2>1 DEF Good
  <2>4. \A u \in Tools : doing'[u].at \in {"write", "aside"} =>
           /\ GoodBut(doing'[u].new, reflagged')
           /\ \A f \in DOMAIN doing'[u].base \ DOMAIN doing'[u].new : doing'[u].op = "remove" /\ f \in doing'[u].fp
    <3>1. \A u \in Tools : doing'[u].at \in {"write", "aside"} =>
             doing[u].at \in {"write", "aside"} /\ doing'[u].new = doing[u].new /\ doing'[u].base = doing[u].base
             /\ doing'[u].op = doing[u].op /\ doing'[u].fp = doing[u].fp
      BY <2>1, <2>2
    <3> QED BY <2>1, <3>1 DEF ListsGood, Good
  <2> QED BY <2>1, <2>3, <2>4 DEF ListsGood, One, Good
<1>8. ASSUME NEW t \in Tools, RetryRename(t) PROVE ListsGood'
  <2>1. doing[t].at = "aside" /\ t \in up /\ UNCHANGED <<replaces, reflagged>> /\ ~replaces
    BY <1>0, <1>8 DEF RetryRename, platform, ListsGood
  <2>2. CASE Publish(t) /\ UNCHANGED peersBackup
    BY <2>1, <2>2, FormsPublished
  <2>3. CASE /\ peersFile' = IF peersBackup = {} THEN peersFile ELSE peersBackup
             /\ peersBackup' = {} /\ EndCall(t)
             /\ UNCHANGED <<saved, everSaved>>
    <3>1. \A u \in Tools : doing'[u].at \in {"write", "aside"} => doing'[u] = doing[u]
      BY <1>e, <2>3 DEF Writing
    <3> QED BY <1>3, <2>1, <2>3, <3>1
  <2> QED BY <1>8, <2>2, <2>3 DEF RetryRename
<1>9. ASSUME NEW t \in Tools, EndMutation(t) PROVE ListsGood'
  <2>1. doing[t].at = "unlock" /\ peersBackup' = {} /\ UNCHANGED <<replaces, peersFile, saved, everSaved, reflagged>> /\ EndCall(t)
    BY <1>9 DEF EndMutation, platform
  <2>2. \A u \in Tools : doing'[u].at \in {"write", "aside"} => doing'[u] = doing[u]
    BY <1>e, <2>1 DEF Writing
  <2>3. CASE replaces
    <3>1. UNCHANGED peersBackup
      BY <2>1, <2>3 DEF ListsGood
    <3> QED BY <2>1, <2>2, <3>1, FormsStay
  <2>4. CASE ~replaces
    BY <1>3, <2>1, <2>2, <2>4
  <2> QED BY <2>3, <2>4
<1> QED BY <1>1, <1>2, <1>4, <1>5, <1>6, <1>7, <1>8, <1>9 DEF StoreNext

-----------------------------------------------------------------------------
\* Under the lock: a step that touches none of the peers' files, and begins no write.
LEMMA ListsStay ==
    ASSUME ListsKept, UNCHANGED <<peersFile, peersBackup, everSaved>>,
           \A u \in Tools : doing'[u] = doing[u] \/ doing'[u].at \notin {"aside", "clear", "unlock"}
                            \/ (doing[u].at = "clear" /\ doing'[u].at = "unlock")
    PROVE  ListsKept'
<1>1. \A u \in Tools :
        /\ doing'[u].at \in {"clear", "unlock"} => doing[u].at \in {"clear", "unlock"}
        /\ doing'[u].at = "aside" => doing[u].at = "aside"
  OBVIOUS
<1> QED BY <1>1 DEF ListsKept

\* A writer is alone in writing.
LEMMA OneWriter ==
    CallTypes /\ LockHeld => \A t, u \in Tools : doing[t].at \in Writing /\ doing[u].at \in Writing => u = t
<1> SUFFICES ASSUME CallTypes, LockHeld, NEW t \in Tools, doing[t].at \in Writing, NEW u \in Tools, doing[u].at \in Writing PROVE u = t
  OBVIOUS
<1>1. doing[t].at \in Holding /\ LockOf(doing[t].op) = "peers"
  BY DEF Writing, Holding, CallTypes, LockOf, PeerOps
<1> QED BY <1>1, WriterAlone DEF Writing

\* A new list is in place, and the call that put it there goes on.
LEMMA ListPublished ==
    ASSUME CallTypes, LockHeld, NEW t \in up, doing[t].at \in {"write", "aside"}, Publish(t)
    PROVE  ListsKept' /\ \A u \in Tools : doing'[u].at \notin {"write", "aside"}
<1>0. t \in Tools /\ doing \in [Tools -> Calls]
  BY DEF CallTypes
<1>1. peersFile' # {}
  BY DEF Publish
<1>2. doing'[t].at \in {"clear", "unlock"} /\ \A u \in Tools : u # t => doing'[u] = doing[u]
  BY <1>0 DEF Publish, Then, Calls
<1>3. \A u \in Tools : doing'[u].at \notin {"write", "aside"}
  BY <1>0, <1>2, OneWriter DEF Writing
<1> QED BY <1>1, <1>3 DEF ListsKept

\* Under the lock, a list that was saved stays in its place or in the backup.
LEMMA ListsStep ==
    ASSUME CallTypes, LockHeld, ListsGood, ListsKept, StoreNext
    PROVE  ListsKept'
<1> USE DEF Doing
<1>0. doing \in [Tools -> Calls] /\ up \subseteq Tools
  BY DEF CallTypes
<1>n. Nothing.at \notin Writing
  BY DEF Nothing, Writing
<1>e. \A t \in Tools : EndCall(t) => doing'[t].at \notin Writing /\ \A u \in Tools : u # t => doing'[u] = doing[u]
  BY <1>0, <1>n DEF EndCall
<1>t. \A t \in Tools : \A at : Then(t, at) => doing'[t].at = at /\ \A u \in Tools : u # t => doing'[u] = doing[u]
  BY <1>0 DEF Then, Calls
<1>1. ASSUME NEW t \in Tools, StartCall(t) \/ TakeStoreLock(t) \/ JudgeStoreLock(t) \/ RemoveStoreLock(t) \/ StoreLockTimeout(t)
                              \/ SeeBackup(t) \/ LoadIdentity(t) \/ SaveIdentity(t) \/ ToolCrash(t) \/ LoadActivePeer(t)
                              \/ SaveActivePeer(t) \/ ClearActivePeer(t) \/ ClearActiveIfMatches(t) \/ LoadPeers(t)
      PROVE  ListsKept'
  <2>1. UNCHANGED <<peersFile, peersBackup, everSaved>>
    BY <1>1 DEF StartCall, TakeStoreLock, JudgeStoreLock, RemoveStoreLock, StoreLockTimeout, SeeBackup, LoadIdentity, SaveIdentity,
       ToolCrash, LoadActivePeer, SaveActivePeer, ClearActivePeer, ClearActiveIfMatches, LoadPeers, fileVars
  <2>2. CASE StartCall(t)
    <3>1. PICK c : doing' = [doing EXCEPT ![t] = c] /\ c.at = "waiting"
      BY <2>2, CallStarts
    <3>2. doing'[t].at = "waiting" /\ \A u \in Tools : u # t => doing'[u] = doing[u]
      BY <1>0, <3>1
    <3> QED BY <2>1, <3>2, ListsStay
  <2>3. CASE StoreLockTimeout(t) \/ ToolCrash(t)
    <3>1. doing' = [doing EXCEPT ![t] = Nothing]
      BY <2>3 DEF StoreLockTimeout, ToolCrash
    <3>2. doing'[t] = Nothing /\ \A u \in Tools : u # t => doing'[u] = doing[u]
      BY <1>0, <3>1
    <3> QED BY <1>n, <2>1, <3>2, ListsStay DEF Writing
  <2>4. CASE EndCall(t)
    BY <1>e, <2>1, <2>4, ListsStay DEF Writing
  <2>5. CASE \E at \in {"waiting", "judged", "locked", "restore_read", "restore", "generated"} : Then(t, at)
    BY <1>t, <2>1, <2>5, ListsStay
  <2>6. CASE doing[t].at = "clear" /\ Then(t, "unlock")
    BY <1>t, <2>1, <2>6, ListsStay
  <2>7. CASE LoadPeers(t) /\ ~EndCall(t)
    <3>1. PICK m : doing' = [doing EXCEPT ![t].at = "write", ![t].base = Listed, ![t].new = m]
      BY <2>7 DEF LoadPeers
    <3>2. doing'[t].at = "write" /\ \A u \in Tools : u # t => doing'[u] = doing[u]
      BY <1>0, <3>1 DEF Calls
    <3> QED BY <2>1, <3>2, ListsStay
  <2> QED BY <1>1, <2>2, <2>3, <2>4, <2>5, <2>6, <2>7 DEF TakeStoreLock, JudgeStoreLock, RemoveStoreLock, SeeBackup, LoadIdentity,
          SaveIdentity, LoadActivePeer, SaveActivePeer, ClearActivePeer, ClearActiveIfMatches
<1>2. CASE StoreLockAges
  BY <1>2, ListsStay DEF StoreLockAges, fileVars
<1>3. ASSUME NEW t \in Tools, peersFile' = IF peersBackup = {} THEN peersFile ELSE peersBackup, peersBackup' = {},
             UNCHANGED everSaved, \A u \in Tools : doing'[u] = doing[u] \/ doing'[u].at \notin Writing
      PROVE  ListsKept'
  <2>1. \A u \in Tools : doing'[u].at \in Writing => doing'[u] = doing[u]
    BY <1>3
  <2>2. peersFile # {} \/ peersBackup # {} => peersFile' # {}
    BY <1>3
  <2> QED BY <1>3, <2>1, <2>2 DEF ListsKept, Writing
<1>4. ASSUME NEW t \in Tools, RestoreBackup(t) PROVE ListsKept'
  <2>1. Then(t, "locked") \/ Then(t, "idle")
    BY <1>4 DEF RestoreBackup
  <2>2. \A u \in Tools : doing'[u] = doing[u] \/ doing'[u].at \notin Writing
    BY <1>t, <2>1 DEF Writing
  <2> QED BY <1>3, <1>4, <2>2 DEF RestoreBackup
<1>5. ASSUME NEW t \in Tools, ReplacePeers(t) PROVE ListsKept'
  BY <1>5, ListPublished DEF ReplacePeers
<1>6. ASSUME NEW t \in Tools, PreserveDestination(t) PROVE ListsKept'
  <2>1. /\ doing[t].at = "write" /\ t \in up /\ peersFile # {} /\ peersBackup' = peersFile /\ peersFile' = {}
        /\ Then(t, "aside")
    BY <1>6 DEF PreserveDestination
  <2>2. doing'[t].at = "aside" /\ \A u \in Tools : u # t => doing'[u] = doing[u] /\ doing[u].at \notin Writing
    BY <1>t, <2>1, OneWriter DEF Writing
  <2> QED BY <2>1, <2>2 DEF ListsKept, Writing
<1>7. ASSUME NEW t \in Tools, RetryRename(t) PROVE ListsKept'
  <2>1. doing[t].at = "aside" /\ t \in up
    BY <1>7 DEF RetryRename
  <2>2. CASE Publish(t) /\ UNCHANGED peersBackup
    BY <2>1, <2>2, ListPublished
  <2>3. CASE /\ peersFile' = IF peersBackup = {} THEN peersFile ELSE peersBackup
             /\ peersBackup' = {} /\ EndCall(t)
             /\ UNCHANGED <<saved, everSaved>>
    <3>1. \A u \in Tools : doing'[u] = doing[u] \/ doing'[u].at \notin Writing
      BY <1>e, <2>3
    <3> QED BY <1>3, <2>3, <3>1
  <2> QED BY <1>7, <2>2, <2>3 DEF RetryRename
<1>8. ASSUME NEW t \in Tools, EndMutation(t) PROVE ListsKept'
  <2>1. doing[t].at = "unlock" /\ peersBackup' = {} /\ UNCHANGED <<peersFile, everSaved>> /\ EndCall(t)
    BY <1>8 DEF EndMutation
  <2>2. peersFile # {} /\ \A u \in Tools : doing'[u].at \in Writing => doing'[u] = doing[u]
    BY <1>e, <2>1 DEF ListsKept
  <2> QED BY <2>1, <2>2 DEF ListsKept, Writing
<1> QED BY <1>1, <1>2, <1>4, <1>5, <1>6, <1>7, <1>8 DEF StoreNext

-----------------------------------------------------------------------------
\* A step that changes neither file nor backup, and begins no write.
LEMMA UpdatesStay ==
    ASSUME CallTypes, UpdatesKept, UNCHANGED <<replaces, peersFile, peersBackup>>, up' \subseteq up,
           \A u \in Tools :
              /\ doing'[u] = doing[u] \/ doing'[u].at \notin {"write", "aside"}
              /\ up' = Tools /\ doing[u].at \in {"aside", "clear", "unlock"} => doing'[u].at \in {"aside", "clear", "unlock"}
    PROVE  UpdatesKept'
<1>1. up' = Tools => up = Tools
  BY DEF CallTypes
<1>2. LoadPeersMap' = LoadPeersMap
  BY DEF LoadPeersMap, Listed
<1>3. replaces' \/ up' = Tools => NoLostUpdate'
  BY <1>1, <1>2 DEF UpdatesKept, NoLostUpdate, Doing
<1> QED BY <1>1, <1>3 DEF UpdatesKept

\* A step after which nobody writes, with the backup gone or in use.
LEMMA UpdatesOver ==
    ASSUME \A u \in Tools : doing'[u].at \notin {"write", "aside"},
           peersBackup' = {} \/ \E t \in Tools : doing'[t].at \in {"clear", "unlock"}
    PROVE  UpdatesKept'
  BY DEF UpdatesKept, NoLostUpdate, Doing

\* As long as nobody dies, no step changes a list under the call that rewrites it.
LEMMA UpdatesStep ==
    ASSUME CallTypes, LockHeld, ListsGood, ListsKept, UpdatesKept, StoreNext
    PROVE  UpdatesKept'
<1> USE DEF Doing
<1>0. doing \in [Tools -> Calls] /\ up \subseteq Tools
  BY DEF CallTypes
<1>e. \A t \in Tools : EndCall(t) => doing'[t].at = "idle" /\ \A u \in Tools : u # t => doing'[u] = doing[u]
  BY <1>0 DEF EndCall, Nothing
<1>t. \A t \in Tools : \A at : Then(t, at) => doing'[t].at = at /\ doing'[t].base = doing[t].base
                                          /\ \A u \in Tools : u # t => doing'[u] = doing[u]
  BY <1>0 DEF Then, Calls
<1>w. \A t \in Tools : doing[t].at \in Writing => \A u \in Tools : doing[u].at \in Writing => u = t
  BY OneWriter
<1>1. ASSUME NEW t \in Tools, StartCall(t) \/ TakeStoreLock(t) \/ JudgeStoreLock(t) \/ RemoveStoreLock(t) \/ StoreLockTimeout(t)
                              \/ SeeBackup(t) \/ LoadIdentity(t) \/ SaveIdentity(t) \/ LoadActivePeer(t)
                              \/ SaveActivePeer(t) \/ ClearActivePeer(t) \/ ClearActiveIfMatches(t)
      PROVE  UpdatesKept'
  <2>1. UNCHANGED <<replaces, peersFile, peersBackup, up>>
    BY <1>1 DEF StartCall, TakeStoreLock, JudgeStoreLock, RemoveStoreLock, StoreLockTimeout, SeeBackup, LoadIdentity, SaveIdentity,
       LoadActivePeer, SaveActivePeer, ClearActivePeer, ClearActiveIfMatches, fileVars, platform
  <2>2. CASE StartCall(t)
    <3>1. PICK c : doing' = [doing EXCEPT ![t] = c] /\ c.at = "waiting"
      BY <2>2, CallStarts
    <3>2. doing[t].at = "idle" /\ doing'[t].at = "waiting" /\ \A u \in Tools : u # t => doing'[u] = doing[u]
      BY <1>0, <2>2, <3>1 DEF StartCall
    <3> QED BY <2>1, <3>2, UpdatesStay
  <2>4. CASE StoreLockTimeout(t)
    <3>1. doing[t].at = "waiting" /\ doing' = [doing EXCEPT ![t] = Nothing]
      BY <2>4 DEF StoreLockTimeout
    <3>2. doing'[t].at = "idle" /\ \A u \in Tools : u # t => doing'[u] = doing[u]
      BY <1>0, <3>1 DEF Nothing
    <3> QED BY <2>1, <3>1, <3>2, UpdatesStay
  <2>5. CASE doing[t].at \in {"locked", "generated"} /\ EndCall(t)
    BY <1>e, <2>1, <2>5, UpdatesStay
  <2>6. CASE /\ doing[t].at \in {"waiting", "judged", "idle", "locked"}
             /\ \E at \in {"waiting", "judged", "locked", "restore_read", "restore", "generated"} : Then(t, at)
    BY <1>t, <2>1, <2>6, UpdatesStay
  <2>7. CASE doing[t].at = "clear" /\ Then(t, "unlock")
    BY <1>t, <2>1, <2>7, UpdatesStay
  <2> QED BY <1>1, <2>2, <2>4, <2>5, <2>6, <2>7 DEF TakeStoreLock, JudgeStoreLock, RemoveStoreLock, SeeBackup, LoadIdentity, SaveIdentity,
          LoadActivePeer, SaveActivePeer, ClearActivePeer, ClearActiveIfMatches
<1>2. CASE StoreLockAges
  BY <1>2, UpdatesStay DEF StoreLockAges, fileVars, platform
<1>3. ASSUME NEW t \in Tools, ToolCrash(t) PROVE UpdatesKept'
  <2>1. /\ t \in up /\ up' = up \ {t} /\ doing' = [doing EXCEPT ![t] = Nothing]
        /\ UNCHANGED <<replaces, peersFile, peersBackup>>
    BY <1>3 DEF ToolCrash, fileVars, platform
  <2>2. doing'[t].at = "idle" /\ \A u \in Tools : u # t => doing'[u] = doing[u]
    BY <1>0, <2>1 DEF Nothing
  <2> QED BY <1>0, <2>1, <2>2, UpdatesStay
<1>4. ASSUME NEW t \in Tools, RestoreBackup(t) PROVE UpdatesKept'
  <2>1. /\ doing[t].at \in {"restore_read", "restore"} /\ (Then(t, "locked") \/ Then(t, "idle"))
        /\ peersFile' = IF peersBackup = {} THEN peersFile ELSE peersBackup
        /\ peersBackup' = {} /\ UNCHANGED <<replaces, up>>
    BY <1>4 DEF RestoreBackup, platform
  <2>2. doing'[t].at \in {"locked", "idle"} /\ \A u \in Tools : u # t => doing'[u] = doing[u]
    BY <1>t, <2>1
  <2>3. CASE peersBackup = {}
    BY <2>1, <2>2, <2>3, UpdatesStay
  <2>4. CASE peersBackup # {}
    <3> SUFFICES ASSUME replaces \/ up = Tools, NEW u \in Tools, Doing(u, "write")' \/ Doing(u, "aside")'
                 PROVE  (doing[u].base = LoadPeersMap)'
      BY <2>1 DEF UpdatesKept, NoLostUpdate
    <3>1. doing'[u] = doing[u] /\ u \in up /\ doing[u].at \in {"write", "aside"}
      BY <2>1, <2>2
    <3>2. doing[u].base = LoadPeersMap
      BY <3>1 DEF UpdatesKept, NoLostUpdate
    <3>3. up = Tools
      BY <2>4 DEF ListsGood
    <3>4. doing[u].at = "aside"
      BY <1>w, <2>4, <3>1, <3>3 DEF UpdatesKept, Writing
    <3>5. peersFile = {}
      BY <2>4, <3>4 DEF ListsKept
    <3>6. LoadPeersMap' = LoadPeersMap
      BY <2>1, <2>4, <3>5 DEF LoadPeersMap, Listed
    <3> QED BY <3>1, <3>2, <3>6
  <2> QED BY <2>3, <2>4
<1>5. ASSUME NEW t \in Tools, LoadPeers(t) PROVE UpdatesKept'
  <2>1. /\ doing[t].at = "locked" /\ UNCHANGED <<replaces, peersFile, peersBackup, up>>
        /\ ~(peersFile = {} /\ peersBackup # {})
    BY <1>5 DEF LoadPeers, fileVars, platform
  <2>2. CASE EndCall(t)
    BY <1>e, <2>1, <2>2, UpdatesStay
  <2>3. CASE ~EndCall(t)
    <3>1. PICK m : doing' = [doing EXCEPT ![t].at = "write", ![t].base = Listed, ![t].new = m]
      BY <1>5, <2>3 DEF LoadPeers
    <3>2. doing'[t].at = "write" /\ doing'[t].base = Listed /\ \A u \in Tools : u # t => doing'[u] = doing[u]
      BY <1>0, <3>1 DEF Calls
    <3>3. LoadPeersMap' = LoadPeersMap /\ LoadPeersMap = Listed
      BY <2>1 DEF LoadPeersMap, Listed
    <3>4. replaces \/ up = Tools => NoLostUpdate'
      BY <2>1, <3>2, <3>3 DEF UpdatesKept, NoLostUpdate
    <3>5. up = Tools /\ peersBackup # {} => \E u \in Tools : doing'[u].at \in {"aside", "clear", "unlock"}
      BY <2>1, <3>2 DEF UpdatesKept
    <3> QED BY <2>1, <3>4, <3>5 DEF UpdatesKept
  <2> QED BY <2>2, <2>3
<1>6. ASSUME NEW t \in Tools, ReplacePeers(t) \/ RetryRename(t), Publish(t), UNCHANGED peersBackup PROVE UpdatesKept'
  <2>1. t \in up /\ doing[t].at \in {"write", "aside"}
    BY <1>6 DEF ReplacePeers, RetryRename
  <2>2. \A u \in Tools : doing'[u].at \notin {"write", "aside"}
    BY <1>6, <2>1, ListPublished
  <2>3. doing'[t].at \in {"clear", "unlock"}
    BY <1>6, <1>t DEF Publish
  <2> QED BY <2>2, <2>3, UpdatesOver
<1>7. ASSUME NEW t \in Tools, doing[t].at \in Writing, EndCall(t), peersBackup' = {} PROVE UpdatesKept'
  <2>1. \A u \in Tools : doing'[u].at \notin {"write", "aside"}
    BY <1>e, <1>w, <1>7 DEF Writing
  <2> QED BY <1>7, <2>1, UpdatesOver
<1>8. ASSUME NEW t \in Tools, PreserveDestination(t) PROVE UpdatesKept'
  <2>1. /\ doing[t].at = "write" /\ t \in up /\ ~replaces /\ peersFile # {} /\ peersBackup' = peersFile /\ peersFile' = {}
        /\ Then(t, "aside") /\ UNCHANGED <<replaces, up>>
    BY <1>8 DEF PreserveDestination, platform
  <2>2. doing'[t].at = "aside" /\ doing'[t].base = doing[t].base /\ \A u \in Tools : u # t => doing'[u].at \notin {"write", "aside"}
    BY <1>t, <1>w, <2>1 DEF Writing
  <2>3. LoadPeersMap' = LoadPeersMap
    BY <2>1 DEF LoadPeersMap, Listed
  <2>4. replaces' \/ up' = Tools => NoLostUpdate'
    BY <2>1, <2>2, <2>3 DEF UpdatesKept, NoLostUpdate
  <2> QED BY <2>2, <2>4 DEF UpdatesKept
<1>9. ASSUME NEW t \in Tools, ReplacePeers(t) \/ RetryRename(t) \/ EndMutation(t) PROVE UpdatesKept'
  <2>1. \/ Publish(t) /\ UNCHANGED peersBackup /\ (ReplacePeers(t) \/ RetryRename(t))
        \/ doing[t].at \in Writing /\ EndCall(t) /\ peersBackup' = {}
    BY <1>9 DEF ReplacePeers, RetryRename, EndMutation, Writing
  <2> QED BY <1>6, <1>7, <2>1
<1> QED BY <1>1, <1>2, <1>3, <1>4, <1>5, <1>8, <1>9 DEF StoreNext

-----------------------------------------------------------------------------
\* A step that neither changes the list nor the selection, nor ends a removal.
LEMMA SelectionStays ==
    ASSUME CallTypes, SelectionKept, UNCHANGED <<replaces, peersFile>>, activeFile' \subseteq activeFile, up' \subseteq up,
           up' = Tools => \A u \in Tools : doing[u].at = "clear" => doing'[u] = doing[u] \/ activeFile' \cap doing[u].fp = {}
    PROVE  SelectionKept'
<1>1. up' = Tools => up = Tools
  BY DEF CallTypes
<1>2. Listed' = Listed
  BY DEF Listed
<1> QED BY <1>1, <1>2 DEF SelectionKept, Doing

\* Where a rename replaces its destination and nobody dies, the selection stays
\* among the peers, but for the removal that is about to clear it.
LEMMA SelectionStep ==
    ASSUME CallTypes, LockHeld, ListsGood, ListsKept, UpdatesKept, SelectionKept, StoreNext
    PROVE  SelectionKept'
<1> USE DEF Doing
<1>0. doing \in [Tools -> Calls] /\ up \subseteq Tools
  BY DEF CallTypes
<1>e. \A t \in Tools : EndCall(t) => \A u \in Tools : u # t => doing'[u] = doing[u]
  BY <1>0 DEF EndCall
<1>t. \A t \in Tools : \A at : Then(t, at) => doing'[t].at = at /\ doing'[t].fp = doing[t].fp
                                          /\ \A u \in Tools : u # t => doing'[u] = doing[u]
  BY <1>0 DEF Then, Calls
<1>1. ASSUME NEW t \in Tools, doing[t].at # "clear", \A u \in Tools : u # t => doing'[u] = doing[u],
             UNCHANGED <<replaces, peersFile, up>>, activeFile' \subseteq activeFile
      PROVE  SelectionKept'
  BY <1>1, SelectionStays
<1>2. ASSUME NEW t \in Tools, StartCall(t) \/ TakeStoreLock(t) \/ StoreLockTimeout(t) \/ SeeBackup(t) \/ LoadPeers(t)
                              \/ LoadIdentity(t) \/ SaveIdentity(t) \/ LoadActivePeer(t) \/ ClearActivePeer(t) \/ EndMutation(t)
      PROVE  SelectionKept'
  <2>1. UNCHANGED <<replaces, peersFile, up>> /\ activeFile' \subseteq activeFile /\ doing[t].at # "clear"
    BY <1>2 DEF StartCall, TakeStoreLock, StoreLockTimeout, SeeBackup, LoadPeers, LoadIdentity, SaveIdentity, LoadActivePeer,
       ClearActivePeer, EndMutation, fileVars, platform
  <2>2. \A u \in Tools : u # t => doing'[u] = doing[u]
    BY <1>0, <1>2, <1>e, <1>t DEF StartCall, TakeStoreLock, StoreLockTimeout, SeeBackup, LoadPeers, LoadIdentity, SaveIdentity,
       LoadActivePeer, ClearActivePeer, EndMutation
  <2> QED BY <1>1, <2>1, <2>2
<1>3. ASSUME NEW t \in Tools, JudgeStoreLock(t) \/ RemoveStoreLock(t) PROVE SelectionKept'
  <2>1. UNCHANGED <<replaces, peersFile, up>> /\ activeFile' \subseteq activeFile /\ doing[t].at # "clear"
        /\ (Then(t, "judged") \/ Then(t, "waiting"))
    BY <1>3 DEF JudgeStoreLock, RemoveStoreLock, fileVars, platform
  <2> QED BY <1>1, <1>t, <2>1
<1>4. CASE StoreLockAges
  BY <1>4, SelectionStays DEF StoreLockAges, fileVars, platform
<1>5. ASSUME NEW t \in Tools, ToolCrash(t) PROVE SelectionKept'
  <2>1. up' = up \ {t} /\ t \in up /\ UNCHANGED <<replaces, peersFile, activeFile>>
    BY <1>5 DEF ToolCrash, fileVars, platform
  <2>2. up' # Tools /\ up' \subseteq up
    BY <2>1
  <2> QED BY <2>1, <2>2, SelectionStays
<1>6. ASSUME NEW t \in Tools, RestoreBackup(t) PROVE SelectionKept'
  <2>1. /\ doing[t].at \in {"restore_read", "restore"} /\ (Then(t, "locked") \/ Then(t, "idle"))
        /\ peersFile' = IF peersBackup = {} THEN peersFile ELSE peersBackup
        /\ UNCHANGED <<replaces, up, activeFile>>
    BY <1>6 DEF RestoreBackup, platform
  <2>2. CASE ~replaces
    BY <2>1, <2>2 DEF SelectionKept
  <2>3. CASE replaces
    <3>1. peersFile' = peersFile
      BY <2>1, <2>3 DEF ListsGood
    <3> QED BY <1>t, <1>1, <2>1, <3>1
  <2> QED BY <2>2, <2>3
<1>7. ASSUME NEW t \in Tools, ReplacePeers(t) PROVE SelectionKept'
  <2>1. doing[t].at = "write" /\ t \in up /\ Publish(t) /\ UNCHANGED <<replaces, up, activeFile>>
    BY <1>7 DEF ReplacePeers, platform
  <2> SUFFICES ASSUME replaces, up = Tools, NEW f \in activeFile
               PROVE  f \in DOMAIN Listed' \/ \E u \in Tools : Doing(u, "clear")' /\ f \in doing'[u].fp
    BY <2>1 DEF SelectionKept
  <2>2. LoadPeersMap = Listed /\ doing[t].base = LoadPeersMap
    BY <2>1 DEF ListsGood, LoadPeersMap, UpdatesKept, NoLostUpdate
  <2>3. \A u \in Tools : doing[u].at # "clear"
    BY <2>1, OneWriter DEF Writing
  <2>4. f \in DOMAIN doing[t].base
    BY <2>2, <2>3 DEF SelectionKept
  <2>5. Listed' = doing[t].new
    BY <2>1 DEF Publish, Listed
  <2>6. CASE f \in DOMAIN doing[t].new
    BY <2>5, <2>6
  <2>7. CASE f \notin DOMAIN doing[t].new
    <3>1. doing[t].op = "remove" /\ f \in doing[t].fp
      BY <2>1, <2>4, <2>7 DEF ListsGood
    <3>2. doing'[t].at = "clear" /\ doing'[t].fp = doing[t].fp
      BY <1>t, <2>1, <3>1 DEF Publish
    <3> QED BY <2>1, <3>1, <3>2
  <2> QED BY <2>6, <2>7
<1>8. ASSUME NEW t \in Tools, PreserveDestination(t) \/ RetryRename(t) PROVE SelectionKept'
  <2>1. ~replaces /\ UNCHANGED <<replaces, activeFile>>
    BY <1>8 DEF PreserveDestination, RetryRename, ListsGood, platform
  <2> QED BY <2>1 DEF SelectionKept
<1>9. ASSUME NEW t \in Tools, ClearActiveIfMatches(t) PROVE SelectionKept'
  <2>1. activeFile' = activeFile \ doing[t].fp /\ Then(t, "unlock") /\ UNCHANGED <<replaces, peersFile, up>>
    BY <1>9 DEF ClearActiveIfMatches, platform
  <2> QED BY <1>t, <2>1, SelectionStays
<1>10. ASSUME NEW t \in Tools, SaveActivePeer(t) PROVE SelectionKept'
  <2>1. /\ activeFile' = IF doing[t].fp \subseteq DOMAIN Listed THEN doing[t].fp ELSE activeFile
        /\ UNCHANGED <<replaces, peersFile, up>> /\ EndCall(t) /\ doing[t].at = "locked"
    BY <1>10 DEF SaveActivePeer, platform
  <2>2. CASE doing[t].fp \subseteq DOMAIN Listed
    <3>1. Listed' = Listed /\ activeFile' = doing[t].fp /\ doing[t].fp \subseteq Fingerprints
      BY <1>0, <2>1, <2>2 DEF Listed, Calls
    <3> QED BY <2>2, <3>1 DEF SelectionKept
  <2>3. CASE ~(doing[t].fp \subseteq DOMAIN Listed)
    BY <1>e, <1>1, <2>1, <2>3
  <2> QED BY <2>2, <2>3
<1> QED BY <1>2, <1>3, <1>4, <1>5, <1>6, <1>7, <1>8, <1>9, <1>10 DEF StoreNext

\* No step hands out an identity that is not the one saved.
LEMMA IdentityStep ==
    ASSUME CallTypes, LockHeld, identity \subseteq Tools, IdentityKept, StoreNext
    PROVE  IdentityKept'
<1> USE DEF Doing
<1>0. doing \in [Tools -> Calls] /\ up \subseteq Tools
  BY DEF CallTypes
<1>1. ASSUME UNCHANGED <<identity, got>>, \A u \in Tools : doing'[u].at = "generated" => doing[u].at = "generated" \/ identity = {}
      PROVE  IdentityKept'
  BY <1>1 DEF IdentityKept
<1>2. ASSUME NEW t \in Tools, LoadIdentity(t) PROVE IdentityKept'
  <2>1. UNCHANGED identity /\ \A u \in Tools : u # t => doing'[u] = doing[u]
    BY <1>0, <1>2 DEF LoadIdentity, fileVars, platform, EndCall, Then
  <2>2. CASE identity # {} /\ got' = [got EXCEPT ![t] = @ \cup identity] /\ EndCall(t)
    <3>1. doing'[t].at = "idle"
      BY <1>0, <2>2 DEF EndCall, Nothing
    <3>2. got' \in [Tools -> SUBSET Tools] /\ \A u \in Tools : got'[u] \subseteq identity
      BY <2>2 DEF IdentityKept
    <3> QED BY <2>1, <3>1, <3>2 DEF IdentityKept
  <2>3. CASE identity = {} /\ UNCHANGED got
    BY <2>1, <2>3, <1>1
  <2> QED BY <1>2, <2>2, <2>3 DEF LoadIdentity
<1>3. ASSUME NEW t \in Tools, SaveIdentity(t) PROVE IdentityKept'
  <2>1. doing[t].at = "generated" /\ identity' = {t} /\ got' = [got EXCEPT ![t] = @ \cup {t}] /\ EndCall(t)
    BY <1>3 DEF SaveIdentity
  <2>2. identity = {} /\ \A u \in Tools : got[u] = {}
    BY <2>1 DEF IdentityKept
  <2>3. got' \in [Tools -> SUBSET Tools] /\ \A u \in Tools : got'[u] \subseteq {t}
    BY <2>1, <2>2 DEF IdentityKept
  <2>4. doing'[t].at = "idle" /\ \A u \in Tools : u # t => doing'[u] = doing[u]
    BY <1>0, <2>1 DEF EndCall, Nothing
  <2>5. \A u \in Tools : doing'[u].at # "generated"
    <3> SUFFICES ASSUME NEW u \in Tools, u # t, doing[u].at = "generated" PROVE FALSE
      BY <2>4
    <3>1. LockOf(doing[u].op) = LockOf(doing[t].op) /\ doing[u].at \in Holding /\ doing[t].at \in Holding
      BY <2>1 DEF CallTypes, Holding
    <3> QED BY <3>1, OneHolder
  <2> QED BY <2>1, <2>3, <2>5 DEF IdentityKept
<1>4. ASSUME NEW t \in Tools, StartCall(t) \/ TakeStoreLock(t) \/ JudgeStoreLock(t) \/ RemoveStoreLock(t) \/ StoreLockTimeout(t) \/ SeeBackup(t)
                \/ RestoreBackup(t) \/ LoadPeers(t) \/ ReplacePeers(t) \/ PreserveDestination(t) \/ RetryRename(t)
                \/ ClearActiveIfMatches(t) \/ EndMutation(t) \/ LoadActivePeer(t) \/ SaveActivePeer(t) \/ ClearActivePeer(t)
                \/ ToolCrash(t)
      PROVE  IdentityKept'
  <2>1. UNCHANGED <<identity, got>>
    BY <1>4 DEF StartCall, TakeStoreLock, JudgeStoreLock, RemoveStoreLock, StoreLockTimeout, SeeBackup, RestoreBackup, LoadPeers, ReplacePeers,
       PreserveDestination, RetryRename, ClearActiveIfMatches, EndMutation, LoadActivePeer, SaveActivePeer, ClearActivePeer,
       ToolCrash, fileVars, platform
  <2>2. \/ doing' = doing
        \/ \E c : doing' = [doing EXCEPT ![t] = c] /\ c.at # "generated"
    <3>1. \A at : at # "generated" /\ Then(t, at) => \E c : doing' = [doing EXCEPT ![t] = c] /\ c.at # "generated"
      <4> SUFFICES ASSUME NEW at, at # "generated", Then(t, at) PROVE \E c : doing' = [doing EXCEPT ![t] = c] /\ c.at # "generated"
        OBVIOUS
      <4>1. doing' = [doing EXCEPT ![t] = [doing[t] EXCEPT !.at = at]] /\ [doing[t] EXCEPT !.at = at].at = at
        BY <1>0 DEF Then, Calls
      <4> QED BY <4>1
    <3>2. EndCall(t) \/ StoreLockTimeout(t) \/ ToolCrash(t) => \E c : doing' = [doing EXCEPT ![t] = c] /\ c.at # "generated"
      <4>1. Nothing.at # "generated"
        BY DEF Nothing
      <4>2. EndCall(t) \/ StoreLockTimeout(t) \/ ToolCrash(t) => doing' = [doing EXCEPT ![t] = Nothing]
        BY DEF EndCall, StoreLockTimeout, ToolCrash
      <4> HIDE DEF Doing
      <4> QED BY <4>1, <4>2
    <3>3. CASE StartCall(t)
      BY <3>3, CallStarts
    <3>4. CASE LoadPeers(t) /\ ~EndCall(t)
      <4>1. PICK m : doing' = [doing EXCEPT ![t].at = "write", ![t].base = Listed, ![t].new = m]
        BY <3>4 DEF LoadPeers
      <4>2. doing' = [doing EXCEPT ![t] = [doing[t] EXCEPT !.at = "write", !.base = Listed, !.new = m]]
            /\ [doing[t] EXCEPT !.at = "write", !.base = Listed, !.new = m].at = "write"
        BY <1>0, <4>1 DEF Calls
      <4> QED BY <4>2
    <3> QED BY <1>4, <3>1, <3>2, <3>3, <3>4 DEF TakeStoreLock, JudgeStoreLock, RemoveStoreLock, SeeBackup, RestoreBackup, LoadPeers,
            ReplacePeers, PreserveDestination, RetryRename, ClearActiveIfMatches, EndMutation, LoadActivePeer, SaveActivePeer,
            ClearActivePeer, Publish
  <2>3. \A u \in Tools : doing'[u].at = "generated" => doing[u].at = "generated"
    BY <1>0, <2>2
  <2> QED BY <1>1, <2>1, <2>3
<1>5. CASE StoreLockAges
  BY <1>1, <1>5 DEF StoreLockAges, fileVars, platform
<1> QED BY <1>2, <1>3, <1>4, <1>5 DEF StoreNext

-----------------------------------------------------------------------------
\* A store as earlier calls left it satisfies the invariant.
LEMMA StoreStarts == StoreInit => StoreForms /\ (LockLasts => StoreInvariant)
<1> SUFFICES ASSUME StoreInit PROVE StoreForms /\ (LockLasts => StoreInvariant)
  OBVIOUS
<1>0. NoPeers \in PeerMaps /\ Nothing.at = "idle" /\ Nothing.op = "none"
  <2>1. NoPeers \in [{} -> Peer]
    BY DEF NoPeers
  <2> QED BY <2>1 DEF PeerMaps, Nothing
<1>1. Nothing \in Calls
  BY <1>0 DEF Nothing, Calls, CallStates
<1>2. \A t \in Tools : doing[t] = Nothing
  BY DEF StoreInit
<1>3. CallTypes
  BY <1>0, <1>1, <1>2, StoreConstants DEF StoreInit, CallTypes, LockTypes
<1>4. ListsGood
  BY <1>0, <1>2 DEF StoreInit, ListsGood, One, Good, GoodBut
<1>5. StoreForms
  BY <1>3, <1>4 DEF StoreForms, StoreInit
<1>6. LockHeld
  BY <1>0, <1>2 DEF StoreInit, LockHeld, Holding
<1>7. ListsKept
  BY <1>0, <1>2 DEF StoreInit, ListsKept
<1>8. UpdatesKept
  BY <1>0, <1>2 DEF StoreInit, UpdatesKept, NoLostUpdate, Doing
<1>9. SelectionKept /\ IdentityKept
  BY <1>0, <1>2 DEF StoreInit, SelectionKept, IdentityKept
<1> QED BY <1>5, <1>6, <1>7, <1>8, <1>9 DEF StoreInvariant

\* No step of the store leaves the forms of its files and calls, whoever works
\* under which lock.
LEMMA FormsKept == StoreForms /\ [StoreNext]_storeVars => StoreForms'
<1> SUFFICES ASSUME StoreForms, [StoreNext]_storeVars PROVE StoreForms'
  OBVIOUS
<1>0. CallTypes /\ ListsGood /\ activeFile \subseteq Fingerprints /\ identity \subseteq Tools
  BY DEF StoreForms
<1>1. CASE StoreNext
  <2>1. CallTypes' /\ ListsGood'
    BY <1>0, <1>1, CallsKept, FormsStep
  <2>2. \A t \in Tools : doing[t].fp \subseteq Fingerprints
    BY <1>0 DEF CallTypes, Calls
  <2>3. activeFile' \subseteq Fingerprints /\ identity' \subseteq Tools
    <3>1. \/ UNCHANGED <<activeFile, identity>>
          \/ \E t \in Tools : /\ activeFile' \subseteq activeFile \cup doing[t].fp
                              /\ identity' \subseteq identity \cup {t}
      BY <1>1 DEF StoreNext, StartCall, TakeStoreLock, JudgeStoreLock, RemoveStoreLock, StoreLockTimeout, SeeBackup, RestoreBackup,
         LoadPeers, ReplacePeers, PreserveDestination, RetryRename, ClearActiveIfMatches, EndMutation, LoadActivePeer, SaveActivePeer,
         ClearActivePeer, LoadIdentity, SaveIdentity, ToolCrash, StoreLockAges, fileVars
    <3> QED BY <1>0, <2>2, <3>1
  <2> QED BY <2>1, <2>3 DEF StoreForms
<1>2. CASE UNCHANGED storeVars
  <2>1. CallTypes'
    BY <1>0, <1>2 DEF storeVars, CallTypes, LockTypes
  <2>2. ListsGood'
    BY <1>0, <1>2 DEF storeVars, ListsGood, Good
  <2> QED BY <1>0, <1>2, <2>1, <2>2 DEF StoreForms, storeVars
<1> QED BY <1>1, <1>2

\* No step of the store breaks the invariant.
LEMMA StoreSteps == StoreInvariant /\ [StoreNext]_storeVars => StoreInvariant'
<1> SUFFICES ASSUME StoreInvariant, [StoreNext]_storeVars PROVE StoreInvariant'
  OBVIOUS
<1>0. CallTypes /\ ListsGood /\ identity \subseteq Tools /\ LockHeld /\ ListsKept /\ LockLasts
  BY DEF StoreInvariant, StoreForms
<1>s. StoreForms'
  BY FormsKept DEF StoreInvariant
<1>1. CASE StoreNext
  <2>1. LockHeld'
    BY <1>0, <1>1, CallsKept DEF LocksStay
  <2>2. LockLasts'
    BY <1>0, <1>1 DEF LockLasts, StoreNext, StartCall, TakeStoreLock, JudgeStoreLock, RemoveStoreLock, StoreLockTimeout, SeeBackup,
       RestoreBackup, LoadPeers, ReplacePeers, PreserveDestination, RetryRename, ClearActiveIfMatches, EndMutation, LoadActivePeer,
       SaveActivePeer, ClearActivePeer, LoadIdentity, SaveIdentity, ToolCrash, StoreLockAges, platform
  <2>3. ListsKept' /\ UpdatesKept' /\ SelectionKept' /\ IdentityKept'
    BY <1>0, <1>1, ListsStep, UpdatesStep, SelectionStep, IdentityStep DEF StoreInvariant
  <2> QED BY <1>s, <2>1, <2>2, <2>3 DEF StoreInvariant
<1>2. CASE UNCHANGED storeVars
  <2>1. Listed' = Listed /\ LoadPeersMap' = LoadPeersMap
    BY <1>2 DEF storeVars, Listed, LoadPeersMap
  <2>2. LockHeld' /\ ListsKept' /\ LockLasts'
    BY <1>0, <1>2 DEF storeVars, LockHeld, ListsKept, LockLasts
  <2>3. UpdatesKept'
    BY <1>2, <2>1 DEF StoreInvariant, storeVars, UpdatesKept, NoLostUpdate, Doing
  <2>4. SelectionKept' /\ IdentityKept'
    BY <1>2, <2>1 DEF StoreInvariant, storeVars, SelectionKept, IdentityKept, Doing
  <2> QED BY <1>s, <2>2, <2>3, <2>4 DEF StoreInvariant
<1> QED BY <1>1, <1>2

\* A query resolves to one of the peers it hits, and to none when it is the
\* prefix of one and the code of another.
LEMMA OneOrNone ==
    ASSUME NEW hits, NEW P, IsFiniteSet(P), \A tier \in Tiers : hits[tier] \subseteq P
    PROVE  /\ Cardinality(ResolvePeer(hits)) <= 1
           /\ ResolvePeer(hits) \subseteq UNION {hits[tier] : tier \in Tiers}
           /\ hits["exact"] = {} /\ Cardinality(hits["prefix"] \cup hits["sas"]) > 1 => ResolvePeer(hits) = {}
<1>0. \A S \in SUBSET P : IsFiniteSet(S) /\ Cardinality(S) \in Nat /\ (Cardinality(S) = 0 <=> S = {})
                         /\ (Cardinality(S) <= 1 => One(S))
  <2> TAKE S \in SUBSET P
  <2>1. IsFiniteSet(S) /\ Cardinality(S) \in Nat
    BY FS_Subset, FS_CardinalityType
  <2>2. Cardinality(S) = 0 <=> S = {}
    BY <2>1, FS_EmptySet
  <2>3. Cardinality(S) = 1 => \E x : S = {x}
    BY <2>1, FS_Singleton
  <2> QED BY <2>1, <2>2, <2>3 DEF One
<1>1. \A tier \in Tiers : hits[tier] # {} => First(hits[tier]) \subseteq hits[tier] /\ Cardinality(First(hits[tier])) <= 1
  <2> TAKE tier \in Tiers
  <2> HAVE hits[tier] # {}
  <2>1. PICK p : First(hits[tier]) = {p} /\ p \in hits[tier]
    BY DEF First
  <2> QED BY <2>1, AtMostOneMember
<1>2. Cardinality({}) = 0
  BY FS_EmptySet
<1>3. {"exact", "prefix", "sas", "alias", "name", "address"} = Tiers
  BY DEF Tiers
<1>4. CASE hits["exact"] # {}
  <2>1. ResolvePeer(hits) = First(hits["exact"])
    BY <1>4 DEF ResolvePeer
  <2> QED BY <1>1, <1>3, <1>4, <2>1
<1>5. CASE hits["exact"] = {}
  <2> DEFINE Ambiguous == Cardinality(hits["prefix"]) > 1 \/ Cardinality(hits["sas"]) > 1
                          \/ (hits["prefix"] # {} /\ hits["sas"] # {} /\ hits["prefix"] # hits["sas"])
  <2>1. CASE Ambiguous
    <3>1. ResolvePeer(hits) = {}
      BY <1>5, <2>1 DEF ResolvePeer
    <3> QED BY <1>2, <3>1
  <2>2. CASE ~Ambiguous
    <3>0. hits["prefix"] \subseteq P /\ hits["sas"] \subseteq P
      BY <1>3
    <3>1. Cardinality(hits["prefix"]) <= 1 /\ Cardinality(hits["sas"]) <= 1
      BY <1>0, <2>2, <3>0
    <3>2. hits["prefix"] \cup hits["sas"] \in {hits["prefix"], hits["sas"]}
      BY <2>2
    <3>3. ~(Cardinality(hits["prefix"] \cup hits["sas"]) > 1)
      BY <1>0, <3>0, <3>1, <3>2
    <3>4. \/ ResolvePeer(hits) = hits["prefix"] \/ ResolvePeer(hits) = hits["sas"] \/ ResolvePeer(hits) = {}
          \/ \E tier \in Tiers : hits[tier] # {} /\ ResolvePeer(hits) = First(hits[tier])
      BY <1>3, <1>5, <2>2 DEF ResolvePeer
    <3> HIDE DEF Ambiguous
    <3>5. CASE ResolvePeer(hits) = hits["prefix"] \/ ResolvePeer(hits) = hits["sas"]
      BY <1>3, <3>1, <3>3, <3>5
    <3>6. CASE ResolvePeer(hits) = {}
      BY <1>2, <3>6
    <3>7. CASE \E tier \in Tiers : hits[tier] # {} /\ ResolvePeer(hits) = First(hits[tier])
      BY <1>1, <3>3, <3>7
    <3> QED BY <3>4, <3>5, <3>6, <3>7
  <2> QED BY <2>1, <2>2
<1> QED BY <1>4, <1>5

\* What holds whether or not the lock keeps writers apart follows from the forms.
LEMMA FormsSuffice == StoreForms => StoreStands
<1> SUFFICES ASSUME StoreForms PROVE StoreStands
  OBVIOUS
<1>0. CallTypes /\ ListsGood /\ activeFile \subseteq Fingerprints /\ identity \subseteq Tools
  BY DEF StoreForms
<1>1. Good(Listed) /\ Good(LoadPeersMap)
  BY <1>0, ListedGood
<1>2. DOMAIN LoadPeersMap \subseteq Fingerprints /\ IsFiniteSet(DOMAIN LoadPeersMap)
  <2>1. DOMAIN LoadPeersMap \subseteq Fingerprints
    BY <1>1 DEF Good, GoodBut, PeerMaps
  <2> QED BY <2>1, FS_Subset, StoreConstants
<1>3. StoreTypeOK
  <2>1. Cardinality(peersFile) <= 1 /\ Cardinality(peersBackup) <= 1
    BY <1>0, AtMostOneMember DEF ListsGood, One
  <2>2. peersFile \subseteq PeerMaps /\ peersBackup \subseteq PeerMaps
    BY <1>0 DEF ListsGood, Good, GoodBut
  <2>3. lockOld \subseteq DOMAIN storeLock
    BY <1>0 DEF CallTypes, LockTypes
  <2> QED BY <1>0, <2>1, <2>2, <2>3 DEF StoreTypeOK, CallTypes
<1>4. replaces => PairingsSurvive
  <2> SUFFICES ASSUME replaces PROVE LoadPeersMap = saved
    BY DEF PairingsSurvive
  <2>1. CASE everSaved = {}
    <3>1. peersFile = {} /\ peersBackup = {} /\ saved = NoPeers
      BY <1>0, <2>1 DEF ListsGood
    <3> QED BY <3>1 DEF LoadPeersMap, Listed
  <2>2. CASE everSaved # {}
    <3>1. peersFile = {saved}
      BY <1>0, <2>2 DEF ListsGood
    <3> QED BY <3>1 DEF LoadPeersMap, Listed
  <2> QED BY <2>1, <2>2
<1>5. OneDefault
  <2> DEFINE defaults == {fp \in DOMAIN LoadPeersMap : LoadPeersMap[fp].isDefault}
             kept == {fp \in DOMAIN LoadPeersMap \ reflagged : LoadPeersMap[fp].isDefault}
  <2>1. Cardinality(kept) <= 1
    BY <1>1, AtMostOneMember DEF Good, GoodBut
  <2>2. defaults # {} => \E fp \in ResolveDefault(LoadPeersMap) : LoadPeersMap[fp].isDefault
    BY DEF ResolveDefault, First
  <2>3. defaults = {} /\ ResolveDefault(LoadPeersMap) # {} => Cardinality(DOMAIN LoadPeersMap) = 1
    BY DEF ResolveDefault
  <2> QED BY <2>1, <2>2, <2>3 DEF OneDefault
<1>6. ResolveSound
  <2> DEFINE P == DOMAIN LoadPeersMap
  <2> SUFFICES ASSUME NEW q \in Aliases \cup Addresses, NEW prefix \in SUBSET P, NEW sas \in SUBSET P, NEW name \in SUBSET P
               PROVE  LET hits == HitsOf(q, prefix, sas, name)  to == ResolvePeer(hits) IN
                      /\ Cardinality(to) <= 1 /\ to \subseteq UNION {hits[tier] : tier \in Tiers}
                      /\ hits["exact"] = {} /\ Cardinality(prefix \cup sas) > 1 => to = {}
    BY DEF ResolveSound
  <2> DEFINE hits == HitsOf(q, prefix, sas, name)
  <2>1. \A tier \in Tiers : hits[tier] \subseteq P
    BY DEF HitsOf, Tiers
  <2>2. hits["prefix"] = prefix /\ hits["sas"] = sas
    BY DEF HitsOf
  <2> HIDE DEF hits
  <2>3. /\ Cardinality(ResolvePeer(hits)) <= 1
        /\ ResolvePeer(hits) \subseteq UNION {hits[tier] : tier \in Tiers}
        /\ hits["exact"] = {} /\ Cardinality(hits["prefix"] \cup hits["sas"]) > 1 => ResolvePeer(hits) = {}
    BY <1>2, <2>1, OneOrNone
  <2> QED BY <2>2, <2>3 DEF hits
<1> QED BY <1>3, <1>4, <1>5, <1>6 DEF StoreStands

\* What the lock adds follows from the invariant.
LEMMA StoreInvariantSuffices ==
    StoreInvariant => PairingsSurvive /\ (replaces \/ up = Tools => NoLostUpdate) /\ ActiveIsPaired /\ OneIdentity
<1> SUFFICES ASSUME StoreInvariant
             PROVE  PairingsSurvive /\ (replaces \/ up = Tools => NoLostUpdate) /\ ActiveIsPaired /\ OneIdentity
  OBVIOUS
<1> USE DEF StoreInvariant, StoreForms
<1>1. PairingsSurvive
  <2>1. CASE everSaved = {}
    <3>1. peersFile = {} /\ peersBackup = {} /\ saved = NoPeers
      BY <2>1 DEF ListsGood
    <3> QED BY <3>1 DEF PairingsSurvive, LoadPeersMap, Listed
  <2>2. CASE everSaved # {}
    <3>1. LoadPeersMap \in peersFile \cup peersBackup
      BY <2>2 DEF ListsKept, LoadPeersMap, Listed
    <3> QED BY <3>1 DEF PairingsSurvive, ListsGood
  <2> QED BY <2>1, <2>2
<1>2. replaces \/ up = Tools => NoLostUpdate
  BY DEF UpdatesKept
<1>3. ActiveIsPaired
  <2> SUFFICES ASSUME up = Tools, ~(\E t \in Tools : Doing(t, "clear")), replaces PROVE activeFile \subseteq DOMAIN LoadPeersMap
    BY DEF ActiveIsPaired
  <2>1. LoadPeersMap = Listed
    BY DEF ListsGood, LoadPeersMap
  <2> QED BY <2>1 DEF SelectionKept
<1>4. OneIdentity
  BY DEF IdentityKept, OneIdentity
<1> QED BY <1>1, <1>2, <1>3, <1>4

\* Whatever processes open the store, whatever they do with it, wherever they stop
\* and whichever of them take one another's locks: a load finds a list that was
\* saved or none, one peer at most is the default but for those a re-add made it,
\* a query resolves to a peer it matches or to none, and where a rename replaces
\* its destination the list a load finds is the one saved last (store.go).
THEOREM StoreSafe == StoreSpec => []StoreStands
<1>1. StoreInit => StoreForms
  BY StoreStarts
<1>2. StoreForms /\ [StoreNext]_storeVars => StoreForms'
  BY FormsKept
<1>3. StoreForms => StoreStands
  BY FormsSuffice
<1> QED BY <1>1, <1>2, <1>3, PTL DEF StoreSpec

\* Two processes, the Hub and a command, of which none is suspended in a change:
\* all of it holds together where a rename replaces its destination (everywhere
\* but Windows), and where no process dies in the middle of a change.  With three
\* the lock does not keep writers apart: two that judged the same lock stale may
\* each remove one, the later the lock the earlier had just made (store.go:215-221).
THEOREM StoreHolds == StoreSpec /\ TwoTools /\ (replaces \/ MaxToolCrashes = 0) => []StoreSound
<1> DEFINE Safe == TwoTools /\ (replaces \/ MaxToolCrashes = 0)
<1>1. StoreInit => StoreForms /\ (LockLasts => StoreInvariant)
  BY StoreStarts
<1>2. StoreForms /\ [StoreNext]_storeVars => StoreForms'
  BY FormsKept
<1> DEFINE Locked == slow = {} => StoreInvariant
<1>3. Safe /\ [StoreNext]_storeVars => Safe' /\ slow' = slow
  BY DEF storeVars, StoreNext, StartCall, TakeStoreLock, JudgeStoreLock, RemoveStoreLock, StoreLockTimeout, SeeBackup, RestoreBackup,
       LoadPeers, ReplacePeers, PreserveDestination, RetryRename, ClearActiveIfMatches, EndMutation, LoadActivePeer, SaveActivePeer,
       ClearActivePeer, LoadIdentity, SaveIdentity, ToolCrash, StoreLockAges, platform
<1>4. Safe /\ StoreInit => Locked
  BY <1>1 DEF LockLasts
<1>5. Safe /\ Locked /\ [StoreNext]_storeVars => Locked'
  BY <1>3, StoreSteps
<1>6. Safe /\ StoreForms /\ Locked => StoreSound
  <2> SUFFICES ASSUME Safe, StoreForms, Locked PROVE StoreSound
    OBVIOUS
  <2>1. StoreStands
    BY FormsSuffice
  <2>2. replaces \/ up = Tools
    BY DEF StoreForms, CallTypes
  <2>3. slow = {} => PairingsSurvive /\ NoLostUpdate /\ ActiveIsPaired /\ OneIdentity
    BY <2>2, StoreInvariantSuffices
  <2> QED BY <2>1, <2>3 DEF StoreSound
<1> HIDE DEF Safe, Locked
<1>7. StoreSpec /\ Safe => []StoreSound
  BY <1>1, <1>2, <1>3, <1>4, <1>5, <1>6, PTL DEF StoreSpec
<1> QED BY <1>7 DEF Safe
-----------------------------------------------------------------------------
(* The staging area.                                                       *)

\* Where a call may stand once its caller has made the lock, and where at all.
UnderLock == {"beat", "locked", "stale", "sweep", "legacy", "budget", "remove", "remains", "unlock"}
StagingPlaces == {"idle", "mkdir", "reclaim"} \cup UnderLock
StagingCalls == [at : StagingPlaces, op : StagingOps \cup {"none"}, part : SUBSET PartNames,
                 kind : Kinds, todo : SUBSET (Kinds \X PartNames), round : Int]
Locks == [pid : SUBSET Receivers, old : BOOLEAN]
Markers == [by : Receivers, touched : 0..MaxClock]

\* The variables of the staging area hold what their declarations say.
StagingTypes ==
    /\ lockDir \subseteq Locks /\ \A k, l \in lockDir : k = l
    /\ now \in 0..MaxClock /\ crashes \in 0..MaxCrashes
    /\ partial \in [PartNames -> SUBSET (0..MaxClock)]
    /\ sidecar \in [PartNames -> SUBSET (0..MaxClock)]
    /\ marker \in [PartNames -> SUBSET Markers]
    /\ owns \in [Receivers -> SUBSET PartNames]
    /\ running \in [Receivers -> BOOLEAN]
    /\ call \in [Receivers -> StagingCalls]

\* A call that sweeps or removes is one of the two maintenance passes, a call is
\* about one name at a time, and about a marker or a manifest only in the private
\* directory.
Ordered(c) ==
    /\ c.at \in {"sweep", "legacy"} => c.op = "sweep"
    /\ c.at = "budget" => c.op = "budget"
    /\ c.at \in {"remove", "remains"} => c.op \in {"sweep", "budget"}
    /\ \A p, q \in c.part : p = q
    /\ c.kind # "part" => \A p \in c.part : p \notin LegacyParts
    /\ \A e \in c.todo : e[1] # "part" => e[2] \notin LegacyParts
SweepsSweep == \A r \in Receivers : Ordered(call[r])

\* Whoever is past the lock made the one that is there, and nobody else is.
LockMine ==
    /\ \A r, s \in Receivers : Holds(r) /\ Holds(s) => r = s
    /\ \A r \in Receivers : Holds(r) =>
          /\ lockDir # {}
          /\ \A l \in lockDir : IF call[r].at = "beat" THEN l.pid = {} /\ ~ l.old ELSE l.pid = {r}

\* A partial that is received has a marker, recent and of its receiver alone.
OwnedMarked ==
    \A r \in Receivers : \A p \in owns[r] :
        marker[p] # {} /\ PartIsActive(p) /\ \A m \in marker[p] : m.by = r

\* A partial nobody receives.
Unowned(p) == \A s \in Receivers : p \notin owns[s]
\* A file among the final ones that is there was put there by a transfer.
Ours(p) == p \in LegacyParts => partial[p] = {} \/ sidecar[p] # {}

\* What the budget has listed: bytes a transfer put there, and what nobody needs.
Spare(e) == Ours(e[2]) /\ (e[1] # "part" => Unowned(e[2]))

\* What is about to be removed is nobody's, and no user's.
RemovalsRight ==
    \A r \in Receivers :
        /\ At(r, "stale") \/ At(r, "remove") \/ At(r, "remains") => \A p \in call[r].part : Unowned(p)
        /\ At(r, "remove") => \A p \in call[r].part : Ours(p)
        /\ At(r, "remains") => \A p \in call[r].part : p \in LegacyParts => partial[p] = {}
        /\ At(r, "budget") \/ ((At(r, "remove") \/ At(r, "remains")) /\ call[r].op = "budget")
               => \A e \in call[r].todo : Spare(e)

\* Two processes use the directory, the Hub and one receiver beside it.
TwoReceivers == \A r, s, t \in Receivers : r = s \/ s = t \/ r = t

\* Whoever takes a lock away is alone: the process that made it is dead.
ReclaimsDead ==
    /\ \A r \in Receivers : At(r, "reclaim") => \A s \in Receivers \ {r} : ~running[s]
    /\ \A l \in lockDir : l.pid = {} => \E s \in Receivers : At(s, "beat") \/ ~running[s]

\* The inductive invariant of the staging area.
StagingInv == StagingTypes /\ SweepsSweep /\ LockMine /\ ReclaimsDead /\ OwnedMarked /\ RemovalsRight
-----------------------------------------------------------------------------
\* Whatever lies in the directory at first, nobody receives it.
LEMMA StagingStarts == StagingInit => StagingInv
<1> SUFFICES ASSUME StagingInit PROVE StagingInv
  OBVIOUS
<1>1. StagingTypes
  <2>1. Idle \in StagingCalls
    BY DEF Idle, StagingCalls, StagingPlaces, Kinds
  <2>2. partial \in [PartNames -> SUBSET (0..MaxClock)] /\ sidecar \in [PartNames -> SUBSET (0..MaxClock)]
    BY StagingConstants DEF StagingInit
  <2> QED BY <2>1, <2>2, StagingConstants DEF StagingInit, StagingTypes
<1>2. \A r \in Receivers : call[r].at = "idle" /\ call[r].part = {} /\ owns[r] = {}
  BY DEF StagingInit, Idle
<1>3. SweepsSweep /\ LockMine /\ ReclaimsDead /\ OwnedMarked /\ RemovalsRight
  BY <1>2 DEF SweepsSweep, Ordered, LockMine, Holds, ReclaimsDead, OwnedMarked, RemovalsRight, At, StagingInit, Idle
<1> QED BY <1>1, <1>3 DEF StagingInv

\* There are finitely many candidates.
LEMMA CandidatesCount == Cardinality(Candidates) \in Nat
<1>0. IsFiniteSet({"part"}) /\ IsFiniteSet({"marker"}) /\ {"part", "marker"} = {"part"} \cup {"marker"}
  BY FS_Singleton
<1>1. IsFiniteSet({"part", "marker"} \X PartNames)
  BY <1>0, StagingConstants, FS_Product, FS_Union
<1>2. IsFiniteSet(Candidates)
  BY <1>1, FS_Subset DEF Candidates
<1> QED BY <1>2, FS_CardinalityType

\* A look takes one entry off the list and skips it or decides to remove it.
LEMMA LooksAt ==
    ASSUME call \in [Receivers -> StagingCalls], NEW r \in Receivers, SweepLook(r) \/ BudgetLook(r)
    PROVE  \E e \in call[r].todo, w \in {"remove", call[r].at} :
              /\ call' = [call EXCEPT ![r] = [call[r] EXCEPT !.todo = @ \ {e}, !.kind = e[1], !.part = {e[2]}, !.at = w]]
              /\ w = "remove" => IF SweepLook(r) THEN MayGo(e) ELSE e[1] = "part" => ~PartIsActive(e[2])
<1>0. call[r] \in StagingCalls /\ \A e, w : [call EXCEPT ![r].todo = @ \ {e}, ![r].kind = e[1], ![r].part = {e[2]}, ![r].at = w]
          = [call EXCEPT ![r] = [call[r] EXCEPT !.todo = @ \ {e}, !.kind = e[1], !.part = {e[2]}, !.at = w]]
  BY DEF StagingCalls
<1>1. CASE SweepLook(r)
  <2>1. PICK e \in call[r].todo :
             call' = [call EXCEPT ![r].todo = @ \ {e}, ![r].kind = e[1], ![r].part = {e[2]}, ![r].at = IF MayGo(e) THEN "remove" ELSE @]
    BY <1>1 DEF SweepLook, Pass
  <2> DEFINE w == IF MayGo(e) THEN "remove" ELSE call[r].at
  <2>2. call' = [call EXCEPT ![r] = [call[r] EXCEPT !.todo = @ \ {e}, !.kind = e[1], !.part = {e[2]}, !.at = w]]
    BY <1>0, <2>1
  <2>3. w \in {"remove", call[r].at}
    OBVIOUS
  <2>4. w = "remove" => MayGo(e)
    BY <1>1 DEF SweepLook, At
  <2> HIDE DEF w
  <2> QED BY <1>1, <2>2, <2>3, <2>4
<1>2. CASE ~SweepLook(r) /\ BudgetLook(r)
  <2>1. PICK e \in call[r].todo :
             call' = [call EXCEPT ![r].todo = @ \ {e}, ![r].kind = e[1], ![r].part = {e[2]},
                                  ![r].at = IF e[1] = "part" /\ PartIsActive(e[2]) THEN @ ELSE "remove"]
    BY <1>2 DEF BudgetLook, Oldest
  <2> DEFINE w == IF e[1] = "part" /\ PartIsActive(e[2]) THEN call[r].at ELSE "remove"
  <2>2. call' = [call EXCEPT ![r] = [call[r] EXCEPT !.todo = @ \ {e}, !.kind = e[1], !.part = {e[2]}, !.at = w]]
    BY <1>0, <2>1
  <2>3. w \in {"remove", call[r].at}
    OBVIOUS
  <2>4. w = "remove" => (e[1] = "part" => ~PartIsActive(e[2]))
    BY <1>2 DEF BudgetLook, At
  <2> HIDE DEF w
  <2> QED BY <1>2, <2>2, <2>3, <2>4
<1> QED BY <1>1, <1>2

\* After a removal the call goes on to what it left behind, or to its pass.
LEMMA RemovesOne ==
    ASSUME call \in [Receivers -> StagingCalls], NEW r \in Receivers, RemovePartial(r)
    PROVE  \E w \in {"remains", Resume(call[r])}, n \in {call[r].round, call[r].round - 1} :
              call' = [call EXCEPT ![r] = [call[r] EXCEPT !.at = w, !.round = n]]
<1>0. call[r] \in StagingCalls
  OBVIOUS
<1>1. PICK p \in call[r].part :
           call' = [call EXCEPT ![r].at = IF call[r].kind = "part" THEN "remains" ELSE Resume(call[r]),
                                ![r].round = IF Times(<<call[r].kind, p>>) = {} THEN @ ELSE @ - 1]
  BY DEF RemovePartial
<1> DEFINE w == IF call[r].kind = "part" THEN "remains" ELSE Resume(call[r])
           n == IF Times(<<call[r].kind, p>>) = {} THEN call[r].round ELSE call[r].round - 1
<1>2. call' = [call EXCEPT ![r] = [call[r] EXCEPT !.at = w, !.round = n]]
  BY <1>0, <1>1 DEF StagingCalls
<1>3. w \in {"remains", Resume(call[r])} /\ n \in {call[r].round, call[r].round - 1}
  OBVIOUS
<1> HIDE DEF w, n
<1> QED BY <1>2, <1>3

\* The rest of the call stays as it was.
LEMMA AfterRemoval ==
    ASSUME call \in [Receivers -> StagingCalls], NEW r \in Receivers, RemovePartial(r)
    PROVE  /\ call'[r].at \in {"remains", Resume(call[r])} /\ call'[r].op = call[r].op
           /\ call'[r].part = call[r].part /\ call'[r].kind = call[r].kind /\ call'[r].todo = call[r].todo
           /\ \A s \in Receivers : s # r => call'[s] = call[s]
<1> DEFINE Resumed == Resume(call[r])
<1>1. PICK w \in {"remains", Resumed}, n \in {call[r].round, call[r].round - 1} :
           call' = [call EXCEPT ![r] = [call[r] EXCEPT !.at = w, !.round = n]]
  BY RemovesOne
<1> HIDE DEF Resumed
<1>2. call[r] \in StagingCalls
  OBVIOUS
<1>3. /\ call'[r].at \in {"remains", Resumed} /\ call'[r].op = call[r].op
      /\ call'[r].part = call[r].part /\ call'[r].kind = call[r].kind /\ call'[r].todo = call[r].todo
      /\ \A s \in Receivers : s # r => call'[s] = call[s]
  BY <1>1, <1>2 DEF StagingCalls
<1> QED BY <1>3 DEF Resumed

\* No step gives a variable what is not of its kind.
LEMMA StagingTypesKept ==
    ASSUME StagingTypes, SweepsSweep, StagingNext
    PROVE  StagingTypes'
<1> USE DEF StagingTypes, At, Goto
<1>c. MaxClock \in Nat /\ MarkerMaxAge \in Nat /\ MaxCrashes \in Nat /\ now \in 0..MaxClock
  BY StagingConstants
<1>0. ASSUME NEW r \in Receivers, NEW c \in StagingCalls, call' = [call EXCEPT ![r] = c],
             UNCHANGED <<lockDir, partial, marker, sidecar, owns, running, now, crashes>>
      PROVE  StagingTypes'
  BY <1>0
\* A call goes from one place to another.
<1>g. \A r \in Receivers, w \in StagingPlaces : Goto(r, w) => call' \in [Receivers -> StagingCalls]
  <2> TAKE r \in Receivers, w \in StagingPlaces
  <2>1. [call[r] EXCEPT !.at = w] \in StagingCalls
    BY DEF StagingCalls
  <2> QED BY <2>1
<1>i. Idle \in StagingCalls
  BY DEF Idle, StagingCalls, StagingPlaces, Kinds
<1>a. ASSUME NEW r \in Receivers, Call(r) PROVE StagingTypes'
  <2>1. PICK op \in StagingOps, p \in PartNames :
             call' = [call EXCEPT ![r] = [at |-> "mkdir", op |-> op, part |-> {p}, kind |-> "part", todo |-> {}, round |-> 0]]
    BY <1>a DEF Call
  <2>2. [at |-> "mkdir", op |-> op, part |-> {p}, kind |-> "part", todo |-> {}, round |-> 0] \in StagingCalls
    BY DEF StagingCalls, StagingPlaces, Kinds
  <2> QED BY <1>0, <1>a, <2>1, <2>2 DEF Call
<1>b. ASSUME NEW r \in Receivers, LockMkdir(r) \/ LockHeartbeat(r) \/ LockJudge(r) \/ LockReclaim(r) \/ LockTimeout(r) \/ Unlock(r)
      PROVE  StagingTypes'
  <2>1. call' \in [Receivers -> StagingCalls]
    BY <1>b, <1>g, <1>i DEF LockMkdir, LockHeartbeat, LockJudge, LockReclaim, LockTimeout, Unlock, StagingPlaces, UnderLock
  <2>2. [pid |-> {}, old |-> FALSE] \in Locks /\ [pid |-> {r}, old |-> FALSE] \in Locks
    BY DEF Locks
  <2>3. lockDir' \in {lockDir, {}, {[pid |-> {}, old |-> FALSE]}, {[pid |-> {r}, old |-> FALSE]}}
    BY <1>b DEF LockMkdir, LockHeartbeat, LockJudge, LockReclaim, LockTimeout, Unlock
  <2>4. lockDir' \subseteq Locks /\ \A k, l \in lockDir' : k = l
    BY <2>2, <2>3
  <2> QED BY <1>b, <2>1, <2>4 DEF LockMkdir, LockHeartbeat, LockJudge, LockReclaim, LockTimeout, Unlock
<1>d. ASSUME NEW r \in Receivers, AcquireMarker(r) PROVE StagingTypes'
  <2>1. call' \in [Receivers -> StagingCalls]
    BY <1>d, <1>g DEF AcquireMarker, StagingPlaces, UnderLock
  <2>2. PICK p \in call[r].part : (marker' = marker /\ owns' = owns)
             \/ (marker' = [marker EXCEPT ![p] = {[by |-> r, touched |-> now]}] /\ owns' = [owns EXCEPT ![r] = {p}])
    BY <1>d DEF AcquireMarker
  <2>3. p \in PartNames /\ [by |-> r, touched |-> now] \in Markers
    BY <2>2 DEF StagingCalls, Markers
  <2> QED BY <1>d, <2>1, <2>2, <2>3 DEF AcquireMarker
<1>e. ASSUME NEW r \in Receivers, RemoveStaleMarker(r) PROVE StagingTypes'
  <2>1. call' \in [Receivers -> StagingCalls]
    BY <1>e DEF RemoveStaleMarker, StagingCalls, StagingPlaces, UnderLock
  <2> QED BY <1>e, <2>1 DEF RemoveStaleMarker
<1>f. ASSUME NEW r \in Receivers, TouchMarker(r) \/ ReleaseMarker(r) PROVE StagingTypes'
  <2>1. call' \in [Receivers -> StagingCalls]
    BY <1>f, <1>g DEF TouchMarker, ReleaseMarker, StagingPlaces, UnderLock
  <2>2. \A p \in PartNames : {[m EXCEPT !.touched = now] : m \in marker[p]} \subseteq Markers
    BY DEF Markers
  <2>3. marker' \in [PartNames -> SUBSET Markers]
    BY <1>f, <2>2 DEF TouchMarker, ReleaseMarker
  <2>4. owns' \in [Receivers -> SUBSET PartNames]
    BY <1>f DEF TouchMarker, ReleaseMarker
  <2> QED BY <1>f, <2>1, <2>3, <2>4 DEF TouchMarker, ReleaseMarker
<1>h. ASSUME NEW r \in Receivers, WritePartial(r) \/ PublishPartial(r) PROVE StagingTypes'
  BY <1>h, <1>c DEF WritePartial, PublishPartial
<1>j. ASSUME NEW r \in Receivers, ListPartials(r) \/ SweepLook(r) \/ BudgetLook(r) \/ SweepLegacy(r) PROVE StagingTypes'
  <2>0. Cardinality(Candidates) \in Int
    BY CandidatesCount
  <2>e. /\ PrivateEntries \subseteq Kinds \X PartNames /\ LegacyEntries \subseteq Kinds \X PartNames
        /\ Candidates \subseteq Kinds \X PartNames
    BY StagingConstants DEF PrivateEntries, LegacyEntries, Candidates, Kinds
  <2>c. call[r] \in StagingCalls /\ call[r].round \in Int /\ call[r].todo \subseteq Kinds \X PartNames
    BY DEF StagingCalls
  <2>1. call' \in [Receivers -> StagingCalls]
    <3>1. CASE ListPartials(r) \/ SweepLegacy(r)
      <4>1. PICK w \in {"sweep", "budget", "legacy"}, todo \in SUBSET (Kinds \X PartNames), round \in Int :
                 call' = [call EXCEPT ![r] = [call[r] EXCEPT !.at = w, !.todo = todo, !.round = round]]
        <5>1. CASE SweepLegacy(r)
          <6>1. call' = [call EXCEPT ![r] = [call[r] EXCEPT !.at = "legacy", !.todo = LegacyEntries, !.round = call[r].round]]
            BY <2>c, <5>1 DEF SweepLegacy, StagingCalls
          <6> QED BY <2>c, <2>e, <6>1
        <5>2. CASE ListPartials(r) /\ call[r].op = "sweep"
          <6>1. call' = [call EXCEPT ![r] = [call[r] EXCEPT !.at = "sweep", !.todo = PrivateEntries, !.round = call[r].round]]
            BY <2>c, <5>2 DEF ListPartials, StagingCalls
          <6> QED BY <2>c, <2>e, <6>1
        <5>3. CASE ListPartials(r) /\ call[r].op # "sweep"
          <6>1. call' = [call EXCEPT ![r] = [call[r] EXCEPT !.at = "budget", !.todo = Candidates, !.round = Cardinality(Candidates)]]
            BY <2>c, <5>3 DEF ListPartials, StagingCalls
          <6> QED BY <2>0, <2>e, <6>1
        <5> QED BY <3>1, <5>1, <5>2, <5>3
      <4>2. [call[r] EXCEPT !.at = w, !.todo = todo, !.round = round] \in StagingCalls
        BY <2>c DEF StagingCalls, StagingPlaces, UnderLock
      <4> QED BY <4>1, <4>2
    <3>2. CASE SweepLook(r) \/ BudgetLook(r)
      <4>1. PICK e \in call[r].todo, w \in {"remove", call[r].at} :
                 call' = [call EXCEPT ![r] = [call[r] EXCEPT !.todo = @ \ {e}, !.kind = e[1], !.part = {e[2]}, !.at = w]]
        BY <2>c, <3>2, LooksAt
      <4>2. e[1] \in Kinds /\ e[2] \in PartNames /\ w \in StagingPlaces
        BY <2>c, <4>1 DEF StagingCalls, StagingPlaces, UnderLock
      <4>3. [call[r] EXCEPT !.todo = @ \ {e}, !.kind = e[1], !.part = {e[2]}, !.at = w] \in StagingCalls
        BY <2>c, <4>2 DEF StagingCalls
      <4> QED BY <4>1, <4>3
    <3> QED BY <1>j, <3>1, <3>2
  <2> QED BY <1>j, <2>1 DEF ListPartials, SweepLook, BudgetLook, SweepLegacy
<1>k. ASSUME NEW r \in Receivers, RemovePartial(r) \/ RemoveRemains(r) \/ EndSweep(r) \/ EndBudget(r) PROVE StagingTypes'
  <2>1. call' \in [Receivers -> StagingCalls]
    <3>2. CASE EndSweep(r) \/ EndBudget(r)
      BY <1>g, <3>2 DEF EndSweep, EndBudget, StagingPlaces, UnderLock
    <3>3. CASE RemoveRemains(r)
      <4>1. Resume(call[r]) \in StagingPlaces /\ Goto(r, Resume(call[r]))
        BY <3>3 DEF RemoveRemains, Resume, StagingPlaces, UnderLock
      <4> HIDE DEF Goto
      <4> QED BY <1>g, <4>1
    <3>4. CASE RemovePartial(r)
      <4>0. call[r] \in StagingCalls /\ call[r].round \in Int
        BY DEF StagingCalls
      <4>1. PICK w \in {"remains", Resume(call[r])}, n \in {call[r].round, call[r].round - 1} :
                 call' = [call EXCEPT ![r] = [call[r] EXCEPT !.at = w, !.round = n]]
        BY <4>0, <3>4, RemovesOne
      <4>2. w \in StagingPlaces /\ n \in Int
        BY <4>0, <4>1 DEF Resume, StagingPlaces, UnderLock
      <4>3. [call[r] EXCEPT !.at = w, !.round = n] \in StagingCalls
        BY <4>0, <4>2 DEF StagingCalls
      <4> QED BY <4>1, <4>3
    <3> QED BY <1>k, <3>2, <3>3, <3>4
  <2>2. CASE RemovePartial(r)
    BY <2>1, <2>2 DEF RemovePartial
  <2>3. CASE RemoveRemains(r) \/ EndSweep(r) \/ EndBudget(r)
    BY <2>1, <2>3 DEF RemoveRemains, EndSweep, EndBudget
  <2> QED BY <1>k, <2>2, <2>3
<1>l. ASSUME NEW r \in Receivers, Crash(r) PROVE StagingTypes'
  BY <1>l, <1>i, <1>c DEF Crash
<1>m. ASSUME LockAges PROVE StagingTypes'
  <2>1. \A l \in Locks : [l EXCEPT !.old = TRUE] \in Locks
    BY DEF Locks
  <2>2. lockDir' \subseteq Locks /\ \A k, l \in lockDir' : k = l
    BY <1>m, <2>1 DEF LockAges
  <2> QED BY <1>m, <2>2 DEF LockAges
<1>n. ASSUME Tick PROVE StagingTypes'
  BY <1>n, <1>c DEF Tick
<1> QED BY <1>a, <1>b, <1>d, <1>e, <1>f, <1>h, <1>j, <1>k, <1>l, <1>m, <1>n DEF StagingNext

-----------------------------------------------------------------------------
\* A step of one call that leaves the lock alone.
LEMMA LockStays ==
    ASSUME StagingTypes, LockMine, NEW r \in Receivers, UNCHANGED <<lockDir, running>>,
           \A s \in Receivers : s # r => call'[s] = call[s],
           call'[r].at \in UnderLock /\ running[r] => Holds(r) /\ call[r].at # "beat" /\ call'[r].at # "beat"
    PROVE  LockMine'
  BY DEF LockMine, Holds, UnderLock

\* A step that touches neither markers nor the clock, and gives nobody a partial.
LEMMA MarkersStay ==
    ASSUME OwnedMarked, UNCHANGED <<marker, now>>, \A s \in Receivers : owns'[s] \subseteq owns[s]
    PROVE  OwnedMarked'
  BY DEF OwnedMarked, PartIsActive

\* A step of one call that decides on no removal, and gives nobody a partial.
LEMMA RemovalsStay ==
    ASSUME StagingTypes, RemovalsRight, NEW r \in Receivers,
           \A s \in Receivers : owns'[s] \subseteq owns[s] /\ (running'[s] => running[s]),
           \A p \in PartNames : Ours(p) => Ours(p)',
           \A p \in PartNames : partial[p] = {} /\ Unowned(p) => partial'[p] = {},
           \A s \in Receivers : s # r => call'[s] = call[s],
           call'[r] = call[r] \/ call'[r].at \notin {"stale", "remove", "remains", "budget"}
    PROVE  RemovalsRight'
<1>1. \A s \in Receivers : call[s].part \subseteq PartNames /\ \A e \in call[s].todo : e[2] \in PartNames
  BY DEF StagingTypes, StagingCalls
<1>2. \A p : Unowned(p) => Unowned(p)'
  BY DEF Unowned
<1>3. \A s \in Receivers : call'[s] = call[s] \/ call'[s].at \notin {"stale", "remove", "remains", "budget"}
  OBVIOUS
<1>4. \A s \in Receivers : \A e \in call[s].todo : Spare(e) => Spare(e)'
  BY <1>1, <1>2 DEF Spare
<1> HIDE DEF Unowned, Ours, Spare
<1> QED BY <1>1, <1>2, <1>3, <1>4 DEF RemovalsRight, At

\* Where a call is after it went there.
LEMMA Goes ==
    ASSUME StagingTypes, NEW r \in Receivers, NEW w, Goto(r, w)
    PROVE  /\ call'[r] = [call[r] EXCEPT !.at = w] /\ call'[r].at = w /\ call'[r].op = call[r].op
           /\ call'[r].part = call[r].part /\ call'[r].kind = call[r].kind /\ call'[r].todo = call[r].todo
           /\ \A s \in Receivers : s # r => call'[s] = call[s]
  BY DEF StagingTypes, StagingCalls, Goto

\* Only maintenance goes where maintenance goes.
LEMMA SweepsKept ==
    ASSUME StagingTypes, SweepsSweep, StagingNext
    PROVE  SweepsSweep'
<1>0. ASSUME NEW r \in Receivers, \A s \in Receivers : s # r => call'[s] = call[s],
             Ordered(call'[r])
      PROVE  SweepsSweep'
  BY <1>0 DEF SweepsSweep
\* A call that goes on in its pass, or on to something else.
<1>1. ASSUME NEW r \in Receivers, NEW w, Goto(r, w), w \notin {"sweep", "legacy", "budget", "remove", "remains"} \/ w = Resume(call[r]),
             w = Resume(call[r]) => call[r].op \in {"sweep", "budget"}
      PROVE  SweepsSweep'
  <2>1. /\ call'[r].at = w /\ call'[r].op = call[r].op /\ call'[r].part = call[r].part
        /\ call'[r].kind = call[r].kind /\ call'[r].todo = call[r].todo /\ \A s \in Receivers : s # r => call'[s] = call[s]
    BY <1>1, Goes
  <2>2. Ordered(call'[r])
    BY <1>1, <2>1 DEF SweepsSweep, Ordered, Resume
  <2> QED BY <1>0, <2>1, <2>2
<1>2. ASSUME call' = call PROVE SweepsSweep'
  BY <1>2 DEF SweepsSweep
<1>t. call \in [Receivers -> StagingCalls]
  BY DEF StagingTypes
<1>i. Ordered(Idle)
  BY DEF Idle, Ordered
<1>a. ASSUME NEW r \in Receivers, Call(r) PROVE SweepsSweep'
  <2>0. PICK op \in StagingOps, p \in PartNames :
             call' = [call EXCEPT ![r] = [at |-> "mkdir", op |-> op, part |-> {p}, kind |-> "part", todo |-> {}, round |-> 0]]
    BY <1>a DEF Call
  <2>1. call'[r].part = {p} /\ call'[r].at = "mkdir" /\ call'[r].kind = "part" /\ call'[r].todo = {} /\ \A s \in Receivers : s # r => call'[s] = call[s]
    BY <1>t, <2>0
  <2>2. Ordered(call'[r])
    BY <2>1 DEF Ordered
  <2> QED BY <1>0, <2>1, <2>2
<1>b. ASSUME NEW r \in Receivers, LockMkdir(r) \/ LockHeartbeat(r) \/ LockJudge(r) \/ LockReclaim(r)
             \/ AcquireMarker(r) \/ TouchMarker(r) \/ ReleaseMarker(r) \/ EndSweep(r) \/ EndBudget(r)
      PROVE SweepsSweep'
  <2>1. PICK w \in {"beat", "locked", "reclaim", "mkdir", "unlock", "stale"} : Goto(r, w)
    BY <1>b, Zenon DEF LockMkdir, LockHeartbeat, LockJudge, LockReclaim, AcquireMarker, TouchMarker, ReleaseMarker, EndSweep, EndBudget
  <2> QED BY <1>1, <2>1 DEF Resume
<1>c. ASSUME NEW r \in Receivers, LockTimeout(r) \/ Unlock(r) \/ Crash(r) PROVE SweepsSweep'
  BY <1>c, <1>0, <1>t, <1>i DEF LockTimeout, Unlock, Crash
<1>d. ASSUME NEW r \in Receivers, RemoveStaleMarker(r) PROVE SweepsSweep'
  <2>1. /\ call'[r].at \in {"locked", "unlock"} /\ call'[r].part = call[r].part /\ call'[r].kind = call[r].kind
        /\ call'[r].todo = call[r].todo /\ \A s \in Receivers : s # r => call'[s] = call[s]
    BY <1>d, <1>t DEF RemoveStaleMarker, StagingCalls
  <2>2. Ordered(call'[r])
    BY <2>1 DEF Ordered, SweepsSweep
  <2> QED BY <1>0, <2>1, <2>2
<1>e. ASSUME NEW r \in Receivers, ListPartials(r) \/ SweepLegacy(r) PROVE SweepsSweep'
  <2>1. \A e \in PrivateEntries \cup LegacyEntries \cup Candidates : e[1] # "part" => e[2] \notin LegacyParts
    BY DEF PrivateEntries, LegacyEntries, Candidates
  <2>2. /\ \A s \in Receivers : s # r => call'[s] = call[s]
        /\ call'[r].op = call[r].op /\ call'[r].part = call[r].part /\ call'[r].kind = call[r].kind
        /\ \/ call[r].op = "sweep" /\ call'[r].at \in {"sweep", "legacy"} /\ call'[r].todo \in {PrivateEntries, LegacyEntries}
           \/ call[r].op = "budget" /\ call'[r].at = "budget" /\ call'[r].todo = Candidates
    <3>1. CASE ListPartials(r)
      BY <1>t, <3>1 DEF ListPartials, StagingCalls
    <3>2. CASE SweepLegacy(r)
      BY <1>t, <3>2 DEF SweepLegacy, StagingCalls, SweepsSweep, Ordered, At
    <3> QED BY <1>e, <3>1, <3>2
  <2>3. Ordered(call'[r])
    BY <2>1, <2>2 DEF SweepsSweep, Ordered
  <2> QED BY <1>0, <2>2, <2>3
<1>h. ASSUME NEW r \in Receivers, SweepLook(r) \/ BudgetLook(r) PROVE SweepsSweep'
  <2>1. PICK e \in call[r].todo, w \in {"remove", call[r].at} :
             call' = [call EXCEPT ![r] = [call[r] EXCEPT !.todo = @ \ {e}, !.kind = e[1], !.part = {e[2]}, !.at = w]]
    BY <1>h, <1>t, LooksAt
  <2>2. /\ call'[r].at = w /\ call'[r].op = call[r].op /\ call'[r].part = {e[2]} /\ call'[r].kind = e[1]
        /\ call'[r].todo \subseteq call[r].todo /\ \A s \in Receivers : s # r => call'[s] = call[s]
    BY <1>t, <2>1 DEF StagingCalls
  <2>3. call[r].at \in {"sweep", "legacy", "budget"}
    BY <1>h DEF SweepLook, BudgetLook, At
  <2>4. Ordered(call'[r])
    BY <2>2, <2>3 DEF SweepsSweep, Ordered
  <2> QED BY <1>0, <2>2, <2>4
<1>f. ASSUME NEW r \in Receivers, RemovePartial(r) \/ RemoveRemains(r) PROVE SweepsSweep'
  <2>1. PICK w \in {"remains", Resume(call[r])} :
             /\ call'[r].at = w /\ call'[r].op = call[r].op /\ call'[r].part = call[r].part /\ call'[r].kind = call[r].kind
             /\ call'[r].todo = call[r].todo /\ \A s \in Receivers : s # r => call'[s] = call[s]
    <3>1. CASE RemovePartial(r)
      BY <1>t, <3>1, AfterRemoval
    <3>2. CASE RemoveRemains(r)
      BY <3>2, Goes DEF RemoveRemains
    <3> QED BY <1>f, <3>1, <3>2
  <2>2. call[r].op \in {"sweep", "budget"}
    BY <1>f DEF RemovePartial, RemoveRemains, SweepsSweep, Ordered, At
  <2>3. Ordered(call'[r])
    BY <2>1, <2>2 DEF SweepsSweep, Ordered, Resume
  <2> QED BY <1>0, <2>1, <2>3
<1>g. ASSUME (\E r \in Receivers : WritePartial(r) \/ PublishPartial(r)) \/ LockAges \/ Tick PROVE SweepsSweep'
  BY <1>g, <1>2 DEF WritePartial, PublishPartial, LockAges, Tick
<1> QED BY <1>a, <1>b, <1>c, <1>d, <1>e, <1>f, <1>g, <1>h DEF StagingNext

\* A lock is kept by who made it, whatever the others do: whoever takes one away
\* is the only one left.
LEMMA LockKeptByAll ==
    ASSUME StagingTypes, SweepsSweep, LockMine, ReclaimsDead, StagingNext
    PROVE  LockMine'
<1> USE DEF At
<1>t. call \in [Receivers -> StagingCalls] /\ running \in [Receivers -> BOOLEAN]
  BY DEF StagingTypes
<1>i. Idle.at = "idle"
  BY DEF Idle
<1>1. ASSUME NEW r \in Receivers, NEW w, Goto(r, w), UNCHANGED <<lockDir, running>>,
             w \in UnderLock => At(r, call[r].at) /\ call[r].at \in UnderLock \ {"beat"} /\ w # "beat"
      PROVE  LockMine'
  <2>1. call'[r].at = w /\ \A s \in Receivers : s # r => call'[s] = call[s]
    BY <1>1, Goes
  <2>2. w \in UnderLock => Holds(r)
    BY <1>1 DEF Holds, UnderLock
  <2> QED BY <1>1, <2>1, <2>2, LockStays
<1>a. ASSUME NEW r \in Receivers, Call(r) PROVE LockMine'
  <2>1. call'[r].at = "mkdir" /\ \A s \in Receivers : s # r => call'[s] = call[s]
    BY <1>a, <1>t DEF Call
  <2> QED BY <1>a, <2>1, LockStays DEF Call, UnderLock
<1>b. ASSUME NEW r \in Receivers, LockMkdir(r) PROVE LockMine'
  <2>1. \A s \in Receivers : ~ Holds(s)
    BY <1>b DEF LockMkdir, LockMine
  <2>2. call'[r].at = "beat" /\ \A s \in Receivers : s # r => call'[s] = call[s]
    BY <1>b, Goes DEF LockMkdir
  <2>3. \A s \in Receivers : Holds(s)' => s = r
    BY <1>b, <2>1, <2>2 DEF Holds, LockMkdir
  <2>4. lockDir' = {[pid |-> {}, old |-> FALSE]}
    BY <1>b DEF LockMkdir
  <2>5. \A l \in lockDir' : l.pid = {} /\ ~ l.old
    BY <2>4
  <2> QED BY <2>2, <2>3, <2>4, <2>5 DEF LockMine
<1>c. ASSUME NEW r \in Receivers, LockHeartbeat(r) PROVE LockMine'
  <2>1. Holds(r) /\ lockDir # {} /\ \A s \in Receivers : Holds(s) => s = r
    BY <1>c DEF LockHeartbeat, LockMine, Holds
  <2>2. call'[r].at = "locked" /\ \A s \in Receivers : s # r => call'[s] = call[s]
    BY <1>c, Goes DEF LockHeartbeat
  <2>3. \A s \in Receivers : Holds(s)' => s = r
    BY <1>c, <2>1, <2>2 DEF Holds, LockHeartbeat
  <2>4. lockDir' = {[pid |-> {r}, old |-> FALSE]}
    BY <1>c, <2>1 DEF LockHeartbeat
  <2>5. \A l \in lockDir' : l.pid = {r}
    BY <2>4
  <2> QED BY <2>2, <2>3, <2>4, <2>5 DEF LockMine
<1>d. ASSUME NEW r \in Receivers, LockJudge(r) \/ TouchMarker(r) \/ ReleaseMarker(r) \/ AcquireMarker(r) \/ EndSweep(r) \/ EndBudget(r)
      PROVE LockMine'
  <2>1. UNCHANGED <<lockDir, running>> /\ \E w \in {"reclaim", "unlock", "stale"} : Goto(r, w) /\ (w # "reclaim" => call[r].at \in UnderLock \ {"beat"} /\ running[r])
    <3>1. CASE LockJudge(r)
      BY <3>1 DEF LockJudge
    <3>2. CASE TouchMarker(r) \/ ReleaseMarker(r)
      BY <3>2 DEF TouchMarker, ReleaseMarker, UnderLock
    <3>3. CASE AcquireMarker(r)
      <4>1. \E w \in {"unlock", "stale"} : Goto(r, w)
        BY <3>3, Zenon DEF AcquireMarker
      <4> QED BY <3>3, <4>1 DEF AcquireMarker, UnderLock
    <3>4. CASE EndSweep(r) \/ EndBudget(r)
      BY <3>4 DEF EndSweep, EndBudget, UnderLock
    <3> QED BY <1>d, <3>1, <3>2, <3>3, <3>4
  <2> QED BY <1>1, <2>1 DEF UnderLock
<1>e. ASSUME NEW r \in Receivers, LockReclaim(r) PROVE LockMine'
  <2>1. \A s \in Receivers : ~ Holds(s)
    BY <1>e DEF ReclaimsDead, LockReclaim, Holds
  <2>2. call'[r].at = "mkdir" /\ \A s \in Receivers : s # r => call'[s] = call[s]
    BY <1>e, Goes DEF LockReclaim
  <2>3. \A s \in Receivers : ~ Holds(s)'
    BY <1>e, <2>1, <2>2 DEF Holds, LockReclaim
  <2> QED BY <2>3 DEF LockMine
<1>f. ASSUME NEW r \in Receivers, Unlock(r) PROVE LockMine'
  <2>1. \A s \in Receivers : Holds(s) => s = r
    BY <1>f DEF Unlock, LockMine, Holds
  <2>2. \A s \in Receivers : ~ Holds(s)'
    BY <1>f, <1>t, <1>i, <2>1 DEF Holds, Unlock
  <2> QED BY <2>2 DEF LockMine
<1>g. ASSUME NEW r \in Receivers, LockTimeout(r) PROVE LockMine'
  <2>1. call'[r].at = "idle" /\ \A s \in Receivers : s # r => call'[s] = call[s]
    BY <1>g, <1>t, <1>i DEF LockTimeout
  <2> QED BY <1>g, <2>1, LockStays DEF LockTimeout, UnderLock
<1>h. ASSUME NEW r \in Receivers, Crash(r) PROVE LockMine'
  <2>1. \A s \in Receivers : Holds(s)' => Holds(s) /\ call'[s] = call[s]
    BY <1>h, <1>t, <1>i DEF Holds, Crash
  <2> QED BY <1>h, <2>1 DEF LockMine, Crash
<1>j. ASSUME NEW r \in Receivers, RemoveStaleMarker(r) \/ ListPartials(r) \/ SweepLook(r) \/ BudgetLook(r) \/ RemovePartial(r)
             \/ RemoveRemains(r) \/ SweepLegacy(r)
      PROVE LockMine'
  <2>1. /\ UNCHANGED <<lockDir, running>> /\ \A s \in Receivers : s # r => call'[s] = call[s]
        /\ running[r] /\ call[r].at \in UnderLock \ {"beat"} /\ call'[r].at # "beat"
    <3>1. CASE RemoveStaleMarker(r)
      BY <1>t, <3>1 DEF RemoveStaleMarker, StagingCalls, UnderLock
    <3>2. CASE ListPartials(r)
      BY <1>t, <3>2 DEF ListPartials, StagingCalls, UnderLock
    <3>3. CASE SweepLook(r) \/ BudgetLook(r)
      <4>1. PICK e \in call[r].todo, w \in {"remove", call[r].at} :
                 call' = [call EXCEPT ![r] = [call[r] EXCEPT !.todo = @ \ {e}, !.kind = e[1], !.part = {e[2]}, !.at = w]]
        BY <1>t, <3>3, LooksAt
      <4>2. call'[r].at \in {"remove", call[r].at} /\ \A s \in Receivers : s # r => call'[s] = call[s]
        BY <1>t, <4>1 DEF StagingCalls
      <4> QED BY <3>3, <4>2 DEF SweepLook, BudgetLook, UnderLock
    <3>4. CASE RemovePartial(r)
      <4>1. call'[r].at \in {"remains", Resume(call[r])} /\ \A s \in Receivers : s # r => call'[s] = call[s]
        BY <1>t, <3>4, AfterRemoval
      <4> QED BY <3>4, <4>1 DEF RemovePartial, Resume, UnderLock
    <3>5. CASE RemoveRemains(r)
      <4>1. Goto(r, Resume(call[r])) /\ UNCHANGED <<lockDir, running>> /\ At(r, "remains")
        BY <3>5 DEF RemoveRemains
      <4>2. call'[r].at = Resume(call[r]) /\ \A s \in Receivers : s # r => call'[s] = call[s]
        BY <4>1, Goes
      <4> QED BY <4>1, <4>2 DEF Resume, UnderLock
    <3>6. CASE SweepLegacy(r)
      BY <1>t, <3>6 DEF SweepLegacy, StagingCalls, UnderLock
    <3> QED BY <1>j, <3>1, <3>2, <3>3, <3>4, <3>5, <3>6
  <2>2. Holds(r)
    BY <2>1 DEF Holds, UnderLock
  <2> QED BY <2>1, <2>2, LockStays
<1>k. ASSUME NEW r \in Receivers, WritePartial(r) \/ PublishPartial(r) PROVE LockMine'
  BY <1>k DEF WritePartial, PublishPartial, LockMine, Holds
<1>l. ASSUME LockAges PROVE LockMine'
  <2>1. \A r \in Receivers : Holds(r)' = Holds(r) /\ (Holds(r) => call[r].at # "beat")
    BY <1>l DEF LockAges, Holds
  <2>2. \A l \in lockDir' : \E k \in lockDir : l.pid = k.pid
    BY <1>l DEF LockAges, StagingTypes, Locks
  <2>3. lockDir # {} => lockDir' # {}
    BY <1>l DEF LockAges
  <2> QED BY <1>l, <2>1, <2>2, <2>3 DEF LockMine, LockAges
<1>m. ASSUME Tick PROVE LockMine'
  BY <1>m DEF Tick, LockMine, Holds
<1> QED BY <1>a, <1>b, <1>c, <1>d, <1>e, <1>f, <1>g, <1>h, <1>j, <1>k, <1>l, <1>m DEF StagingNext

\* Of two processes, the one that finds a lock abandoned is the one that lives.
LEMMA ReclaimsKept ==
    ASSUME StagingTypes, LockMine, ReclaimsDead, TwoReceivers, StagingNext
    PROVE  ReclaimsDead'
<1> USE DEF At
<1>t. call \in [Receivers -> StagingCalls] /\ running \in [Receivers -> BOOLEAN]
  BY DEF StagingTypes
<1>i. Idle.at = "idle"
  BY DEF Idle
\* A step of one call that is not about to take a lock away, with the lock as it was.
<1>1. ASSUME NEW r \in Receivers, UNCHANGED <<lockDir, running>>, \A s \in Receivers : s # r => call'[s] = call[s],
             call[r].at # "beat", call'[r].at # "reclaim"
      PROVE  ReclaimsDead'
  BY <1>1 DEF ReclaimsDead
<1>2. ASSUME NEW r \in Receivers, NEW w, Goto(r, w), UNCHANGED <<lockDir, running>>, call[r].at # "beat", w # "reclaim"
      PROVE  ReclaimsDead'
  <2>1. call'[r].at = w /\ \A s \in Receivers : s # r => call'[s] = call[s]
    BY <1>2, Goes
  <2> QED BY <1>1, <1>2, <2>1
<1>a. ASSUME NEW r \in Receivers, Call(r) \/ LockTimeout(r) PROVE ReclaimsDead'
  <2>1. call'[r].at \in {"mkdir", "idle"} /\ \A s \in Receivers : s # r => call'[s] = call[s]
    BY <1>a, <1>i, <1>t DEF Call, LockTimeout
  <2> QED BY <1>1, <1>a, <2>1 DEF Call, LockTimeout
<1>b. ASSUME NEW r \in Receivers, LockMkdir(r) PROVE ReclaimsDead'
  <2>1. call'[r].at = "beat" /\ running' = running /\ running[r] /\ \A s \in Receivers : s # r => call'[s] = call[s]
    BY <1>b, Goes DEF LockMkdir
  <2> QED BY <2>1 DEF ReclaimsDead
<1>c. ASSUME NEW r \in Receivers, LockHeartbeat(r) PROVE ReclaimsDead'
  <2>1. call'[r].at = "locked" /\ running' = running /\ \A s \in Receivers : s # r => call'[s] = call[s]
    BY <1>c, Goes DEF LockHeartbeat
  <2>2. \A l \in lockDir' : l.pid = {r}
    BY <1>c DEF LockHeartbeat
  <2> QED BY <2>1, <2>2 DEF ReclaimsDead
<1>d. ASSUME NEW r \in Receivers, LockJudge(r) PROVE ReclaimsDead'
  <2>1. call'[r].at = "reclaim" /\ UNCHANGED <<lockDir, running>> /\ \A s \in Receivers : s # r => call'[s] = call[s]
    BY <1>d, Goes DEF LockJudge
  <2>2. PICK l \in lockDir : Abandoned(l)
    BY <1>d DEF LockJudge
  <2>3. \E s \in Receivers : ~running[s]
    <3>1. CASE l.pid = {}
      <4>1. PICK s \in Receivers : (At(s, "beat") /\ running[s]) \/ ~running[s]
        BY <2>2, <3>1 DEF ReclaimsDead
      <4>2. ~(At(s, "beat") /\ running[s])
        BY <2>2 DEF Abandoned, LockMine, Holds
      <4> QED BY <4>1, <4>2
    <3>2. CASE l.pid # {}
      BY <2>2, <3>2 DEF Abandoned, StagingTypes, Locks
    <3> QED BY <3>1, <3>2
  <2>4. \A s \in Receivers \ {r} : ~running[s]
    BY <1>d, <2>3 DEF TwoReceivers, LockJudge
  <2> QED BY <1>d, <2>1, <2>4 DEF ReclaimsDead, LockJudge
<1>e. ASSUME NEW r \in Receivers, LockReclaim(r) \/ Unlock(r) PROVE ReclaimsDead'
  <2>1. call'[r].at \in {"mkdir", "idle"} /\ \A s \in Receivers : s # r => call'[s] = call[s]
    BY <1>e, <1>i, <1>t, Goes DEF LockReclaim, Unlock
  <2> QED BY <1>e, <2>1 DEF ReclaimsDead, LockReclaim, Unlock
<1>f. ASSUME NEW r \in Receivers, TouchMarker(r) \/ ReleaseMarker(r) \/ AcquireMarker(r) \/ EndSweep(r) \/ EndBudget(r)
      PROVE ReclaimsDead'
  <2>1. \E w \in {"unlock", "stale"} : Goto(r, w)
    BY <1>f, Zenon DEF TouchMarker, ReleaseMarker, AcquireMarker, EndSweep, EndBudget
  <2>2. UNCHANGED <<lockDir, running>> /\ call[r].at # "beat"
    BY <1>f DEF TouchMarker, ReleaseMarker, AcquireMarker, EndSweep, EndBudget
  <2> QED BY <1>2, <2>1, <2>2
<1>g. ASSUME NEW r \in Receivers, RemoveStaleMarker(r) \/ ListPartials(r) \/ SweepLegacy(r) PROVE ReclaimsDead'
  <2>1. \A s \in Receivers : s # r => call'[s] = call[s]
    BY <1>g, <1>t DEF RemoveStaleMarker, ListPartials, SweepLegacy
  <2>2. call'[r].at \in {"locked", "unlock", "sweep", "legacy", "budget"}
    <3>1. CASE RemoveStaleMarker(r)
      BY <1>t, <3>1 DEF RemoveStaleMarker, StagingCalls
    <3>2. CASE ListPartials(r)
      BY <1>t, <3>2 DEF ListPartials, StagingCalls
    <3>3. CASE SweepLegacy(r)
      BY <1>t, <3>3 DEF SweepLegacy, StagingCalls
    <3> QED BY <1>g, <3>1, <3>2, <3>3
  <2>3. UNCHANGED <<lockDir, running>> /\ call[r].at # "beat"
    BY <1>g DEF RemoveStaleMarker, ListPartials, SweepLegacy
  <2> QED BY <1>1, <2>1, <2>2, <2>3
<1>h. ASSUME NEW r \in Receivers, SweepLook(r) \/ BudgetLook(r) PROVE ReclaimsDead'
  <2>1. PICK e \in call[r].todo, w \in {"remove", call[r].at} :
             call' = [call EXCEPT ![r] = [call[r] EXCEPT !.todo = @ \ {e}, !.kind = e[1], !.part = {e[2]}, !.at = w]]
    BY <1>t, <1>h, LooksAt
  <2>2. call'[r].at \in {"remove", call[r].at} /\ \A s \in Receivers : s # r => call'[s] = call[s]
    BY <1>t, <2>1 DEF StagingCalls
  <2>3. UNCHANGED <<lockDir, running>> /\ call[r].at \in {"sweep", "legacy", "budget"}
    BY <1>h DEF SweepLook, BudgetLook
  <2> QED BY <1>1, <2>2, <2>3
<1>j. ASSUME NEW r \in Receivers, RemovePartial(r) \/ RemoveRemains(r) PROVE ReclaimsDead'
  <2>1. call'[r].at \in {"remains", Resume(call[r])} /\ \A s \in Receivers : s # r => call'[s] = call[s]
    <3>1. CASE RemovePartial(r)
      BY <1>t, <3>1, AfterRemoval
    <3>2. CASE RemoveRemains(r)
      BY <3>2, Goes DEF RemoveRemains
    <3> QED BY <1>j, <3>1, <3>2
  <2>2. UNCHANGED <<lockDir, running>> /\ call[r].at \in {"remove", "remains"}
    BY <1>j DEF RemovePartial, RemoveRemains
  <2> QED BY <1>1, <2>1, <2>2 DEF Resume
<1>k. ASSUME NEW r \in Receivers, Crash(r) PROVE ReclaimsDead'
  <2>1. /\ call'[r].at = "idle" /\ ~running'[r] /\ lockDir' = lockDir
        /\ \A s \in Receivers : s # r => call'[s] = call[s] /\ running'[s] = running[s]
    BY <1>k, <1>i, <1>t DEF Crash
  <2> QED BY <2>1 DEF ReclaimsDead
<1>l. ASSUME LockAges PROVE ReclaimsDead'
  <2>1. \A l \in lockDir' : \E k \in lockDir : l.pid = k.pid
    BY <1>l DEF LockAges, StagingTypes, Locks
  <2> QED BY <1>l, <2>1 DEF ReclaimsDead, LockAges
<1>m. ASSUME Tick \/ \E r \in Receivers : WritePartial(r) \/ PublishPartial(r) PROVE ReclaimsDead'
  <2>1. UNCHANGED <<lockDir, running, call>>
    BY <1>m DEF Tick, WritePartial, PublishPartial
  <2> QED BY <2>1 DEF ReclaimsDead
<1> QED BY <1>a, <1>b, <1>c, <1>d, <1>e, <1>f, <1>g, <1>h, <1>j, <1>k, <1>l, <1>m DEF StagingNext

\* A partial that is received is active, so nothing inactive is received.
LEMMA InactiveUnowned == OwnedMarked => \A p : ~ PartIsActive(p) \/ marker[p] = {} => Unowned(p)
  BY DEF OwnedMarked, Unowned

\* A marker that is old is nobody's.
LEMMA OldUnowned == \A e : OwnedMarked /\ e[1] = "marker" /\ Old(Times(e)) => Unowned(e[2])
<1> SUFFICES ASSUME NEW e, OwnedMarked, e[1] = "marker", Old(Times(e)) PROVE Unowned(e[2])
  OBVIOUS
<1>1. Times(e) = {m.touched : m \in marker[e[2]]}
  BY DEF Times
<1>2. ~ PartIsActive(e[2])
  BY <1>1 DEF Old, Recent, PartIsActive
<1> QED BY <1>2, InactiveUnowned

\* A receiver's marker stays, recent and its own, while it receives.
LEMMA OwnedKept ==
    ASSUME StagingTypes, OwnedMarked, RemovalsRight, StagingNext
    PROVE  OwnedMarked'
<1> USE DEF At
<1>c. MarkerMaxAge \in Nat /\ now \in Int /\ now - now = 0
  BY StagingConstants DEF StagingTypes
<1>t. owns \in [Receivers -> SUBSET PartNames] /\ marker \in [PartNames -> SUBSET Markers]
      /\ \A r \in Receivers : call[r].part \subseteq PartNames
  BY DEF StagingTypes, StagingCalls
\* A marker loses what is not the owner's.
<1>1. ASSUME now' = now, \A s \in Receivers : owns'[s] \subseteq owns[s],
             \A p \in PartNames : marker'[p] = marker[p] \/ \A s \in Receivers : p \notin owns'[s]
      PROVE  OwnedMarked'
  <2> SUFFICES ASSUME NEW s \in Receivers, NEW p \in owns'[s]
               PROVE  (marker[p] # {} /\ PartIsActive(p) /\ \A m \in marker[p] : m.by = s)'
    BY DEF OwnedMarked
  <2>1. p \in owns[s] /\ marker'[p] = marker[p]
    BY <1>1, <1>t
  <2> QED BY <1>1, <2>1 DEF OwnedMarked, PartIsActive
<1>a. ASSUME NEW r \in Receivers, Call(r) \/ LockMkdir(r) \/ LockHeartbeat(r) \/ LockJudge(r) \/ LockReclaim(r) \/ LockTimeout(r)
             \/ Unlock(r) \/ WritePartial(r) \/ PublishPartial(r) \/ ListPartials(r) \/ SweepLook(r) \/ BudgetLook(r)
             \/ SweepLegacy(r) \/ EndSweep(r) \/ EndBudget(r) \/ Crash(r)
      PROVE OwnedMarked'
  <2>1. UNCHANGED <<marker, now>>
    BY <1>a DEF Call, LockMkdir, LockHeartbeat, LockJudge, LockReclaim, LockTimeout, Unlock, WritePartial, PublishPartial,
                ListPartials, SweepLook, BudgetLook, SweepLegacy, EndSweep, EndBudget, Crash
  <2>2. owns' = owns \/ owns' = [owns EXCEPT ![r] = {}]
    BY <1>a DEF Call, LockMkdir, LockHeartbeat, LockJudge, LockReclaim, LockTimeout, Unlock, WritePartial, PublishPartial,
                ListPartials, SweepLook, BudgetLook, SweepLegacy, EndSweep, EndBudget, Crash
  <2>3. \A s \in Receivers : owns'[s] \subseteq owns[s]
    BY <1>t, <2>2
  <2> QED BY <2>1, <2>3, MarkersStay
<1>b. ASSUME NEW r \in Receivers, AcquireMarker(r) PROVE OwnedMarked'
  <2>0. now' = now
    BY <1>b DEF AcquireMarker
  <2>1. CASE UNCHANGED <<marker, owns>>
    BY <2>0, <2>1, MarkersStay
  <2>2. CASE ~ UNCHANGED <<marker, owns>>
    <3>1. PICK p \in call[r].part : /\ marker[p] = {}
                                    /\ marker' = [marker EXCEPT ![p] = {[by |-> r, touched |-> now]}]
                                    /\ owns' = [owns EXCEPT ![r] = {p}]
      BY <1>b, <2>2, Zenon DEF AcquireMarker
    <3>2. p \in PartNames /\ marker'[p] = {[by |-> r, touched |-> now]}
      BY <1>t, <3>1
    <3>3. PartIsActive(p)' /\ marker'[p] # {} /\ \A m \in marker'[p] : m.by = r
      BY <1>c, <2>0, <3>2 DEF PartIsActive
    <3>4. \A s \in Receivers : s # r => owns'[s] = owns[s] /\ p \notin owns[s]
      BY <1>t, <3>1 DEF OwnedMarked
    <3>5. owns'[r] = {p}
      BY <1>t, <3>1
    <3>6. \A q \in PartNames : q # p => marker'[q] = marker[q]
      BY <1>t, <3>1
    <3> SUFFICES ASSUME NEW s \in Receivers, NEW q \in owns'[s]
                 PROVE  (marker[q] # {} /\ PartIsActive(q) /\ \A m \in marker[q] : m.by = s)'
      BY DEF OwnedMarked
    <3>7. CASE s = r
      BY <3>3, <3>5, <3>7
    <3>8. CASE s # r
      <4>1. q \in owns[s] /\ marker'[q] = marker[q]
        BY <1>t, <3>4, <3>6, <3>8
      <4> QED BY <2>0, <4>1 DEF OwnedMarked, PartIsActive
    <3> QED BY <3>7, <3>8
  <2> QED BY <2>1, <2>2
<1>d. ASSUME NEW r \in Receivers, RemoveStaleMarker(r) PROVE OwnedMarked'
  <2>1. PICK p \in call[r].part : marker' = [marker EXCEPT ![p] = {}] /\ UNCHANGED <<owns, now>>
    BY <1>d DEF RemoveStaleMarker
  <2>2. Unowned(p)
    BY <1>d, <2>1 DEF RemoveStaleMarker, RemovalsRight
  <2> QED BY <1>1, <1>t, <2>1, <2>2 DEF Unowned
<1>e. ASSUME NEW r \in Receivers, TouchMarker(r) PROVE OwnedMarked'
  <2>0. now' = now
    BY <1>e DEF TouchMarker
  <2>1. PICK p \in call[r].part :
          \/ marker[p] # {} /\ marker' = [marker EXCEPT ![p] = {[m EXCEPT !.touched = now] : m \in @}] /\ owns' = owns
          \/ marker' = marker /\ owns' = [owns EXCEPT ![r] = {}]
    BY <1>e, Zenon DEF TouchMarker
  <2>2. CASE marker' = marker /\ owns' = [owns EXCEPT ![r] = {}]
    <3>1. \A s \in Receivers : owns'[s] \subseteq owns[s]
      BY <1>t, <2>2
    <3> QED BY <2>0, <2>2, <3>1, MarkersStay
  <2>3. CASE marker[p] # {} /\ marker' = [marker EXCEPT ![p] = {[m EXCEPT !.touched = now] : m \in @}] /\ owns' = owns
    <3>1. p \in PartNames /\ marker'[p] = {[m EXCEPT !.touched = now] : m \in marker[p]}
      BY <1>t, <2>3
    <3>2. \A m \in marker[p] : [m EXCEPT !.touched = now].touched = now /\ [m EXCEPT !.touched = now].by = m.by
      BY <1>t, <3>1 DEF Markers
    <3>3. marker'[p] # {} /\ (\A k \in marker'[p] : k.touched = now /\ \E m \in marker[p] : k.by = m.by)
      BY <2>3, <3>1, <3>2
    <3>4. PartIsActive(p)'
      BY <1>c, <2>0, <3>3 DEF PartIsActive
    <3> SUFFICES ASSUME NEW s \in Receivers, NEW q \in owns[s]
                 PROVE  (marker[q] # {} /\ PartIsActive(q) /\ \A m \in marker[q] : m.by = s)'
      BY <2>3 DEF OwnedMarked
    <3>5. CASE q = p
      BY <3>3, <3>4, <3>5 DEF OwnedMarked
    <3>6. CASE q # p
      <4>1. marker'[q] = marker[q]
        BY <1>t, <2>3, <3>6
      <4> QED BY <2>0, <4>1 DEF OwnedMarked, PartIsActive
    <3> QED BY <3>5, <3>6
  <2> QED BY <2>1, <2>2, <2>3
<1>f. ASSUME NEW r \in Receivers, ReleaseMarker(r) PROVE OwnedMarked'
  <2>1. PICK p \in call[r].part : marker' = [marker EXCEPT ![p] = {m \in @ : m.by # r}]
    BY <1>f DEF ReleaseMarker
  <2>2. now' = now /\ owns' = [owns EXCEPT ![r] = {}]
    BY <1>f DEF ReleaseMarker
  <2>3. \A s \in Receivers : owns'[s] \subseteq owns[s] /\ (s = r => owns'[s] = {})
    BY <1>t, <2>2
  <2>4. ASSUME NEW s \in Receivers, p \in owns'[s] PROVE marker'[p] = marker[p]
    <3>1. s # r /\ \A m \in marker[p] : m.by = s
      BY <2>3, <2>4 DEF OwnedMarked
    <3> QED BY <1>t, <2>1, <3>1
  <2>5. \A q \in PartNames : q # p => marker'[q] = marker[q]
    BY <1>t, <2>1
  <2> QED BY <1>1, <2>2, <2>3, <2>4, <2>5
<1>g. ASSUME NEW r \in Receivers, RemovePartial(r) \/ RemoveRemains(r) PROVE OwnedMarked'
  <2>1. PICK p \in call[r].part : marker' = [marker EXCEPT ![p] = {}] \/ marker' = marker
    BY <1>g DEF RemovePartial, RemoveRemains
  <2>2. Unowned(p) /\ UNCHANGED <<owns, now>>
    BY <1>g, <2>1 DEF RemovePartial, RemoveRemains, RemovalsRight
  <2> QED BY <1>1, <1>t, <2>1, <2>2 DEF Unowned
<1>j. ASSUME LockAges PROVE OwnedMarked'
  BY <1>j, MarkersStay DEF LockAges
<1>k. ASSUME Tick PROVE OwnedMarked'
  <2>1. UNCHANGED <<marker, owns>> /\ now' = now + 1
        /\ \A r \in Receivers : \A p \in owns[r] : \A m \in marker[p] : m.by = r => now - m.touched < MarkerMaxAge
    BY <1>k DEF Tick
  <2> SUFFICES ASSUME NEW s \in Receivers, NEW q \in owns[s]
               PROVE  (marker[q] # {} /\ PartIsActive(q) /\ \A m \in marker[q] : m.by = s)'
    BY <2>1 DEF OwnedMarked
  <2>2. marker[q] # {} /\ (\A m \in marker[q] : m.by = s) /\ q \in PartNames
    BY <1>t DEF OwnedMarked
  <2>3. PICK m \in marker[q] : m.touched \in Int /\ now - m.touched < MarkerMaxAge
    BY <1>t, <2>1, <2>2 DEF Markers
  <2>4. now' - m.touched <= MarkerMaxAge
    BY <1>c, <2>1, <2>3
  <2>5. PartIsActive(q)'
    BY <2>1, <2>3, <2>4 DEF PartIsActive
  <2> QED BY <2>1, <2>2, <2>5
<1> QED BY <1>a, <1>b, <1>d, <1>e, <1>f, <1>g, <1>j, <1>k DEF StagingNext

\* What is about to be removed stays nobody's, and no user's, until it is.
LEMMA RemovalsKept ==
    ASSUME StagingTypes, SweepsSweep, LockMine, OwnedMarked, RemovalsRight, StagingNext
    PROVE  RemovalsRight'
<1> USE DEF At
<1>t. /\ owns \in [Receivers -> SUBSET PartNames] /\ call \in [Receivers -> StagingCalls] /\ running \in [Receivers -> BOOLEAN]
      /\ \A r \in Receivers : call[r].part \subseteq PartNames /\ \A e \in call[r].todo : e[2] \in PartNames
      /\ partial \in [PartNames -> SUBSET (0..MaxClock)] /\ sidecar \in [PartNames -> SUBSET (0..MaxClock)]
  BY DEF StagingTypes, StagingCalls
<1>i. Idle.at = "idle"
  BY DEF Idle
<1>1. ASSUME NEW r \in Receivers, UNCHANGED <<partial, sidecar>>,
             \A s \in Receivers : owns'[s] \subseteq owns[s] /\ (running'[s] => running[s]),
             \A s \in Receivers : s # r => call'[s] = call[s],
             call'[r] = call[r] \/ call'[r].at \notin {"stale", "remove", "remains", "budget"}
      PROVE  RemovalsRight'
  <2>1. /\ \A p \in PartNames : Ours(p) => Ours(p)'
        /\ \A p \in PartNames : partial[p] = {} /\ Unowned(p) => partial'[p] = {}
    BY <1>1 DEF Ours
  <2> QED BY <1>1, <2>1, RemovalsStay
\* A step of the only one who is past the lock.
<1>2. ASSUME NEW r \in Receivers, Holds(r), \A s \in Receivers : s # r => call'[s] = call[s], running' = running,
             /\ call'[r].at \in {"stale", "remove", "remains"} => \A p \in call'[r].part : Unowned(p)'
             /\ call'[r].at = "remove" => \A p \in call'[r].part : Ours(p)'
             /\ call'[r].at = "remains" => \A p \in call'[r].part : p \in LegacyParts => partial'[p] = {}
             /\ call'[r].at \in {"budget", "remove", "remains"} /\ call'[r].op = "budget" => \A e \in call'[r].todo : Spare(e)',
             Ordered(call'[r])
      PROVE  RemovalsRight'
  <2>1. \A s \in Receivers : s # r => ~ (running'[s] /\ call'[s].at \in {"stale", "remove", "remains", "budget"})
    BY <1>2 DEF LockMine, Holds
  <2>2. call'[r].at = "budget" => call'[r].op = "budget"
    BY <1>2 DEF Ordered
  <2>3. \A s \in Receivers : running'[s] /\ call'[s].at \in {"stale", "remove", "remains", "budget"} => s = r
    BY <2>1
  <2> HIDE DEF Unowned, Ours, Spare
  <2> QED BY <1>2, <2>2, <2>3 DEF RemovalsRight
<1>o. \A r \in Receivers : Ordered(call'[r])
  BY SweepsKept DEF SweepsSweep
<1>a. ASSUME NEW r \in Receivers, Call(r) \/ LockTimeout(r) \/ Unlock(r) \/ Crash(r) PROVE RemovalsRight'
  <2>1. call'[r].at \in {"mkdir", "idle"} /\ \A s \in Receivers : s # r => call'[s] = call[s]
    BY <1>a, <1>t, <1>i DEF Call, LockTimeout, Unlock, Crash
  <2>2. \A s \in Receivers : owns'[s] \subseteq owns[s] /\ (running'[s] => running[s])
    BY <1>a, <1>t DEF Call, LockTimeout, Unlock, Crash
  <2>3. UNCHANGED <<partial, sidecar>>
    BY <1>a DEF Call, LockTimeout, Unlock, Crash
  <2> QED BY <1>1, <2>1, <2>2, <2>3
<1>b. ASSUME NEW r \in Receivers, LockMkdir(r) \/ LockHeartbeat(r) \/ LockJudge(r) \/ LockReclaim(r) \/ TouchMarker(r)
             \/ ReleaseMarker(r) \/ EndSweep(r) \/ EndBudget(r)
      PROVE RemovalsRight'
  <2>1. PICK w \in {"beat", "locked", "reclaim", "mkdir", "unlock"} : Goto(r, w)
    BY <1>b, Zenon DEF LockMkdir, LockHeartbeat, LockJudge, LockReclaim, TouchMarker, ReleaseMarker, EndSweep, EndBudget
  <2>2. call'[r].at = w /\ \A s \in Receivers : s # r => call'[s] = call[s]
    BY <2>1, Goes
  <2>3. \A s \in Receivers : owns'[s] \subseteq owns[s] /\ (running'[s] => running[s])
    BY <1>b, <1>t DEF LockMkdir, LockHeartbeat, LockJudge, LockReclaim, TouchMarker, ReleaseMarker, EndSweep, EndBudget
  <2>4. UNCHANGED <<partial, sidecar>>
    BY <1>b DEF LockMkdir, LockHeartbeat, LockJudge, LockReclaim, TouchMarker, ReleaseMarker, EndSweep, EndBudget
  <2> QED BY <1>1, <2>2, <2>3, <2>4
<1>c. ASSUME NEW r \in Receivers, AcquireMarker(r) PROVE RemovalsRight'
  <2>1. Holds(r) /\ running' = running
    BY <1>c DEF AcquireMarker, Holds
  <2>2. \/ Goto(r, "unlock")
        \/ Goto(r, "stale") /\ owns' = owns /\ \E p \in call[r].part : ~ PartIsActive(p)
    BY <1>c, Zenon DEF AcquireMarker
  <2>3. CASE Goto(r, "unlock")
    <3>1. call'[r].at = "unlock" /\ \A s \in Receivers : s # r => call'[s] = call[s]
      BY <2>3, Goes
    <3> QED BY <1>2, <1>o, <2>1, <3>1
  <2>4. CASE Goto(r, "stale") /\ owns' = owns /\ \E p \in call[r].part : ~ PartIsActive(p)
    <3>1. call'[r].at = "stale" /\ call'[r].part = call[r].part /\ \A s \in Receivers : s # r => call'[s] = call[s]
      BY <2>4, Goes
    <3>2. \A p \in call[r].part : Unowned(p)
      BY <2>4, InactiveUnowned DEF SweepsSweep, Ordered
    <3>3. \A p \in call'[r].part : Unowned(p)'
      BY <2>4, <3>1, <3>2 DEF Unowned
    <3> QED BY <1>2, <1>o, <2>1, <3>1, <3>3
  <2> QED BY <2>2, <2>3, <2>4
<1>d. ASSUME NEW r \in Receivers, RemoveStaleMarker(r) PROVE RemovalsRight'
  <2>1. call'[r].at \in {"locked", "unlock"} /\ \A s \in Receivers : s # r => call'[s] = call[s]
    BY <1>d, <1>t DEF RemoveStaleMarker, StagingCalls
  <2> QED BY <1>1, <1>d, <1>t, <2>1 DEF RemoveStaleMarker
<1>e. ASSUME NEW r \in Receivers, WritePartial(r) \/ PublishPartial(r) PROVE RemovalsRight'
  <2>1. UNCHANGED <<call, owns, running>>
    BY <1>e DEF WritePartial, PublishPartial
  <2>2. PICK p \in PartNames : /\ ~Unowned(p)
                               /\ \/ partial' = [partial EXCEPT ![p] = {now}] /\ sidecar' = [sidecar EXCEPT ![p] = {now}]
                                  \/ partial' = [partial EXCEPT ![p] = {}] /\ sidecar' = [sidecar EXCEPT ![p] = {}]
    BY <1>e, <1>t DEF WritePartial, PublishPartial, Unowned
  <2>3. \A q \in PartNames : Ours(q) => Ours(q)'
    BY <1>t, <2>2 DEF Ours
  <2>4. \A q \in PartNames : partial[q] = {} /\ Unowned(q) => partial'[q] = {}
    BY <1>t, <2>2
  <2> QED BY <1>e, <2>1, <2>3, <2>4, RemovalsStay
<1>f. ASSUME NEW r \in Receivers, ListPartials(r) \/ SweepLegacy(r) PROVE RemovalsRight'
  <2>1. Holds(r) /\ running' = running /\ UNCHANGED <<partial, sidecar, owns>>
    BY <1>f DEF ListPartials, SweepLegacy, Holds
  <2>2. \/ call'[r].at \in {"sweep", "legacy"}
        \/ call'[r].at = "budget" /\ call'[r].todo = Candidates
    <3>1. CASE ListPartials(r)
      BY <3>1, <1>t DEF ListPartials, StagingCalls
    <3>2. CASE SweepLegacy(r)
      BY <3>2, <1>t DEF SweepLegacy, StagingCalls
    <3> QED BY <1>f, <3>1, <3>2
  <2>3. \A s \in Receivers : s # r => call'[s] = call[s]
    BY <1>f, <1>t DEF ListPartials, SweepLegacy
  <2>4. \A e \in Candidates : Spare(e)'
    <3> SUFFICES ASSUME NEW e \in Candidates PROVE Spare(e)'
      OBVIOUS
    <3>1. CASE e[1] = "part"
      BY <2>1, <3>1 DEF Candidates, Removable, Ours, Spare
    <3>2. CASE e[1] # "part"
      <4>1. e[2] \notin LegacyParts /\ e[1] = "marker" /\ Old(Times(e)) /\ e[2] \in PartNames
        BY <3>2 DEF Candidates
      <4>2. Unowned(e[2])
        BY <4>1, OldUnowned
      <4> QED BY <2>1, <3>2, <4>1, <4>2 DEF Ours, Spare, Unowned
    <3> QED BY <3>1, <3>2
  <2> QED BY <1>2, <1>o, <2>1, <2>2, <2>3, <2>4
<1>g. ASSUME NEW r \in Receivers, SweepLook(r) \/ BudgetLook(r) PROVE RemovalsRight'
  <2>1. Holds(r) /\ running' = running /\ UNCHANGED <<partial, sidecar, marker, owns, now>>
        /\ call[r].at \in {"sweep", "legacy", "budget"}
    BY <1>g DEF SweepLook, BudgetLook, Holds
  <2>2. PICK e \in call[r].todo, w \in {"remove", call[r].at} :
              /\ call' = [call EXCEPT ![r] = [call[r] EXCEPT !.todo = @ \ {e}, !.kind = e[1], !.part = {e[2]}, !.at = w]]
              /\ w = "remove" => IF SweepLook(r) THEN MayGo(e) ELSE e[1] = "part" => ~PartIsActive(e[2])
    BY <1>g, <1>t, LooksAt
  <2>3. /\ call'[r].at = w /\ call'[r].op = call[r].op /\ call'[r].part = {e[2]} /\ call'[r].todo \subseteq call[r].todo
        /\ \A s \in Receivers : s # r => call'[s] = call[s]
    BY <1>t, <2>2 DEF StagingCalls
  <2>4. call[r].op = "budget" => call[r].at = "budget" /\ \A f \in call[r].todo : Spare(f)
    BY <1>g, <2>1 DEF SweepLook, BudgetLook, RemovalsRight, SweepsSweep, Ordered
  <2>5. \A f : Spare(f)' <=> Spare(f)
    BY <2>1 DEF Spare, Ours, Unowned
  <2>6. w = "remove" => Unowned(e[2]) /\ Ours(e[2])
    <3>1. CASE SweepLook(r) /\ w = "remove"
      <4>1. MayGo(e)
        BY <2>2, <3>1
      <4>2. e[1] # "part" => e[2] \notin LegacyParts
        BY DEF SweepsSweep, Ordered
      <4> QED BY <4>1, <4>2, InactiveUnowned DEF MayGo, Removable, Ours
    <3>2. CASE ~SweepLook(r) /\ w = "remove"
      <4>1. Spare(e)
        BY <1>g, <2>1, <2>4, <3>2 DEF BudgetLook, RemovalsRight
      <4> QED BY <2>2, <3>2, <4>1, InactiveUnowned DEF Spare
    <3> QED BY <2>2, <3>1, <3>2
  <2>7. \A p : (Unowned(p)' <=> Unowned(p)) /\ (Ours(p)' <=> Ours(p))
    BY <2>1 DEF Unowned, Ours
  <2> HIDE DEF Unowned, Ours, Spare, MayGo
  <2>8. w \in {"remove", "sweep", "legacy", "budget"} /\ w \notin {"stale", "remains"}
    BY <2>1
  <2> QED BY <1>2, <1>o, <2>1, <2>3, <2>4, <2>5, <2>6, <2>7, <2>8
<1>j. ASSUME NEW r \in Receivers, RemovePartial(r) \/ RemoveRemains(r) PROVE RemovalsRight'
  <2>1. /\ Holds(r) /\ running' = running /\ owns' = owns /\ call[r].op \in {"sweep", "budget"}
        /\ call[r].at \in {"remove", "remains"} /\ \A p \in call[r].part : Unowned(p)
    BY <1>j DEF RemovePartial, RemoveRemains, Holds, SweepsSweep, Ordered, RemovalsRight
  <2>2. /\ call'[r].at \in {"remains", Resume(call[r])} /\ call'[r].op = call[r].op /\ call'[r].part = call[r].part
        /\ call'[r].todo = call[r].todo /\ \A s \in Receivers : s # r => call'[s] = call[s]
    <3>1. CASE RemovePartial(r)
      BY <1>t, <3>1, AfterRemoval
    <3>2. CASE RemoveRemains(r)
      BY <3>2, Goes DEF RemoveRemains
    <3> QED BY <1>j, <3>1, <3>2
  <2>3. \A p \in PartNames : Ours(p) => Ours(p)'
    <3>1. CASE RemovePartial(r)
      <4>1. /\ partial' = partial \/ \E p \in call[r].part : partial' = [partial EXCEPT ![p] = {}]
            /\ sidecar' = sidecar \/ (call[r].kind # "part" /\ \E p \in call[r].part : sidecar' = [sidecar EXCEPT ![p] = {}])
        BY <3>1, Zenon DEF RemovePartial
      <4>2. call[r].kind # "part" => \A p \in call[r].part : p \notin LegacyParts
        BY DEF SweepsSweep, Ordered
      <4> QED BY <1>t, <4>1, <4>2 DEF Ours
    <3>2. CASE RemoveRemains(r)
      <4>1. partial' = partial /\ \E p \in call[r].part : sidecar' = [sidecar EXCEPT ![p] = {}]
        BY <3>2 DEF RemoveRemains
      <4>2. \A p \in call[r].part : p \in LegacyParts => partial[p] = {}
        BY <3>2 DEF RemoveRemains, RemovalsRight
      <4> QED BY <1>t, <4>1, <4>2 DEF Ours
    <3> QED BY <1>j, <3>1, <3>2
  <2>4. \A p : Unowned(p) => Unowned(p)'
    BY <2>1 DEF Unowned
  <2>5. call[r].op = "budget" => \A e \in call[r].todo : Spare(e)'
    <3>1. call[r].op = "budget" => \A e \in call[r].todo : Spare(e)
      BY <2>1, <1>j DEF RemovePartial, RemoveRemains, RemovalsRight
    <3> QED BY <1>t, <2>3, <2>4, <3>1 DEF Spare
  <2>6. Resume(call[r]) \notin {"stale", "remove", "remains"}
    BY DEF Resume
  <2>7. call'[r].at = "remains" => \A p \in call[r].part : p \in LegacyParts => partial'[p] = {}
    <3>1. CASE RemovePartial(r)
      <4>1. \/ call[r].kind = "part" /\ \E p \in call[r].part : partial' = [partial EXCEPT ![p] = {}]
            \/ call[r].kind # "part"
        BY <3>1 DEF RemovePartial
      <4>2. call[r].kind # "part" => \A p \in call[r].part : p \notin LegacyParts
        BY DEF SweepsSweep, Ordered
      <4>3. \A p, q \in call[r].part : p = q
        BY DEF SweepsSweep, Ordered
      <4> QED BY <1>t, <4>1, <4>2, <4>3
    <3>2. CASE RemoveRemains(r)
      BY <2>6, <3>2, Goes DEF RemoveRemains
    <3> QED BY <1>j, <3>1, <3>2
  <2> HIDE DEF Ours, Unowned, Spare
  <2> QED BY <1>2, <1>o, <2>1, <2>2, <2>4, <2>5, <2>6, <2>7
<1>l. ASSUME LockAges \/ Tick PROVE RemovalsRight'
  <2>1. UNCHANGED <<call, owns, running, partial, sidecar>>
    BY <1>l DEF LockAges, Tick
  <2> QED BY <2>1 DEF RemovalsRight, Spare, Ours, Unowned
<1> QED BY <1>a, <1>b, <1>c, <1>d, <1>e, <1>f, <1>g, <1>j, <1>l DEF StagingNext

\* The staging area's invariant is inductive for two processes.
LEMMA StagingStep == TwoReceivers /\ StagingInv /\ [StagingNext]_stagingVars => StagingInv'
<1> SUFFICES ASSUME TwoReceivers, StagingInv, [StagingNext]_stagingVars PROVE StagingInv'
  OBVIOUS
<1>1. CASE UNCHANGED stagingVars
  BY <1>1 DEF StagingInv, stagingVars, StagingTypes, SweepsSweep, LockMine, ReclaimsDead, Holds, OwnedMarked, PartIsActive,
              RemovalsRight, At, Spare, Unowned, Ours
<1>2. CASE StagingNext
  BY <1>2, StagingTypesKept, SweepsKept, LockKeptByAll, ReclaimsKept, OwnedKept, RemovalsKept DEF StagingInv
<1> QED BY <1>1, <1>2

\* What the invariant is for.
LEMMA StagingInvSuffices == StagingInv => OwnerMarked
<1> SUFFICES ASSUME StagingInv PROVE OwnerMarked
  OBVIOUS
<1>1. StagingTypeOK
  BY DEF StagingInv, StagingTypes, StagingCalls, StagingTypeOK
<1>2. \A r \in Receivers : \A p \in owns[r] : \A s \in Receivers \ {r} : p \notin owns[s]
  BY DEF StagingInv, OwnedMarked
<1> QED BY <1>1, <1>2 DEF StagingInv, LockMine, OwnedMarked, OwnerMarked

\* One process receives a partial, under a marker of its own that is recent, for
\* two processes with any partials, ages and deaths: the one that takes away the
\* lock of a dead process is alone then (acquireStagingProcessLock).
THEOREM OwnersMarked == TwoReceivers /\ StagingSpec => []OwnerMarked
<1>0. SUFFICES ASSUME TwoReceivers PROVE StagingSpec => []OwnerMarked
  OBVIOUS
<1>1. StagingInit => StagingInv
  BY StagingStarts
<1>2. StagingInv /\ [StagingNext]_stagingVars => StagingInv'
  BY <1>0, StagingStep
<1>3. StagingInv => OwnerMarked
  BY StagingInvSuffices
<1> QED BY <1>1, <1>2, <1>3, PTL DEF StagingSpec

\* For the same two processes a sweep or the byte budget removes neither what a
\* transfer is writing nor a file among the final ones that no transfer put there
\* (sweepStalePartials, EnforcePartialBudget).
THEOREM SweepsSpare == TwoReceivers /\ StagingSpec => MaintenanceSpares
<1> DEFINE Spares == \A r \in Receivers : RemovePartial(r) =>
                       \A p \in call[r].part : Times(<<call[r].kind, p>>) # {} =>
                          /\ \A s \in Receivers : p \notin owns[s]
                          /\ p \in LegacyParts => sidecar[p] # {}
<1>0. SUFFICES ASSUME TwoReceivers PROVE StagingSpec => MaintenanceSpares
  OBVIOUS
<1>1. StagingInit => StagingInv
  BY StagingStarts
<1>2. StagingInv /\ [StagingNext]_stagingVars => StagingInv'
  BY <1>0, StagingStep
<1>3. StagingInv => Spares
  <2> SUFFICES ASSUME StagingInv, NEW r \in Receivers, RemovePartial(r), NEW p \in call[r].part, Times(<<call[r].kind, p>>) # {}
               PROVE  /\ \A s \in Receivers : p \notin owns[s]
                      /\ p \in LegacyParts => sidecar[p] # {}
    OBVIOUS
  <2>1. Unowned(p) /\ Ours(p)
    BY DEF StagingInv, RemovalsRight, RemovePartial
  <2>2. p \in LegacyParts => call[r].kind = "part"
    BY DEF StagingInv, SweepsSweep, Ordered
  <2>3. call[r].kind = "part" => partial[p] # {}
    BY DEF Times
  <2> QED BY <2>1, <2>2, <2>3 DEF Unowned, Ours
<1> HIDE DEF Spares
<1>4. StagingSpec => [][Spares]_stagingVars
  BY <1>1, <1>2, <1>3, PTL DEF StagingSpec
<1> QED BY <1>4 DEF Spares, MaintenanceSpares
=============================================================================
