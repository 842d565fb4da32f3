------------------------------- MODULE Versions -------------------------------
(* VersionBuilderService: the accepted patches of a set, applied to a copy of the *)
(* canonical resume, become a version with its snapshot and its renderings.        *)
EXTENDS PatchSets

CONSTANT MaxVersions \* bound: versions of the resume, the promoted one included

ASSUME VersionsAssumption == MaxVersions \in Nat \ {0}

VARIABLE versions \* the versions of the resume, in the order they were inserted

Accepted(set) ==
  LET Chosen(i) == set.review[i] = "accepted"
  IN  FlattenSeq([i \in DOMAIN set.patches |-> IF Chosen(i) THEN <<set.patches[i]>> ELSE <<>>])

-----------------------------------------------------------------------------
(* ConflictDetector.                                                            *)

DuplicateTarget(patches) ==
  \E i, j \in DOMAIN patches :
    i < j /\ patches[i].operation = "replace_bullet" /\ patches[j].operation = "replace_bullet"
          /\ patches[i].target = patches[j].target

MissingTarget(p, r) ==
  \/ p.operation = "replace_bullet" /\ ~FindBullet(r, p.target)
  \/ p.operation = "insert_bullet" /\ ~FindEntity(r, p.target)

AlreadyModifiedTarget(p, r) == p.operation = "replace_bullet" /\ r.text[p.target] # p.before

DuplicateInsertion(patches) ==
  \E i, j \in DOMAIN patches :
    i < j /\ patches[i].operation # "replace_bullet" /\ patches[i].operation = patches[j].operation
          /\ patches[i].after = patches[j].after

\* Mutant: the texts the patches were made for are not compared with today's.
ConflictsButModified(patches, r) ==
  DuplicateTarget(patches) \/ DuplicateInsertion(patches) \/ \E i \in DOMAIN patches : MissingTarget(patches[i], r)

\* Mutant: two patches may have one target.
ConflictsButTarget(patches, r) ==
  DuplicateInsertion(patches) \/ \E i \in DOMAIN patches : MissingTarget(patches[i], r) \/ AlreadyModifiedTarget(patches[i], r)

Conflicts(patches, r) ==
  \/ DuplicateTarget(patches) \/ DuplicateInsertion(patches)
  \/ \E i \in DOMAIN patches : MissingTarget(patches[i], r) \/ AlreadyModifiedTarget(patches[i], r)

-----------------------------------------------------------------------------
(* PatchApplier, RendererService.                                               *)

ApplyPatch(document, p) ==
  IF p.operation = "replace_bullet"
  THEN [document EXCEPT !.text[p.target] = p.after]
  ELSE [document EXCEPT !.added = Append(@, [where |-> p.target, text |-> p.after])]

PatchedCopy(r, patches) ==
  Folded(ApplyPatch, [text |-> r.text, state |-> r.state, added |-> <<>>], patches)

\* Mutant: the applier writes into the resume it is given.
ApplyInPlace(r, patches) ==
  [resume |-> [r EXCEPT !.text = PatchedCopy(r, patches).text], snapshot |-> PatchedCopy(r, patches)]

\* The resume it was given, which a copy (structuredClone) spares, and the snapshot.
Apply(r, patches) == [resume |-> r, snapshot |-> PatchedCopy(r, patches)]

\* The texts of the HTML and the PDF: bullets that are not hidden, wherever they are.
Render(document) ==
  {document.text[b] : b \in {x \in Bullets : document.state[x] = "visible"}}
    \cup {document.added[i].text : i \in DOMAIN document.added}

-----------------------------------------------------------------------------
Numbers == {versions[i].number : i \in DOMAIN versions}

\* Mutant: the versions are sorted the other way round.
EarliestVersion == CHOOSE i \in DOMAIN versions : \A n \in Numbers : versions[i].number <= n

\* The version of the highest number (listVersionsForResume sorts by it), by its index.
LatestVersion == CHOOSE i \in DOMAIN versions : \A n \in Numbers : versions[i].number >= n

NextVersionNumber == (CHOOSE n \in Numbers : \A m \in Numbers : n >= m) + 1

\* The version of the promoted draft is number 1 and has no snapshot.
VersionsInit == versions = <<[number |-> 1, parent |-> 0, set |-> 0, rendered |-> {}]>>

VersionFrom(s, snapshot) ==
  [number |-> NextVersionNumber, parent |-> LatestVersion, set |-> s, rendered |-> Render(snapshot)]

CreateVersionFromPatchSet(s) ==
  LET patches == Accepted(sets[s])
      applied == Apply(resume, patches)
  IN  /\ active
      /\ patches # <<>>
      /\ ~Conflicts(patches, resume)
      /\ Len(versions) < MaxVersions
      /\ versions' = Append(versions, VersionFrom(s, applied.snapshot))
      /\ resume' = applied.resume

VersionType ==
  \A i \in DOMAIN versions :
    /\ versions[i].number \in 1 .. MaxVersions
    /\ versions[i].parent \in 0 .. Len(versions)
    /\ versions[i].set \in 0 .. Len(sets)
=============================================================================
