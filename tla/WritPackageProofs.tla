-------------------------- MODULE WritPackageProofs ---------------------------
(***************************************************************************)
(* Theorems about WritPackage for every set of documents, every amount of  *)
(* the debt and every selection of the requests.                           *)
(***************************************************************************)
EXTENDS WritPackage, TLAPS

-----------------------------------------------------------------------------
(* The inductive invariant, of a package p with the documents D            *)

\* No signature of another PDF, when nobody sends one.
SignedAsSent(D) == "wrong" \notin Ops => \A d \in Docs : D[d].sig # "other"

Sane(p, D) ==
    /\ p \in Package
    /\ D \in [Docs -> Document]
    /\ p.formed => /\ p.saved /\ p.whole
                   /\ \A d \in Required : D[d].pdf
                   /\ p.archive # {}
    /\ p.archive # {} => /\ p.archive = {d \in Outgoing : D[d].pdf}
                         /\ \A d \in p.archive : D[d].packed # "no"
    /\ SignedAsSent(D)

Inv == claim \in Claim /\ debt \in Debts /\ Sane(pkg, doc)

-----------------------------------------------------------------------------
(* The helpers *)

\* A PDF that is written or uploaded, a signature that is put, lost or taken off.
LEMMA NewDocument ==
    ASSUME NEW r \in Document, NEW s \in {"none", "this", "other", "gone"}
    PROVE  /\ NewPdf(s) \in Document /\ NewPdf(s).sig = s
           /\ Signed(r, s) \in Document /\ Signed(r, s).sig = s
           /\ Signed(r, s).pdf = r.pdf
           /\ r.packed # "no" => Signed(r, s).packed # "no"
           /\ Blank \in Document /\ Blank.sig = "none"
  BY DEF NewPdf, Signed, Document, Blank

\* "other" is a signature some request brings only when the run has such requests.
LEMMA SignatureKinds ==
    /\ Signatures \subseteq {"this", "other"}
    /\ "wrong" \notin Ops => "other" \notin Signatures
  BY DEF Signatures

LEMMA EnsuredPackage ==
    ASSUME pkg \in Package, NEW p \in Ensured
    PROVE  p \in Package /\ p.formed = pkg.formed /\ p.archive = pkg.archive
           /\ (pkg.saved => p = pkg)
  BY DEF Ensured, Package

\* A document changes: whatever the documents are, nothing is formed or archived any more.
LEMMA DroppedIsSane ==
    ASSUME NEW p \in Package, NEW D \in [Docs -> Document], SignedAsSent(D)
    PROVE  Sane(Invalid(p), D)
<1>1. 0 \in Debts
  BY PackageAssumption DEF Debts
<1>2. Invalid(p) \in Package /\ ~Invalid(p).formed /\ Invalid(p).archive = {}
  BY <1>1 DEF Invalid, Package
<1> QED BY <1>2 DEF Sane

LEMMA DropIsSane ==
    ASSUME pkg \in Package, doc' \in [Docs -> Document], SignedAsSent(doc'), DropPackage
    PROVE  Sane(pkg', doc')
<1>1. PICK p \in Ensured : pkg' = Invalid(p)
  BY DEF DropPackage
<1> QED BY <1>1, EnsuredPackage, DroppedIsSane

\* Signatures come and go, the PDFs stay: the archive still has them.
LEMMA KeptIsSane ==
    ASSUME NEW p, NEW D, Sane(p, D),
           NEW E \in [Docs -> Document], SignedAsSent(E),
           \A d \in Docs : E[d].pdf = D[d].pdf /\ (D[d].packed # "no" => E[d].packed # "no")
    PROVE  Sane(p, E)
<1>1. {d \in Outgoing : E[d].pdf} = {d \in Outgoing : D[d].pdf}
  BY PackageAssumption
<1>2. p.archive # {} => p.archive = {d \in Outgoing : E[d].pdf} /\ \A d \in p.archive : E[d].packed # "no"
  BY <1>1, PackageAssumption DEF Sane
<1>3. p.formed => \A d \in Required : E[d].pdf
  BY PackageAssumption DEF Sane
<1> QED BY <1>2, <1>3 DEF Sane

\* The archive of a package that may be formed has every document it needs.
LEMMA ArchivedIsSane ==
    ASSUME debt \in Debts,
           NEW p, NEW D, p \in Package, D \in [Docs -> Document], SignedAsSent(D),
           p.saved, p.whole, \A d \in Required : D[d].pdf,
           Unreadable(D) => Sane(p, D),
           WriteArchive(p, D)
    PROVE  Sane(pkg', doc') /\ pkg'.formed = p.formed /\ pkg'.whole = p.whole /\ pkg'.manifest = debt
<1>1. CASE Unreadable(D)
  <2>1. pkg' = [p EXCEPT !.manifest = debt] /\ doc' = D
    BY <1>1 DEF WriteArchive
  <2>2. pkg' \in Package /\ pkg'.formed = p.formed /\ pkg'.saved = p.saved /\ pkg'.whole = p.whole
        /\ pkg'.archive = p.archive /\ pkg'.manifest = debt
    BY <2>1 DEF Package
  <2> QED BY <1>1, <2>1, <2>2 DEF Sane
<1>2. CASE ~Unreadable(D)
  <2> DEFINE A == {d \in Outgoing : D[d].pdf}
  <2>1. /\ pkg' = [p EXCEPT !.manifest = debt, !.archive = A]
        /\ doc' = [d \in Docs |-> IF d \in Outgoing /\ D[d].pdf THEN [D[d] EXCEPT !.packed = "all"] ELSE D[d]]
    BY <1>2 DEF WriteArchive
  <2>2. A \in SUBSET Outgoing
    OBVIOUS
  <2>3. pkg' \in Package /\ pkg'.formed = p.formed /\ pkg'.saved = p.saved /\ pkg'.whole = p.whole
        /\ pkg'.archive = A /\ pkg'.manifest = debt
    <3> HIDE DEF A
    <3> QED BY <2>1, <2>2 DEF Package
  <2>4. ASSUME NEW d \in Docs
        PROVE  /\ doc'[d] \in Document
               /\ doc'[d].pdf = D[d].pdf /\ doc'[d].sig = D[d].sig
               /\ d \in A => doc'[d].packed = "all"
    <3>1. D[d] \in Document
      OBVIOUS
    <3> QED BY <2>1, <3>1 DEF Document
  <2>5. doc' \in [Docs -> Document]
    BY <2>1, <2>4
  <2>6. A = {d \in Outgoing : doc'[d].pdf}
    BY <2>4, PackageAssumption
  <2>7. A # {} /\ \A d \in A : doc'[d].packed # "no"
    BY <2>4, PackageAssumption
  <2>8. \A d \in Required : doc'[d].pdf
    BY <2>4, PackageAssumption
  <2>9. SignedAsSent(doc')
    BY <2>4 DEF SignedAsSent
  <2> HIDE DEF A
  <2> QED BY <2>3, <2>5, <2>6, <2>7, <2>8, <2>9 DEF Sane
<1> QED BY <1>1, <1>2

\* form_package, alone or within sign_and_send: a package that was formed before is formed
\* again, or loses its mark.
LEMMA FormIsSane ==
    ASSUME Inv, pkg.saved, Form
    PROVE  Sane(pkg', doc')
<1>0. pkg \in Package /\ doc \in [Docs -> Document] /\ debt \in Debts /\ SignedAsSent(doc)
  BY DEF Inv, Sane
<1>1. CASE NoProblems
  <2> DEFINE p == [pkg EXCEPT !.formed = TRUE, !.agreed = debt]
  <2>1. p \in Package /\ p.saved = pkg.saved /\ p.whole = pkg.whole
    BY <1>0 DEF Package
  <2>2. pkg.whole /\ (\A d \in Required : doc[d].pdf) /\ ~Unreadable(doc)
    BY <1>1 DEF NoProblems, Has, Unreadable
  <2>3. WriteArchive(p, doc)
    BY <1>1 DEF Form
  <2> HIDE DEF p
  <2> QED BY <1>0, <2>1, <2>2, <2>3, ArchivedIsSane
<1>2. CASE ~NoProblems
  <2>1. pkg' = [pkg EXCEPT !.formed = FALSE, !.manifest = 0, !.agreed = 0] /\ doc' = doc
    BY <1>2 DEF Form
  <2>2. pkg' \in Package /\ ~pkg'.formed /\ pkg'.archive = pkg.archive
    <3>1. 0 \in Debts
      BY PackageAssumption DEF Debts
    <3> QED BY <1>0, <2>1, <3>1 DEF Package
  <2> QED BY <2>1, <2>2 DEF Inv, Sane
<1> QED BY <1>1, <1>2

-----------------------------------------------------------------------------
(* Every step keeps the invariant *)

LEMMA InitInv == Init => Inv
<1> SUFFICES ASSUME Init PROVE Inv
  OBVIOUS
<1>1. claim \in Claim
  BY DEF Init, Claim
<1>2. 0 \in Debts /\ MaxDebt \in Debts
  BY PackageAssumption DEF Debts
<1>3. pkg \in Package /\ ~pkg.formed /\ pkg.archive = {}
  BY <1>2 DEF Init, Package
<1>4. doc \in [Docs -> Document] /\ SignedAsSent(doc)
  BY DEF Init, Blank, Document, SignedAsSent
<1> QED BY <1>1, <1>2, <1>3, <1>4 DEF Inv, Sane, Init

\* The requests that change a document or the composition.
LEMMA ChangesKeepInv ==
    ASSUME Inv,
           \/ SavePackage \/ GenerateApplication
           \/ \E d \in Docs : \/ FromForm(d) \/ EditText(d) \/ StorePdf(d) \/ StoreSignature(d)
                              \/ StoreTorn(d) \/ DeleteDocument(d)
    PROVE  Inv'
<1>0. pkg \in Package /\ doc \in [Docs -> Document] /\ SignedAsSent(doc) /\ Sane(pkg, doc)
  BY DEF Inv, Sane
<1>1. CASE SavePackage
  <2>1. UNCHANGED <<claim, doc, debt>>
    BY <1>1 DEF SavePackage
  <2>2. PICK p \in Ensured : pkg' = p \/ \E w \in BOOLEAN : pkg' = [Invalid(p) EXCEPT !.whole = w]
    BY <1>1 DEF SavePackage
  <2>3. p \in Package /\ p.formed = pkg.formed /\ p.archive = pkg.archive /\ (pkg.saved => p = pkg)
    BY <1>0, EnsuredPackage
  <2>4. CASE pkg' = p
    <3>1. Sane(p, doc)
      BY <1>0, <2>3 DEF Sane
    <3> QED BY <2>1, <2>4, <3>1 DEF Inv
  <2>5. CASE \E w \in BOOLEAN : pkg' = [Invalid(p) EXCEPT !.whole = w]
    <3>1. Sane(Invalid(p), doc)
      BY <1>0, <2>3, DroppedIsSane
    <3>2. ~Invalid(p).formed /\ Invalid(p) \in Package /\ Invalid(p).archive = {}
      BY <2>3, <3>1 DEF Invalid, Package, Sane
    <3>3. pkg' \in Package /\ ~pkg'.formed /\ pkg'.archive = {}
      BY <2>5, <3>2 DEF Package
    <3> QED BY <1>0, <2>1, <3>3 DEF Inv, Sane
  <2> QED BY <2>2, <2>4, <2>5
<1>2. CASE GenerateApplication
  <2>1. doc' = [doc EXCEPT !["application"] = NewPdf("none")] /\ DropPackage /\ UNCHANGED <<claim, debt>>
    BY <1>2 DEF GenerateApplication, ApplicationMade
  <2>2. NewPdf("none") \in Document /\ NewPdf("none").sig = "none"
    BY DEF NewPdf, Document
  <2>3. doc' \in [Docs -> Document] /\ SignedAsSent(doc')
    BY <1>0, <2>1, <2>2 DEF SignedAsSent
  <2> QED BY <1>0, <2>1, <2>3, DropIsSane DEF Inv
<1>3. ASSUME NEW d \in Docs, FromForm(d) \/ EditText(d)
      PROVE  Inv'
  <2>1. doc' = [e \in Docs |-> IF e = d THEN NewPdf("none") ELSE Signed(doc[e], "none")]
        /\ DropPackage /\ UNCHANGED <<claim, debt>>
    BY <1>3 DEF FromForm, EditText, Rewrite
  <2>2. \A e \in Docs : doc'[e] \in Document /\ doc'[e].sig = "none"
    BY <1>0, <2>1, NewDocument
  <2>3. doc' \in [Docs -> Document] /\ SignedAsSent(doc')
    BY <2>1, <2>2 DEF SignedAsSent
  <2> QED BY <1>0, <2>1, <2>3, DropIsSane DEF Inv
<1>4. ASSUME NEW d \in Docs, StorePdf(d)
      PROVE  Inv'
  <2>1. PICK s \in Signatures \cup {"none"} : doc' = [doc EXCEPT ![d] = NewPdf(s)]
    BY <1>4 DEF StorePdf
  <2>2. DropPackage /\ UNCHANGED <<claim, debt>>
    BY <1>4 DEF StorePdf
  <2>3. NewPdf(s) \in Document /\ ("wrong" \notin Ops => NewPdf(s).sig # "other")
    BY SignatureKinds DEF NewPdf, Document
  <2>4. doc' \in [Docs -> Document] /\ SignedAsSent(doc')
    BY <1>0, <2>1, <2>3 DEF SignedAsSent
  <2> QED BY <1>0, <2>2, <2>4, DropIsSane DEF Inv
<1>5. ASSUME NEW d \in Docs, StoreSignature(d)
      PROVE  Inv'
  <2>1. PICK s \in Signatures \cup {"none"} : doc' = [doc EXCEPT ![d] = Signed(@, s)]
    BY <1>5 DEF StoreSignature
  <2>2. doc[d] \in Document
    BY <1>0
  <2>3. /\ Signed(doc[d], s) \in Document
        /\ Signed(doc[d], s).pdf = doc[d].pdf
        /\ doc[d].packed # "no" => Signed(doc[d], s).packed # "no"
        /\ "wrong" \notin Ops => Signed(doc[d], s).sig # "other"
    BY <2>2, NewDocument, SignatureKinds
  <2>4. doc' \in [Docs -> Document] /\ SignedAsSent(doc')
    BY <1>0, <2>1, <2>3 DEF SignedAsSent
  <2>5. \A e \in Docs : doc'[e].pdf = doc[e].pdf /\ (doc[e].packed # "no" => doc'[e].packed # "no")
    BY <1>0, <2>1, <2>3
  <2>6. CASE UNCHANGED pkg
    <3>1. Sane(pkg, doc')
      BY <1>0, <2>4, <2>5, KeptIsSane
    <3> QED BY <1>5, <2>6, <3>1 DEF Inv, StoreSignature
  <2>7. CASE DropPackage
    BY <1>0, <1>5, <2>4, <2>7, DropIsSane DEF Inv, StoreSignature
  <2> QED BY <1>5, <2>6, <2>7 DEF StoreSignature
<1>6. ASSUME NEW d \in Docs, StoreTorn(d)
      PROVE  Inv'
  <2>1. doc' = [doc EXCEPT ![d] = Signed(@, "gone")] /\ UNCHANGED <<claim, pkg, debt>>
    BY <1>6 DEF StoreTorn
  <2>2. doc[d] \in Document
    BY <1>0
  <2>3. /\ Signed(doc[d], "gone") \in Document
        /\ Signed(doc[d], "gone").pdf = doc[d].pdf
        /\ doc[d].packed # "no" => Signed(doc[d], "gone").packed # "no"
        /\ Signed(doc[d], "gone").sig # "other"
    BY <2>2, NewDocument
  <2>4. doc' \in [Docs -> Document] /\ SignedAsSent(doc')
    BY <1>0, <2>1, <2>3 DEF SignedAsSent
  <2>5. \A e \in Docs : doc'[e].pdf = doc[e].pdf /\ (doc[e].packed # "no" => doc'[e].packed # "no")
    BY <1>0, <2>1, <2>3
  <2>6. Sane(pkg, doc')
    BY <1>0, <2>4, <2>5, KeptIsSane
  <2> QED BY <2>1, <2>6 DEF Inv
<1>7. ASSUME NEW d \in Docs, DeleteDocument(d)
      PROVE  Inv'
  <2>1. doc' = [doc EXCEPT ![d] = Blank] /\ DropPackage /\ UNCHANGED <<claim, debt>>
    BY <1>7 DEF DeleteDocument
  <2>2. Blank \in Document /\ Blank.sig = "none"
    BY DEF Blank, Document
  <2>3. doc' \in [Docs -> Document] /\ SignedAsSent(doc')
    BY <1>0, <2>1, <2>2 DEF SignedAsSent
  <2> QED BY <1>0, <2>1, <2>3, DropIsSane DEF Inv
<1> QED BY <1>1, <1>2, <1>3, <1>4, <1>5, <1>6, <1>7

\* sign_documents, form_package, sign_and_send: the requests that write the archive.
LEMMA ArchiveStepsKeepInv ==
    ASSUME Inv, FormPackage \/ SignDocuments \/ SignAndSend
    PROVE  Inv'
<1>0. pkg \in Package /\ doc \in [Docs -> Document] /\ SignedAsSent(doc) /\ Sane(pkg, doc)
      /\ claim \in Claim /\ debt \in Debts
  BY DEF Inv, Sane
<1>1. CASE FormPackage
  BY <1>1, FormIsSane DEF FormPackage, Inv
<1>2. CASE SignDocuments
  <2>1. PICK S \in SUBSET {d \in Docs : Has(d)} \ {{}}, of \in Signatures, all \in BOOLEAN :
           LET D == [d \in Docs |-> IF d \in S THEN Signed(doc[d], of) ELSE doc[d]] IN
           IF all /\ pkg.formed THEN WriteArchive(pkg, D) ELSE doc' = D /\ UNCHANGED pkg
    BY <1>2 DEF SignDocuments
  <2> DEFINE D == [d \in Docs |-> IF d \in S THEN Signed(doc[d], of) ELSE doc[d]]
  <2>2. ASSUME NEW d \in Docs
        PROVE  /\ D[d] \in Document
               /\ D[d].pdf = doc[d].pdf
               /\ doc[d].packed # "no" => D[d].packed # "no"
               /\ "wrong" \notin Ops => D[d].sig # "other"
    <3>1. doc[d] \in Document /\ ("wrong" \notin Ops => doc[d].sig # "other")
      BY <1>0 DEF SignedAsSent
    <3> QED BY <3>1, NewDocument, SignatureKinds
  <2>3. D \in [Docs -> Document] /\ SignedAsSent(D)
    BY <2>2 DEF SignedAsSent
  <2>4. Sane(pkg, D)
    <3> HIDE DEF D
    <3> QED BY <1>0, <2>2, <2>3, KeptIsSane
  <2>5. Sane(pkg', doc')
    <3>1. CASE all /\ pkg.formed
      <4>1. WriteArchive(pkg, D)
        BY <2>1, <3>1
      <4>2. pkg.saved /\ pkg.whole /\ \A d \in Required : D[d].pdf
        BY <2>4, <3>1 DEF Sane
      <4> HIDE DEF D
      <4> QED BY <1>0, <2>3, <2>4, <4>1, <4>2, ArchivedIsSane
    <3>2. CASE ~(all /\ pkg.formed)
      <4>1. doc' = D /\ pkg' = pkg
        BY <2>1, <3>2
      <4> QED BY <2>4, <4>1
    <3> QED BY <3>1, <3>2
  <2> QED BY <1>0, <1>2, <2>5 DEF SignDocuments, Inv
<1>3. CASE SignAndSend
  <2>1. CASE pkg.formed /\ AllSigned
    <3>1. WriteArchive(pkg, doc) /\ claim' = [claim EXCEPT !.stage = "notary"] /\ debt' = debt
      BY <1>3, <2>1 DEF SignAndSend
    <3>2. pkg.saved /\ pkg.whole /\ \A d \in Required : doc[d].pdf
      BY <1>0, <2>1 DEF Sane
    <3>3. Sane(pkg', doc')
      BY <1>0, <3>1, <3>2, ArchivedIsSane
    <3>4. claim' \in Claim
      BY <1>0, <3>1 DEF Claim
    <3> QED BY <1>0, <3>1, <3>3, <3>4 DEF Inv
  <2>2. CASE pkg.formed /\ ~AllSigned
    BY <1>0, <1>3, <2>2 DEF SignAndSend, Inv
  <2>3. CASE ~pkg.formed
    BY <1>0, <1>3, <2>3, FormIsSane DEF SignAndSend, Inv
  <2> QED BY <2>1, <2>2, <2>3
<1> QED BY <1>1, <1>2, <1>3

\* The claim moves, its card is edited, the balance changes, days pass.
LEMMA ClaimStepsKeepInv ==
    ASSUME Inv,
           \/ SendToNotary \/ (\E s \in {"prep", "later"} : MoveOn(s))
           \/ \E w \in {"no", "new", "old"}, t \in BOOLEAN : UpdateCase(w, t)
           \/ \E a \in Debts : DebtMoves(a)
           \/ TermPasses
    PROVE  Inv'
<1>0. pkg \in Package /\ doc \in [Docs -> Document] /\ SignedAsSent(doc) /\ Sane(pkg, doc)
      /\ claim \in Claim /\ debt \in Debts
  BY DEF Inv, Sane
<1>1. CASE SendToNotary
  BY <1>0, <1>1 DEF SendToNotary, Inv, Claim
<1>2. ASSUME NEW s \in {"prep", "later"}, MoveOn(s)
      PROVE  Inv'
  BY <1>0, <1>2 DEF MoveOn, Inv, Claim
<1>3. ASSUME NEW w \in {"no", "new", "old"}, NEW t \in BOOLEAN, UpdateCase(w, t)
      PROVE  Inv'
  <2>1. claim' \in Claim /\ UNCHANGED <<doc, debt>>
    BY <1>0, <1>3 DEF UpdateCase, Claim
  <2>2. CASE pkg' = pkg
    BY <1>0, <2>1, <2>2 DEF Inv
  <2>3. CASE pkg' = Invalid(pkg)
    BY <1>0, <2>1, <2>3, DroppedIsSane DEF Inv
  <2> QED BY <1>3, <2>2, <2>3 DEF UpdateCase, DropFormed
<1>4. ASSUME NEW a \in Debts, DebtMoves(a)
      PROVE  Inv'
  BY <1>0, <1>4 DEF DebtMoves, Inv
<1>5. CASE TermPasses
  BY <1>0, <1>5 DEF TermPasses, Inv, Claim
<1> QED BY <1>1, <1>2, <1>3, <1>4, <1>5

LEMMA NextKeepsInv == Inv /\ [Next]_vars => Inv'
<1> SUFFICES ASSUME Inv, [Next]_vars PROVE Inv'
  OBVIOUS
<1>1. CASE UNCHANGED vars
  BY <1>1 DEF vars, Inv
<1>2. CASE Next
  BY <1>2, ChangesKeepInv, ArchiveStepsKeepInv, ClaimStepsKeepInv DEF Next
<1> QED BY <1>1, <1>2

THEOREM InvHolds == Spec => []Inv
<1> QED BY InitInv, NextKeepsInv, PTL DEF Spec

-----------------------------------------------------------------------------
(* What the reader wants *)

\* Whatever the requests and their order, the variables keep their types.
THEOREM Types == Spec => []TypeOK
<1>1. Inv => TypeOK
  BY DEF Inv, Sane, TypeOK
<1> QED BY InvHolds, <1>1, PTL

\* _invalidate, form_package: a package is formed only with what it needs, its archive included.
THEOREM FormedPackageIsWhole == Spec => []FormedIsWhole
<1>1. Inv => FormedIsWhole
  BY DEF Inv, Sane, FormedIsWhole, Has
<1> QED BY InvHolds, <1>1, PTL

\* write_archive, _invalidate: no archive outlives a PDF it has, or lacks one that was added.
THEOREM ArchiveHasThePdfs == Spec => []ArchiveKeepsPdfs
<1>1. Inv => ArchiveKeepsPdfs
  BY DEF Inv, Sane, ArchiveKeepsPdfs, Has
<1> QED BY InvHolds, <1>1, PTL

\* send_to_notary, sign_and_send: when every signature that is uploaded or made belongs to the
\* document it is sent for, what goes to the notary is whole, has the amounts of today, and is
\* signed as it is now.
THEOREM NotaryGetsSignedPackage ==
    ASSUME "wrong" \notin Ops
    PROVE  Spec => NotaryGetsSigned
<1> DEFINE Whole == /\ pkg'.formed /\ pkg'.whole /\ pkg'.manifest = debt
                    /\ \A d \in Required : Has(d)
                    /\ \A d \in Docs : Has(d) => doc[d].sig = "this"
<1>1. ASSUME Inv, [Next]_vars, Sent
      PROVE  Whole
  <2>0. pkg \in Package /\ doc \in [Docs -> Document] /\ SignedAsSent(doc) /\ Sane(pkg, doc)
        /\ claim \in Claim /\ debt \in Debts
    BY <1>1 DEF Inv, Sane
  <2>1. ASSUME AllSigned, pkg.formed
        PROVE  /\ pkg.saved /\ pkg.whole
               /\ \A d \in Required : Has(d)
               /\ \A d \in Docs : Has(d) => doc[d].sig = "this"
    BY <2>0, <2>1 DEF Sane, AllSigned, SignedAsSent, Has
  <2>2. CASE SendToNotary
    <3>1. pkg' = pkg /\ pkg.formed /\ pkg.manifest = debt /\ AllSigned
      BY <2>2 DEF SendToNotary, SendBlocked
    <3> QED BY <2>1, <3>1
  <2>3. CASE SignAndSend
    <3>1. pkg.formed /\ AllSigned
      BY <1>1, <2>3 DEF SignAndSend, Sent
    <3>2. WriteArchive(pkg, doc)
      BY <2>3, <3>1 DEF SignAndSend
    <3>3. pkg.saved /\ pkg.whole /\ \A d \in Required : doc[d].pdf
      BY <2>1, <3>1 DEF Has
    <3>4. pkg'.formed /\ pkg'.whole /\ pkg'.manifest = debt
      BY <2>0, <3>1, <3>2, <3>3, ArchivedIsSane
    <3> QED BY <2>1, <3>1, <3>4
  <2>4. CASE UNCHANGED claim
    BY <1>1, <2>4 DEF Sent
  <2>5. CASE (\E s \in {"prep", "later"} : MoveOn(s))
             \/ (\E w \in {"no", "new", "old"}, t \in BOOLEAN : UpdateCase(w, t)) \/ TermPasses
    <3>1. claim'.stage # "notary" \/ claim'.stage = claim.stage
      BY <2>0, <2>5 DEF MoveOn, UpdateCase, TermPasses, Claim
    <3> QED BY <1>1, <3>1 DEF Sent
  <2> QED
    BY <1>1, <2>2, <2>3, <2>4, <2>5
    DEF Next, vars, SavePackage, GenerateApplication, FormPackage, SignDocuments, FromForm, EditText,
        StorePdf, StoreSignature, StoreTorn, DeleteDocument, DebtMoves
<1>2. Inv /\ [Next]_vars => [Sent => Whole]_vars
  BY <1>1
<1> HIDE DEF Whole
<1>3. Spec => [][Sent => Whole]_vars
  BY InvHolds, <1>2, PTL DEF Spec
<1> QED BY <1>3 DEF NotaryGetsSigned, Whole

===============================================================================
