----------------------------- MODULE WritPackage ------------------------------
(***************************************************************************)
(* The package of one claim for the notary: its documents, their detached  *)
(* signatures, the manifest and the archive                                *)
(* (debts/services/bnp_package.py), and the gate of the stage "notary"     *)
(* (debts/services/claims.py, writ_gate.py).                               *)
(*                                                                         *)
(* A request is one step: claims_views.py opens no transaction, so what a  *)
(* request saved before it was refused stays.  A signature is of "this"    *)
(* PDF, of another one, or "gone": the row names a file that was deleted.  *)
(***************************************************************************)
EXTENDS FiniteSets, Naturals

CONSTANTS
    Docs,       \* the documents a package may have
    Required,   \* REQUIRED_DOCS
    Outgoing,   \* OUTGOING_DOCS: what the archive is made of
    MaxDebt,    \* bound: the amounts AIS may report, 0 when nothing is owed
    Ops         \* the requests and events in use

Requests == {"save", "application", "template", "text", "store", "torn", "delete",
             "form", "sign", "wrong", "send", "sign-and-send", "move", "patch"}
Facts    == {"debt", "day"}

ASSUME PackageAssumption ==
    /\ Required \subseteq Outgoing /\ Outgoing \subseteq Docs
    /\ "application" \in Required
    /\ MaxDebt \in Nat \ {0}
    /\ Ops \subseteq Requests \cup Facts

VARIABLES
    claim,  \* the claim: stage, delivery of the warning, tariff
    pkg,    \* ClaimPackage
    doc,    \* ClaimPackageDocuments
    debt    \* what AIS says the account owes

vars == <<claim, pkg, doc, debt>>

Debts == 0..MaxDebt

\* warned: delivery of the warning, "old" when the days of voluntary payment are over.
\* tariff: above zero and the application is not withdrawn.
Claim == [stage: {"prep", "notary", "later"}, warned: {"no", "new", "old"}, tariff: BOOLEAN]

\* whole: service, contacts, debtors and debts are such that a package can be formed.
\* manifest: the amount it has; agreed: the amount when form_package ran (history).
\* archive: the documents in the archive that can be downloaded, none when there is none.
Package == [saved: BOOLEAN, whole: BOOLEAN, formed: BOOLEAN, manifest: Debts, agreed: Debts,
            archive: SUBSET Outgoing]

\* packed: what the archive written last has of the document as it is now: nothing, the PDF,
\* or the PDF and its signature.
Document == [pdf: BOOLEAN, sig: {"none", "this", "other", "gone"}, packed: {"no", "pdf", "all"}]

Blank == [pdf |-> FALSE, sig |-> "none", packed |-> "no"]

TypeOK ==
    /\ claim \in Claim
    /\ pkg \in Package
    /\ doc \in [Docs -> Document]
    /\ debt \in Debts

Init ==
    /\ claim = [stage |-> "prep", warned |-> "no", tariff |-> FALSE]
    /\ pkg   = [saved |-> FALSE, whole |-> FALSE, formed |-> FALSE, manifest |-> 0, agreed |-> 0,
                archive |-> {}]
    /\ doc   = [d \in Docs |-> Blank]
    /\ debt  = MaxDebt

-----------------------------------------------------------------------------
(* The package *)

Has(d) == doc[d].pdf

\* signature_blockers: every PDF has a signature file that can be read and has the form of
\* one; what it signs is not looked at.
AllSigned == \A d \in Docs : Has(d) => doc[d].sig \in {"this", "other"}

\* _ensure: the composition suggested for a new package may be enough or not.
Ensured == IF pkg.saved THEN {pkg} ELSE {[pkg EXCEPT !.saved = TRUE, !.whole = w] : w \in BOOLEAN}

\* A new PDF, a new signature of the PDF there is
NewPdf(sig)    == [pdf |-> TRUE, sig |-> sig, packed |-> "no"]
Signed(r, sig) == [r EXCEPT !.sig = sig, !.packed = IF @ = "all" THEN "pdf" ELSE @]

\* _invalidate
Invalid(p) == [p EXCEPT !.formed = FALSE, !.manifest = 0, !.agreed = 0, !.archive = {}]

\* Mutant: the mark and the manifest go, the archive stays when a document changes.
KeepArchive == \E p \in Ensured : pkg' = [Invalid(p) EXCEPT !.archive = p.archive]

DropPackage == \E p \in Ensured : pkg' = Invalid(p)

\* save_package, refused for a malformed composition after _ensure or not
SavePackage ==
    /\ "save" \in Ops
    /\ \E p \in Ensured : \/ pkg' = p
                         \/ \E w \in BOOLEAN : pkg' = [Invalid(p) EXCEPT !.whole = w]
    /\ UNCHANGED <<claim, doc, debt>>

\* Mutant: the new application keeps the signature of the one before.
ApplicationKept == doc' = [doc EXCEPT !["application"] =
                               NewPdf(IF @.sig = "this" THEN "other" ELSE @.sig)]

\* The application is written anew and loses its own signature.
ApplicationMade == doc' = [doc EXCEPT !["application"] = NewPdf("none")]

\* generate_application
GenerateApplication ==
    /\ "application" \in Ops
    /\ ApplicationMade
    /\ DropPackage
    /\ UNCHANGED <<claim, debt>>

\* _write_pdf: every signature of the package goes with the old text.
Rewrite(d) == doc' = [e \in Docs |-> IF e = d THEN NewPdf("none") ELSE Signed(doc[e], "none")]

\* generate_from_form
FromForm(d) ==
    /\ "template" \in Ops
    /\ Rewrite(d)
    /\ DropPackage
    /\ UNCHANGED <<claim, debt>>

\* update_document_text, update_document_layout
EditText(d) ==
    /\ "text" \in Ops /\ Has(d)
    /\ Rewrite(d)
    /\ DropPackage
    /\ UNCHANGED <<claim, debt>>

Signatures == IF "wrong" \in Ops THEN {"this", "other"} ELSE {"this"}

\* store_document with a PDF, and with its signature in the same request or without
StorePdf(d) ==
    /\ "store" \in Ops
    /\ \E s \in Signatures \cup {"none"} : doc' = [doc EXCEPT ![d] = NewPdf(s)]
    /\ DropPackage
    /\ UNCHANGED <<claim, debt>>

\* store_document without a PDF.  Another kind of signature file changes its name in the
\* manifest; a signature of the same kind leaves the package, and its archive, as they are.
StoreSignature(d) ==
    /\ "store" \in Ops /\ Has(d)
    /\ \/ /\ \E s \in Signatures : doc' = [doc EXCEPT ![d] = Signed(@, s)]
          /\ UNCHANGED pkg
       \/ /\ \E s \in Signatures \cup {"none"} : doc' = [doc EXCEPT ![d] = Signed(@, s)]
          /\ DropPackage
    /\ UNCHANGED <<claim, debt>>

\* store_document with a PDF and a signature that is refused: the signature there was is
\* deleted from the storage already, and no row is saved.
StoreTorn(d) ==
    /\ "torn" \in Ops /\ Has(d) /\ doc[d].sig # "none"
    /\ doc' = [doc EXCEPT ![d] = Signed(@, "gone")]
    /\ UNCHANGED <<claim, pkg, debt>>

\* delete_document
DeleteDocument(d) ==
    /\ "delete" \in Ops /\ Has(d)
    /\ doc' = [doc EXCEPT ![d] = Blank]
    /\ DropPackage
    /\ UNCHANGED <<claim, debt>>

\* Mutant: a package is formed without looking for the documents.
NothingIsMissing == pkg.whole /\ debt > 0

\* _problems has nothing to report.  _file_problems takes a lost signature for one too large.
NoProblems ==
    /\ pkg.whole /\ debt > 0
    /\ \A d \in Required : Has(d)
    /\ \A d \in Outgoing : doc[d].sig # "gone"

\* write_archive: the manifest is made anew, by the amounts of this moment, and saved before
\* a file that cannot be read stops the archive.
Unreadable(D) == \E d \in Outgoing : D[d].sig = "gone"

WriteArchive(p, D) ==
    IF Unreadable(D)
    THEN pkg' = [p EXCEPT !.manifest = debt] /\ doc' = D
    ELSE /\ pkg' = [p EXCEPT !.manifest = debt, !.archive = {d \in Outgoing : D[d].pdf}]
         /\ doc' = [d \in Docs |-> IF d \in Outgoing /\ D[d].pdf THEN [D[d] EXCEPT !.packed = "all"] ELSE D[d]]

\* form_package.  With problems the archive of an earlier forming stays.
Form ==
    IF NoProblems THEN WriteArchive([pkg EXCEPT !.formed = TRUE, !.agreed = debt], doc)
    ELSE /\ pkg' = [pkg EXCEPT !.formed = FALSE, !.manifest = 0, !.agreed = 0]
         /\ UNCHANGED doc

FormPackage ==
    /\ "form" \in Ops /\ pkg.saved
    /\ Form
    /\ UNCHANGED <<claim, debt>>

\* sign_documents: the signer's plugin has signed the PDFs it downloaded, or ones replaced
\* since.  A refused signature stops the request, the ones before it are saved.
SignDocuments ==
    /\ "sign" \in Ops /\ pkg.saved
    /\ \E S \in SUBSET {d \in Docs : Has(d)} \ {{}}, of \in Signatures, all \in BOOLEAN :
          LET D == [d \in Docs |-> IF d \in S THEN Signed(doc[d], of) ELSE doc[d]] IN
          IF all /\ pkg.formed THEN WriteArchive(pkg, D) ELSE doc' = D /\ UNCHANGED pkg
    /\ UNCHANGED <<claim, debt>>

-----------------------------------------------------------------------------
(* The gate *)

\* assert_writ_checklist, the row "package" aside; optional rows only ask for a reason.
CheckList == claim.warned = "old" /\ claim.tariff

\* require_formed_package: _amounts_changed and signature_blockers
SendBlocked(p) == ~p.formed \/ p.manifest # debt \/ ~AllSigned

\* send_to_notary, and move_case to the same stage
SendToNotary ==
    /\ "send" \in Ops
    /\ CheckList /\ ~SendBlocked(pkg)
    /\ claim' = [claim EXCEPT !.stage = "notary"]
    /\ UNCHANGED <<pkg, doc, debt>>

\* sign_and_send: the package is formed if it is not, but the second check of the list reads
\* the package that was loaded with the claim, so that only one formed before goes out.
SignAndSend ==
    /\ "sign-and-send" \in Ops
    /\ CheckList /\ pkg.saved
    /\ IF pkg.formed /\ AllSigned
       THEN WriteArchive(pkg, doc) /\ claim' = [claim EXCEPT !.stage = "notary"]
       ELSE IF pkg.formed THEN UNCHANGED <<pkg, doc, claim>>
       ELSE Form /\ UNCHANGED claim
    /\ UNCHANGED debt

\* move_case to another stage than the notary's
MoveOn(stage) ==
    /\ "move" \in Ops /\ stage # claim.stage /\ stage # "notary"
    /\ claim' = [claim EXCEPT !.stage = stage]
    /\ UNCHANGED <<pkg, doc, debt>>

\* drop_formed_package
DropFormed == pkg' = IF pkg.formed THEN Invalid(pkg) ELSE pkg

\* update_case, as far as the delivery date and the tariff go; the same values,
\* or others of their kind, may be sent.
UpdateCase(warned, tariff) ==
    /\ "patch" \in Ops
    /\ claim' = [claim EXCEPT !.warned = warned, !.tariff = tariff]
    /\ DropFormed \/ (claim' = claim /\ UNCHANGED pkg)
    /\ UNCHANGED <<doc, debt>>

\* An import brings another balance.
DebtMoves(amount) ==
    /\ "debt" \in Ops /\ amount # debt
    /\ debt' = amount
    /\ UNCHANGED <<claim, pkg, doc>>

\* The days of voluntary payment pass.
TermPasses ==
    /\ "day" \in Ops /\ claim.warned = "new"
    /\ claim' = [claim EXCEPT !.warned = "old"]
    /\ UNCHANGED <<pkg, doc, debt>>

Next ==
    \/ SavePackage \/ GenerateApplication \/ FormPackage \/ SignDocuments
    \/ \E d \in Docs : \/ FromForm(d) \/ EditText(d) \/ StorePdf(d) \/ StoreSignature(d) \/ StoreTorn(d)
                     \/ DeleteDocument(d)
    \/ SendToNotary \/ SignAndSend
    \/ \E s \in {"prep", "later"} : MoveOn(s)
    \/ \E w \in {"no", "new", "old"}, t \in BOOLEAN : UpdateCase(w, t)
    \/ \E a \in Debts : DebtMoves(a)
    \/ TermPasses

Spec == Init /\ [][Next]_vars

-----------------------------------------------------------------------------
(* Properties *)

Sent == claim'.stage = "notary" /\ claim.stage # "notary"

\* A formed package has what it needs: every change of a document or of the composition takes
\* the mark and the manifest back.
FormedIsWhole ==
    pkg.formed => /\ pkg.saved /\ pkg.whole
                  /\ \A d \in Required : Has(d)
                  /\ pkg.archive # {}

\* The archive that can be downloaded, also one a later forming with problems has left, has
\* the PDFs of the package as they are: none is missing, replaced or deleted since.
ArchiveKeepsPdfs ==
    pkg.archive # {} => /\ pkg.archive = {d \in Outgoing : Has(d)}
                        /\ \A d \in pkg.archive : doc[d].packed # "no"

\* What goes to the notary is whole, has the amounts of today, and every PDF of it is signed
\* as it is now.
NotaryGetsSigned ==
    [][Sent => /\ pkg'.formed /\ pkg'.whole /\ pkg'.manifest = debt
               /\ \A d \in Required : Has(d)
               /\ \A d \in Docs : Has(d) => doc[d].sig = "this"]_vars

\* "Сумма в АИС изменилась. Сформируйте пакет снова" (bnp_package.py:621): what is sent was
\* formed for the debt as it is.
SentAsFormed == [][Sent => pkg.agreed = debt]_vars

===============================================================================
