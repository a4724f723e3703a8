---------------------------- MODULE MCWritPackage -----------------------------
(* A package of three documents: the application, which alone is always made *)
(* by the program, the power of attorney, and a court paper that is signed   *)
(* with the package and does not go into the archive.                        *)
EXTENDS WritPackage

MCDocs     == {"application", "proxy", "lawsuit"}
MCRequired == {"application", "proxy"}
MCOutgoing == {"application", "proxy"}

\* Every request; signatures are those of the documents they are sent for.
SignedRight == (Requests \ {"wrong"}) \cup Facts

===============================================================================
