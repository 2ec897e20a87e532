--------------------------- MODULE MCParcelCommit ---------------------------
(* One parcel: a payment and a payload.                                    *)
EXTENDS ParcelCommit
=============================================================================
