--------------------------- MODULE MCLiveTransfer ---------------------------
(* Instances of LiveTransfer for TLC.                                       *)
EXTENDS LiveTransfer, TLC

\* Suppliers are interchangeable: no property names one.
SupplierSymmetry == Permutations(Supplier)
=============================================================================
