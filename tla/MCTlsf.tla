------------------------------- MODULE MCTlsf -------------------------------
(* Two sheets of ten granules (DataUnits), requests from nothing to more than a sheet: lists that
   hold blocks of different sizes, splits with and without a rest. *)
EXTENDS Tlsf

MCSheets   == {0, 1}
MCRequests == {0, 1, 2, 3, 5, 9, 10}
=============================================================================
