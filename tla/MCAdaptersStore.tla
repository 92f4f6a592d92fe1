-------------------------- MODULE MCAdaptersStore --------------------------
(***************************************************************************)
(* Small instances of the adapters store for TLC.                          *)
(***************************************************************************)
EXTENDS AdaptersStore, TLC

CONSTANTS n1, n2, b1, b2, a1, a2

Datum(base, adapters) == [base |-> base, adapters |-> adapters]

\* n1 may be edited to another base model, lose its baseModel or have a list
\* that does not parse; n2 may hold a slice of the same base model's adapters
\* or list n1's adapter.
Slices ==
    n1 :> {Datum(b1, {}), Datum(b1, {a1}), Datum(b2, {a1}), Datum(None, {a1}), Datum(b1, Malformed)}
        @@ n2 :> {Datum(b1, {}), Datum(b1, {a1, a2}), Datum(b2, {a2})}
=============================================================================
