-------------------------------- MODULE Filters --------------------------------
(***************************************************************************)
(* Lists with some of their members left out, as VidPlugin does it with    *)
(* payloads and ProfileDocuments with proposals and groups.                *)
(***************************************************************************)
EXTENDS Naturals, Sequences, Functions

\* The members of m at the places in I, in their order.
AtPlaces(m, I) ==
  LET sel[n \in 0 .. Len(m)] ==
        IF n = 0 THEN <<>> ELSE IF n \in I THEN Append(sel[n - 1], m[n]) ELSE sel[n - 1]
  IN sel[Len(m)]

\* The members of m that are in S.
Select(m, S) == AtPlaces(m, {i \in 1 .. Len(m) : m[i] \in S})

\* Each member of m where it is first.
Distinct(m) == AtPlaces(m, {i \in 1 .. Len(m) : \A j \in 1 .. i - 1 : m[j] # m[i]})
=============================================================================
