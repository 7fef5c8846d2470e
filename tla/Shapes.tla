------------------------------- MODULE Shapes -------------------------------
(***************************************************************************)
(* A field of a document somebody else wrote is absent, has the wrong      *)
(* shape, or is a value.  These two stand for the first two.               *)
(***************************************************************************)
CONSTANTS Missing, Malformed

ASSUME ShapesDiffer == Missing # Malformed
=============================================================================
