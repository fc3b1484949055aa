----------------------------- MODULE MCSigning -----------------------------
(* Small instances of Signing. *)
EXTENDS Signing

CONSTANTS short, long   \* two names, the first of them part of the second

Contained == {<<short, short>>, <<long, long>>, <<short, long>>}
=============================================================================
