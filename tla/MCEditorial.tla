----------------------------- MODULE MCEditorial -----------------------------
(* One nomination with attempts that overlap, beside a candidate of promotion's *)
(* own to merge with; a response is lost on the way.  Three trends: promotion's *)
(* and two that the nomination can mint.                                        *)
EXTENDS Editorial
=============================================================================
