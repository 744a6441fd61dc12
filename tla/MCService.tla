----------------------------- MODULE MCService -----------------------------
EXTENDS GwService

(* No header, and headers on both sides of every bound of on_header and of *)
(* the cap of a minute.                                                    *)
SomeRetryAfter == {-1, 0, 1, 61, 3601}
SomeJitter == {0, 499}
=============================================================================
