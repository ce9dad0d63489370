----------------------------- MODULE MCTokenJobs -----------------------------
(* A small instance of TokenJobs: two rows, of types that fail differently    *)
(* (429s and the frozen check, no frozen check).                              *)
EXTENDS TokenJobs, TLC

CONSTANTS j1, j2

MetadataAndRefresh == j1 :> "fetch_metadata" @@ j2 :> "refresh_token"
=============================================================================
