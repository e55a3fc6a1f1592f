---------------------------- MODULE MCBuildCache ----------------------------
(* Instances of BuildCache: two units share a header that may be shadowed. *)
EXTENDS BuildCache

CONSTANTS a, b

TwoJobs == <<a, b>>

=============================================================================
