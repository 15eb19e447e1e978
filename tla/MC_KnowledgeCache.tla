--------------------------- MODULE MC_KnowledgeCache ---------------------------
(* TLC instance of KnowledgeCache: two calls at a time, each followed by others,
   and one agent more than the cache has room for. *)
EXTENDS KnowledgeCache
================================================================================
