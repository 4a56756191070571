---------------------------- MODULE MCRpcService -----------------------------
(***************************************************************************)
(* RpcService for TLC. Node names, topic names and objects are only        *)
(* compared, so states that differ by a renaming of them are one state.    *)
(* The types are not: one of them is plain.                                *)
(***************************************************************************)
EXTENDS RpcService, TLC

Renamings == Permutations(Names) \cup Permutations(TopicNames) \cup Permutations(Objects)
=============================================================================
